----------------------------- MODULE EntryCycle -----------------------------
(***************************************************************************)
(* The trading cycle seen from its entry orders: scripts/ai_factor_trader  *)
(* .py (execute_portfolio) and scripts/trader/*, together with the budget  *)
(* ledger it reserves in, the exchange, and the two files it keeps.        *)
(*                                                                         *)
(* A cycle reconciles the open orders, cancels stale ones, reads positions *)
(* and then open orders, returns budget nobody uses, manages positions and *)
(* submits new entries.  Between any two of its steps the exchange may     *)
(* fill an order or close a position, and the process may die.             *)
(*                                                                         *)
(* An AI decision is a number: its time stamp.  It names the intent, the   *)
(* reservation row and the one order submitted for it.  Ages are classes,  *)
(* cut at the three deadlines of the code, and advance between cycles.     *)
(***************************************************************************)
EXTENDS RiskReservation

CONSTANTS
  Acct,            \* the account key of the frozen environment
  Instrument,
  InstOf, SideOf,  \* instrument and side of every decision
  MaxPositions,    \* MAX_CONCURRENT_POSITIONS
  MaxSameSide,     \* MAX_SAME_DIRECTION_POSITIONS
  MaxScaleIn,      \* MAX_SCALE_IN_COUNT
  Faults           \* what may go wrong: "network", "lost_reply", "crash", "files"

Side == {"long", "short"}
Pair == Instrument \X Side

ASSUME EntryAssumption ==
  /\ Acct \in Account
  /\ Intent \subseteq Nat
  /\ InstOf \in [Intent -> Instrument]
  /\ SideOf \in [Intent -> Side]
  /\ MaxPositions \in Nat /\ MaxSameSide \in Nat /\ MaxScaleIn \in Nat
  /\ Faults \subseteq {"network", "lost_reply", "crash", "files"}

VARIABLES
  order,       \* at the exchange: the order of each decision
  tracker,     \* position tracker file: scale-ins counted per position, -1 = no entry
  intents,     \* open-intent file: the decisions recorded in it
  broken,      \* files that exist but cannot be read
  age,         \* 0: < 30 min, 1: < 2 h, 2: < 6 h, 3: older
  pc,          \* where the cycle is
  blocked,     \* entries_blocked of this cycle
  todo,        \* decisions left in the loop being run
  kept,        \* kept_ord_ids of this cycle
  seenPos,     \* positions read in this cycle
  seenOrders,  \* pending orders read, and entries accepted, in this cycle
  scanned,     \* instruments the entry scan has passed in this cycle
  cur,         \* the decision being submitted
  lost,        \* history: orders accepted by the exchange whose reply was lost
  raced,       \* history: orders that neither of the two reads of a cycle showed
  uncounted    \* history: scale-ins accepted and never counted

files == <<tracker, intents, broken>>
seen == <<seenPos, seenOrders>>
locals == <<blocked, todo, kept, seen, scanned, cur>>
history == <<lost, raced, uncounted>>
entryVars == <<ledgerVars, order, files, age, pc, locals, history>>

Steps == {"idle", "reconcile", "clean", "sweep", "positions", "pending", "ledger",
          "manage", "entries", "submit", "release", "record", "confirm", "count"}

CycleTypeOK ==
  /\ order \in [Intent -> {"none", "open", "partial", "filled", "done"}]
  /\ tracker \in [Pair -> Int]
  /\ intents \subseteq Intent
  /\ broken \subseteq {"intents", "trackers"}
  /\ age \in [Intent -> 0..3]
  /\ pc \in Steps
  /\ blocked \in BOOLEAN
  /\ todo \subseteq Intent /\ kept \subseteq Intent /\ seenOrders \subseteq Intent
  /\ seenPos \subseteq Pair /\ scanned \subseteq Instrument
  /\ cur \subseteq Intent
  /\ lost \subseteq Intent /\ raced \subseteq Intent /\ uncounted \subseteq Intent

EntryTypeOK == LedgerTypeOK /\ CycleTypeOK

-----------------------------------------------------------------------------
PairOf(d) == <<InstOf[d], SideOf[d]>>
KeyOf(d) == <<Acct, d>>
Holding(d) == Present(rows[KeyOf(d)]) /\ ~rows[KeyOf(d)].released

(* A partially filled order is pending and already has a position. *)
Live(d) == order[d] \in {"open", "partial"}
InPosition(d) == order[d] \in {"partial", "filled"}
Exposed(d) == Live(d) \/ InPosition(d)
Positions == {PairOf(d) : d \in {e \in Intent : InPosition(e)}}

(* Slip: partially filled orders are not listed. *)
OpenOrdersUnfilled == {d \in Intent : order[d] = "open"}
OpenOrders == {d \in Intent : Live(d)}

(* load_trackers() gives an unreadable file as an empty dictionary. *)
Tracked(p) == "trackers" \notin broken /\ tracker[p] >= 0
Stale(d) == age[d] >= 1       \* STALE_ORDER_TTL_SECONDS
Expired(d) == age[d] >= 3     \* OPEN_INTENT_TTL_MS

(* Slip: the comparison with RESERVATION_RECONCILE_TTL_S is turned round. *)
IdleInverted(d) == age[d] < 2
Idle(d) == age[d] >= 2

EntryInit ==
  /\ LedgerInit
  /\ order = [d \in Intent |-> "none"]
  /\ tracker = [p \in Pair |-> -1]
  /\ intents = {} /\ broken = {}
  /\ age = [d \in Intent |-> 0]
  /\ pc = "idle" /\ blocked = FALSE
  /\ todo = {} /\ kept = {} /\ seenPos = {} /\ seenOrders = {} /\ scanned = {} /\ cur = {}
  /\ lost = {} /\ raced = {} /\ uncounted = {}

-----------------------------------------------------------------------------
(* The exchange, the clock, the disk, the operator and the operating system. *)

(* Between the two reads of a cycle a position appears that the first did not
   show, and the order of it disappears before the second. *)
MayEscape(d) ==
  raced' = IF pc = "pending" /\ order'[d] = "filled" /\ PairOf(d) \notin seenPos
           THEN raced \cup {d} ELSE raced

Fill(d) ==
  /\ Live(d)
  /\ \E to \in {"partial", "filled"} \ {order[d]} : order' = [order EXCEPT ![d] = to]
  /\ MayEscape(d)
  /\ UNCHANGED <<ledgerVars, files, age, pc, locals, lost, uncounted>>

(* A cancelled order keeps what it had filled. *)
Cancel(d) ==
  /\ Live(d)
  /\ order' = [order EXCEPT ![d] = IF @ = "partial" THEN "filled" ELSE "done"]

(* The AI brain (execute_brain_pending_cancels) or the operator cancels it. *)
CancelOutside(d) ==
  /\ Cancel(d)
  /\ MayEscape(d)
  /\ UNCHANGED <<ledgerVars, files, age, pc, locals, lost, uncounted>>

(* Stop, take-profit, liquidation or a manual close: what is left of a
   partially filled order stays open. *)
AfterClose(o, ps) ==
  [d \in Intent |-> IF PairOf(d) \notin ps THEN o[d]
                    ELSE CASE o[d] = "filled" -> "done"
                           [] o[d] = "partial" -> "open"
                           [] OTHER -> o[d]]

ClosePosition(p) ==
  /\ p \in Positions
  /\ order' = AfterClose(order, {p})
  /\ UNCHANGED <<ledgerVars, files, age, pc, locals, history>>

(* A deadline passes; older decisions pass it first.  A cycle is short
   against all three deadlines, so ages stand still while one runs. *)
Ageing(d) == Live(d) \/ Holding(d) \/ d \in intents

Elapse(d) ==
  /\ pc = "idle"
  /\ Ageing(d) /\ age[d] < 3
  /\ \A e \in Intent : e < d /\ Ageing(e) => age[e] > age[d]
  /\ age' = [age EXCEPT ![d] = @ + 1]
  /\ UNCHANGED <<ledgerVars, order, files, pc, locals, history>>

(* A file exists and cannot be read any more. *)
Damage(f) ==
  /\ "files" \in Faults
  /\ f \notin broken
  /\ f = "trackers" => pc = "idle"
  /\ broken' = broken \cup {f}
  /\ UNCHANGED <<ledgerVars, order, tracker, intents, age, pc, locals, history>>

Repair(f) ==
  /\ f \in broken
  /\ pc = "idle"
  /\ broken' = broken \ {f}
  /\ UNCHANGED <<ledgerVars, order, tracker, intents, age, pc, locals, history>>

(* The operator saves another risk budget.  reservation_manager() asks its
   environment anew for every call, which is filled from .env when the process
   starts: the next cycle is the first to see it. *)
ChangeBudget ==
  /\ pc = "idle"
  /\ ChangeLimit
  /\ UNCHANGED <<order, files, age, pc, locals, history>>

(* Every way a cycle ends; what it held in memory is gone. *)
EndCycle ==
  /\ pc' = "idle" /\ blocked' = FALSE
  /\ todo' = {} /\ kept' = {} /\ seenPos' = {} /\ seenOrders' = {} /\ scanned' = {} /\ cur' = {}

Crash ==
  /\ "crash" \in Faults
  /\ pc # "idle"
  /\ EndCycle
  /\ uncounted' = IF pc \in {"record", "confirm", "count"}
                  THEN uncounted \cup {d \in cur : PairOf(d) \in seenPos} ELSE uncounted
  /\ UNCHANGED <<ledgerVars, order, files, age, lost, raced>>

(* A ledger call raises; every caller logs it and goes on. *)
LedgerFails == "files" \in Faults /\ UNCHANGED ledgerVars

-----------------------------------------------------------------------------
(* Phase 0a: reconcile_pending_orders.  The open orders, the trackers and the
   intents are read once; an order is kept for a position of its own side, or
   for the newest intent of its instrument if that has its side and is young. *)

Unattributed ==
  /\ "network" \in Faults \/ "intents" \in broken
  /\ pc' = "clean" /\ blocked' = TRUE
  /\ UNCHANGED todo

ReadOpenOrders ==
  /\ "intents" \notin broken
  /\ pc' = "reconcile" /\ todo' = OpenOrders
  /\ UNCHANGED blocked

StartCycle ==
  /\ pc = "idle"
  /\ Unattributed \/ ReadOpenOrders
  /\ UNCHANGED <<ledgerVars, order, files, age, kept, seen, scanned, cur, history>>

IntentsOn(i) == {e \in intents : InstOf[e] = i}
NewestOn(i) == CHOOSE e \in IntentsOn(i) : \A f \in IntentsOn(i) : f <= e
OldestOn(i) == CHOOSE e \in IntentsOn(i) : \A f \in IntentsOn(i) : e <= f

Covers(e, d) == SideOf[e] = SideOf[d] /\ ~Expired(e)

(* Slip: the first matching intent decides, which is the oldest. *)
OwnedByOldest(d) ==
  \/ Tracked(PairOf(d))
  \/ IntentsOn(InstOf[d]) # {} /\ Covers(OldestOn(InstOf[d]), d)

Owned(d) ==
  \/ Tracked(PairOf(d))
  \/ IntentsOn(InstOf[d]) # {} /\ Covers(NewestOn(InstOf[d]), d)

(* cancel_order raises when the call fails or the order is no longer open. *)
CancelFails(d) ==
  /\ "network" \in Faults \/ ~Live(d)
  /\ UNCHANGED order

ReconcileOne(d) ==
  /\ pc = "reconcile" /\ d \in todo
  /\ \/ /\ Owned(d)
        /\ kept' = kept \cup {d} /\ todo' = todo \ {d}
        /\ UNCHANGED <<order, pc, blocked>>
     \/ /\ ~Owned(d)
        /\ Cancel(d)
        /\ todo' = todo \ {d}
        /\ UNCHANGED <<kept, pc, blocked>>
     \/ /\ ~Owned(d)
        /\ CancelFails(d)
        /\ blocked' = TRUE /\ todo' = {} /\ pc' = "clean"
        /\ UNCHANGED kept
  /\ UNCHANGED <<ledgerVars, files, age, seen, scanned, cur, history>>

ReconcileDone ==
  /\ pc = "reconcile" /\ todo = {}
  /\ pc' = "clean"
  /\ UNCHANGED <<ledgerVars, order, files, age, locals, history>>

(* Phase 0: clean_stale_open_orders.  Orders that were not kept and are past
   the stale deadline are cancelled; any failure aborts the cycle. *)
CleanRead ==
  /\ pc = "clean"
  /\ pc' = "sweep"
  /\ todo' = {d \in OpenOrders \ kept : Stale(d)}
  /\ UNCHANGED <<ledgerVars, order, files, age, blocked, kept, seen, scanned, cur, history>>

CleanOne(d) ==
  /\ pc = "sweep" /\ d \in todo
  /\ \/ /\ Cancel(d)
        /\ todo' = todo \ {d}
        /\ UNCHANGED <<pc, blocked, kept, seen, scanned, cur>>
     \/ /\ CancelFails(d)
        /\ EndCycle
  /\ UNCHANGED <<ledgerVars, files, age, history>>

CleanDone ==
  /\ pc = "sweep" /\ todo = {}
  /\ pc' = "positions"
  /\ UNCHANGED <<ledgerVars, order, files, age, locals, history>>

-----------------------------------------------------------------------------
(* trading_session_state says "off": the cycle stops before the positions. *)
SessionOff ==
  /\ pc = "positions"
  /\ EndCycle
  /\ UNCHANGED <<ledgerVars, order, files, age, history>>

(* Phase 1: fetch_positions_and_reconcile reads the positions first and the
   open orders second, and aborts on both sides of one instrument. *)

Hedged(ps) == \E i \in Instrument : {i} \X Side \subseteq ps

ReadPositions ==
  /\ pc = "positions"
  /\ IF Hedged(Positions)
     THEN EndCycle
     ELSE /\ seenPos' = Positions /\ pc' = "pending"
          /\ UNCHANGED <<blocked, todo, kept, seenOrders, scanned, cur>>
  /\ UNCHANGED <<ledgerVars, order, files, age, history>>

(* Slip: a pending order does not keep a reservation. *)
StillLiveByPosition(d, ps, os) == PairOf(d) \in ps

(* A reservation is kept while a position of its instrument and side, or any
   pending order on its instrument, was seen; otherwise it goes once idle. *)
StillLive(d, ps, os) ==
  PairOf(d) \in ps \/ InstOf[d] \in {InstOf[e] : e \in os}

ReadPending ==
  /\ pc = "pending"
  /\ seenOrders' = OpenOrders /\ pc' = "ledger"
  /\ todo' = {d \in Intent : Holding(d) /\ Idle(d) /\ ~StillLive(d, seenPos, OpenOrders)}
  /\ UNCHANGED <<ledgerVars, order, files, age, blocked, kept, seenPos, scanned, cur, history>>

(* reconcile_reservation_ledger, one row; a refused release is retried by the
   next cycle. *)
ReturnBudget(d) ==
  /\ pc = "ledger" /\ d \in todo
  /\ Release(KeyOf(d), "closed") \/ LedgerFails
  /\ todo' = todo \ {d}
  /\ UNCHANGED <<order, files, age, pc, blocked, kept, seen, scanned, cur, history>>

LedgerDone ==
  /\ pc = "ledger" /\ todo = {}
  /\ pc' = "manage"
  /\ UNCHANGED <<ledgerVars, order, files, age, locals, history>>

(* A read of positions, orders or balances fails: the cycle aborts. *)
ReadFails ==
  /\ "network" \in Faults
  /\ \/ pc \in {"clean", "positions", "pending"}
     \/ pc = "ledger" /\ todo = {}
  /\ EndCycle
  /\ UNCHANGED <<ledgerVars, order, files, age, history>>

(* Phases 3 and 4: trackers of vanished positions are dropped, the seen ones
   get an entry, and those in `closing` are closed and dropped.  An unreadable
   tracker file is never written. *)
ManagePositions(closing) ==
  /\ pc = "manage"
  /\ order' = AfterClose(order, closing)
  /\ tracker' = IF "trackers" \in broken THEN tracker
                ELSE [p \in Pair |-> IF p \notin seenPos \ closing THEN -1
                                     ELSE IF tracker[p] < 0 THEN 0 ELSE tracker[p]]
  /\ pc' = "entries"
  /\ UNCHANGED <<ledgerVars, intents, broken, age, locals, history>>

-----------------------------------------------------------------------------
(* Phase 4: execute_entry_scan and submit_protected_limit_order.  The scan
   passes every instrument once. *)

Busy == {InstOf[e] : e \in seenOrders}
ReservedSlots == Cardinality({p[1] : p \in seenPos}) + Cardinality(Busy)
ReservedSide(s) == Cardinality({p \in seenPos : p[2] = s})
                   + Cardinality({e \in seenOrders : SideOf[e] = s})

(* Slip: only positions count against the limits. *)
NewEntryCountingPositions(d) ==
  /\ \A s \in Side : <<InstOf[d], s>> \notin seenPos
  /\ Cardinality({p[1] : p \in seenPos}) < MaxPositions
  /\ Cardinality({p \in seenPos : p[2] = SideOf[d]}) < MaxSameSide

NewEntry(d) ==
  /\ \A s \in Side : <<InstOf[d], s>> \notin seenPos
  /\ ReservedSlots < MaxPositions
  /\ ReservedSide(SideOf[d]) < MaxSameSide

(* A position without a readable tracker counts as fully scaled in. *)
ScaleIn(d) ==
  /\ PairOf(d) \in seenPos
  /\ Tracked(PairOf(d))
  /\ tracker[PairOf(d)] < MaxScaleIn

Fresh(d) ==
  /\ order[d] = "none"
  /\ \A e \in Intent : Present(rows[KeyOf(e)]) => e < d

(* Slip: the orders already waiting on the instrument are not looked at. *)
MayEnterTwice(d) == NewEntry(d) \/ ScaleIn(d)

MayEnter(d) ==
  /\ InstOf[d] \notin Busy
  /\ NewEntry(d) \/ ScaleIn(d)

(* route_and_reserve_signal: nothing is sent without a reservation. *)
Submit(d) ==
  /\ pc = "entries" /\ cur = {} /\ ~blocked
  /\ InstOf[d] \notin scanned
  /\ Fresh(d) /\ MayEnter(d)
  /\ \E amt \in Amount : Reserve(KeyOf(d), amt, "pending")
  /\ scanned' = scanned \cup {InstOf[d]}
  /\ IF reply'.outcome = "ok"
     THEN pc' = "submit" /\ cur' = {d}
     ELSE UNCHANGED <<pc, cur>>
  /\ UNCHANGED <<order, files, age, blocked, todo, kept, seen, history>>

(* A gate before the order, or the exchange, says no. *)
RejectOrder(d) ==
  /\ pc = "submit" /\ d \in cur
  /\ pc' = "release"
  /\ UNCHANGED <<ledgerVars, order, files, age, locals, history>>

(* The exchange takes the order but the call times out or breaks: the caller
   cannot tell this from a rejection. *)
LoseReply(d) ==
  /\ "lost_reply" \in Faults
  /\ pc = "submit" /\ d \in cur
  /\ order' = [order EXCEPT ![d] = "open"]
  /\ lost' = lost \cup {d}
  /\ pc' = "release"
  /\ UNCHANGED <<ledgerVars, files, age, locals, raced, uncounted>>

(* Slip: the row of a failed order is deleted. *)
ReleaseFailedDeleting(d) ==
  /\ pc = "release" /\ d \in cur
  /\ rows' = [rows EXCEPT ![KeyOf(d)] = NoRow]
  /\ Answer("release", "ok")
  /\ pc' = "entries" /\ cur' = {}
  /\ UNCHANGED <<order, files, age, blocked, todo, kept, seen, scanned, history>>

ReleaseFailed(d) ==
  /\ pc = "release" /\ d \in cur
  /\ Release(KeyOf(d), "rejected") \/ LedgerFails
  /\ pc' = "entries" /\ cur' = {}
  /\ UNCHANGED <<order, files, age, blocked, todo, kept, seen, scanned, history>>

PlaceOrder(d) ==
  /\ pc = "submit" /\ d \in cur
  /\ order' = [order EXCEPT ![d] = "open"]
  /\ pc' = "record"
  /\ UNCHANGED <<ledgerVars, files, age, locals, history>>

(* record_open_intent: expired intents and older ones of the same instrument
   and side are dropped; an unreadable file starts again empty; a failed write
   is only logged. *)
RecordIntent(d) ==
  /\ pc = "record" /\ d \in cur
  /\ \/ LET readable == IF "intents" \in broken THEN {} ELSE intents
        IN /\ intents' = {d} \cup {e \in readable : ~Expired(e) /\ PairOf(e) # PairOf(d)}
           /\ broken' = broken \ {"intents"}
     \/ "files" \in Faults /\ UNCHANGED <<intents, broken>>
  /\ pc' = "confirm"
  /\ UNCHANGED <<ledgerVars, order, tracker, age, locals, history>>

(* confirm_signal_reservation, then the counters of this cycle. *)
ConfirmOrder(d) ==
  /\ pc = "confirm" /\ d \in cur
  /\ Confirm(KeyOf(d)) \/ LedgerFails
  /\ IF PairOf(d) \in seenPos
     THEN pc' = "count" /\ UNCHANGED <<seenOrders, cur>>
     ELSE pc' = "entries" /\ seenOrders' = seenOrders \cup {d} /\ cur' = {}
  /\ UNCHANGED <<order, files, age, blocked, todo, kept, seenPos, scanned, history>>

(* Slip: the new count is not saved. *)
CountScaleInUnsaved(d) ==
  /\ pc = "count" /\ d \in cur
  /\ pc' = "entries" /\ cur' = {}
  /\ UNCHANGED <<ledgerVars, order, files, age, blocked, todo, kept, seen, scanned, history>>

(* The tracker of the position counts the scale-in; a failed save is logged. *)
CountScaleIn(d) ==
  /\ pc = "count" /\ d \in cur
  /\ \/ /\ tracker' = [tracker EXCEPT ![PairOf(d)] = @ + 1]
        /\ UNCHANGED uncounted
     \/ /\ "files" \in Faults
        /\ UNCHANGED tracker
        /\ uncounted' = uncounted \cup {d}
  /\ pc' = "entries" /\ cur' = {}
  /\ UNCHANGED <<ledgerVars, order, intents, broken, age, blocked, todo, kept, seen, scanned,
                 lost, raced>>

FinishCycle ==
  /\ pc = "entries" /\ cur = {}
  /\ EndCycle
  /\ UNCHANGED <<ledgerVars, order, files, age, history>>

-----------------------------------------------------------------------------
Environment ==
  \/ \E d \in Intent : Fill(d) \/ CancelOutside(d) \/ Elapse(d)
  \/ \E p \in Pair : ClosePosition(p)
  \/ \E f \in {"intents", "trackers"} : Damage(f) \/ Repair(f)
  \/ ChangeBudget \/ Crash

Housekeeping ==
  \/ StartCycle \/ ReconcileDone \/ CleanRead \/ CleanDone \/ SessionOff
  \/ ReadPositions \/ ReadPending \/ LedgerDone \/ ReadFails
  \/ \E d \in Intent : ReconcileOne(d) \/ CleanOne(d) \/ ReturnBudget(d)
  \/ \E closing \in SUBSET seenPos : ManagePositions(closing)

Entry ==
  \/ \E d \in Intent :
       \/ Submit(d) \/ RejectOrder(d) \/ LoseReply(d) \/ ReleaseFailed(d)
       \/ PlaceOrder(d) \/ RecordIntent(d) \/ ConfirmOrder(d) \/ CountScaleIn(d)
  \/ FinishCycle

EntryNext == Environment \/ Housekeeping \/ Entry

EntrySpec == EntryInit /\ [][EntryNext]_entryVars

(* What the scheduler and a working day give: deadlines pass, cycles keep being
   started and take their steps (one of them is enabled in every state, so this
   is weak fairness of them), the session gate lets some of them through, and
   the process is not killed for ever.  (A cycle that ends by itself looks like
   one that is killed at the same place.) *)
EntryFairness ==
  /\ \A d \in Intent : SF_entryVars(Elapse(d))
  /\ []<><<Housekeeping \/ Entry>>_entryVars
  /\ SF_entryVars(ReadPositions)
  /\ <>[][Crash => FinishCycle \/ SessionOff \/ \E d \in Intent : CleanOne(d)]_entryVars

FairEntrySpec == EntrySpec /\ EntryFairness

-----------------------------------------------------------------------------
(* What the trader knows of: orders whose acceptance it saw, and that did not
   turn into a position between the two reads of one cycle, unseen by both. *)
Known(d) == d \notin lost \cup raced

(* An order the trader knows it placed, or the position it became, always has
   an unreleased reservation: across crashes, failed reads and writes, closed
   positions and the reconciliation that hands budget back. *)
KnownExposureReserved ==
  \A d \in Intent : Exposed(d) /\ Known(d) => Holding(d)

(* The instruments the trader is exposed to stay within the slots, overall and
   per side, whatever fills, crashes and restarts happen: but for instruments
   on which an order once escaped its notice, because the position this makes
   takes a slot unasked and may then be scaled in like any other. *)
Surprising == {InstOf[e] : e \in lost \cup raced}
ExposedInstruments(S) == {InstOf[d] : d \in {e \in S : Exposed(e)}} \ Surprising
SlotsRespected ==
  /\ Cardinality(ExposedInstruments(Intent)) <= MaxPositions
  /\ \A s \in Side :
       Cardinality(ExposedInstruments({d \in Intent : SideOf[d] = s})) <= MaxSameSide

(* The trader never opens both sides of one instrument itself: a cycle that
   finds them refuses to run, and nothing would manage the positions. *)
NeverHedged ==
  \A d, e \in Intent :
    /\ Exposed(d) /\ Known(d)
    /\ Exposed(e) /\ Known(e)
    /\ InstOf[d] = InstOf[e]
    => SideOf[d] = SideOf[e]

(* A position is entered once and scaled in at most MAX_SCALE_IN_COUNT times
   ("Maximum 1 scale-in per position", entry_execution.py:285), over any number
   of cycles, waiting orders and partial fills: a process killed between the
   acceptance of a scale-in and the saved count, or an order that escaped the
   trader's notice, buys that one order only. *)
ScaleInsBounded ==
  \A p \in Pair :
    Cardinality({d \in Intent : /\ InPosition(d) /\ PairOf(d) = p
                               /\ Known(d) /\ d \notin uncounted})
      <= MaxScaleIn + 1

(* A cycle that can attribute the open orders never cancels one whose own
   intent is recorded, young and the newest of its instrument: the loop of
   cancelling and re-submitting one's own order (order_lifecycle.py:153-156). *)
Cancelled(d) == Cancel(d) /\ todo' # todo

OwnIntentSurvives ==
  [][\A d \in Intent :
       /\ d \in intents /\ ~Expired(d) /\ ~blocked
       /\ \A e \in IntentsOn(InstOf[d]) : e <= d
       => ~Cancelled(d)]_entryVars

(* Everything the trading cycle does to the ledger is a sequence of the
   ledger's own operations, so what holds of the ledger holds in the cycle. *)
UsesLedger == LedgerSpec

(* An open order nobody owns does not stay open for ever. *)
OrphanResolved ==
  \A d \in Intent : Live(d) ~> ~Live(d) \/ Owned(d)

(* Budget held by a decision that has no order and no position any more comes
   back, also when the process died between reserving and sending: unless its
   instrument is in use again, positions on both sides stop every cycle, or the
   operator has lowered the cap below what the account holds.  In that case
   release() is refused like a reservation (risk_reservation.py:169), cycle after
   cycle, until the cap is raised again. *)
BudgetReturns ==
  \A d \in Intent :
    Holding(d) /\ ~Exposed(d)
      ~> \/ ~Holding(d)
         \/ StillLive(d, Positions, OpenOrders)
         \/ Hedged(Positions)
         \/ ~Fits(ActiveTotal(Acct))

(* order_lifecycle.py:122 prints "cancels no order (cannot read is not: has
   none)" when the intents cannot be read. *)
UnreadableIntentsCancelNothing ==
  [][pc = "sweep" /\ blocked /\ "intents" \in broken
       => \A d \in Intent : ~Cancelled(d)]_entryVars

(* cycle_stages.py:287: reservations of live positions and pending orders are
   always kept by the reconciliation. *)
ReturnsOnlyUnused ==
  [][(pc = "ledger")
       => \A d \in Intent : Exposed(d) /\ Holding(d) => Holding(d)']_entryVars

(* risk_reservation.py:6: a result that is not known never frees budget. *)
UnknownOutcomeKeepsBudget ==
  \A d \in lost : Live(d) => Holding(d)
=============================================================================
