------------------------ MODULE PositionProtection ------------------------
(***************************************************************************)
(* One open position and what guards it: the sized take-profit/stop legs   *)
(* that live at the exchange, and the tracker the trader keeps of them.    *)
(*                                                                         *)
(* Every trading cycle reads the position and then the price, takes the    *)
(* first profit (scale_out.py), restores missing legs and moves the stop   *)
(* up (position_exit.py, cloud_protection.py, legs.py), saves the tracker, *)
(* and lets the AI tighten the stop, move the targets or close             *)
(* (position_mgmt.py, tp_sync.py).  Between any two calls the price may    *)
(* jump and trigger legs, a call may fail, and the process may die.        *)
(*                                                                         *)
(* The position is a long one (a short one is its mirror image, min for    *)
(* max).  Prices are levels; sizes count minimum lots.                     *)
(***************************************************************************)
EXTENDS UnitSums

CONSTANTS
  Top,            \* prices are the levels 1..Top; 0 stands for no price
  Entry,          \* avgPx
  InitialStop,    \* entry - sl_atr_mult * atr
  Breakeven,      \* entry plus the cost cushion (0.20 % and 0.25 %: one level)
  LockIn,         \* entry + 1.0 atr, the floor of the second tier
  EarlyProfit,    \* entry + 1.2 atr: the AI may tighten from here
  FirstTier,      \* entry + 1.5 atr
  SecondTier,     \* entry + 2.2 atr
  MomentumAt,     \* entry + 2.0 atr
  Pullback,       \* 0.75 atr, as a number of levels
  Buffer,         \* 0.7 atr, as a number of levels
  FirstTp,        \* the take-profit frozen at entry, SCALE_OUT_TRIGGER_ATR
  SecondTp,       \* takeProfitPx
  Targets,        \* take-profits the AI may ask for
  Ratio,          \* SCALE_OUT_RATIO in percent
  Sizes,          \* sizes a position may open with
  MaxFaults       \* bound: calls that fail and processes that die

Price == 1..Top
Targeted == Targets \cup {FirstTp, SecondTp}

ASSUME ProtectionAssumption ==
  /\ {Top, Entry, InitialStop, Breakeven, LockIn, EarlyProfit, FirstTier,
      SecondTier, MomentumAt, Pullback, Buffer, FirstTp, SecondTp} \subseteq Nat
  /\ 0 < InitialStop /\ InitialStop < Entry /\ Entry < Breakeven /\ Breakeven <= LockIn
  /\ Entry <= Top
  /\ LockIn < FirstTp /\ FirstTp < SecondTp
  /\ LockIn < SecondTier /\ Breakeven < FirstTier /\ FirstTier <= SecondTier
  /\ Targets \subseteq Nat /\ Ratio \in 10..90
  /\ Sizes \subseteq Nat \ {0} /\ MaxFaults \in Nat

VARIABLES
  px,       \* the exchange's price
  ex,       \* the exchange's record: size of the position and its live legs
  disk,     \* position_trackers.json
  trk,      \* the tracker in the memory of the running cycle
  pc,       \* where the cycle is
  seen,     \* size of the position as this cycle knows it
  mkt,      \* price as this cycle knows it
  old,      \* legs sync_position_legs found and will replace
  outcome,  \* what the position stage returned last
  faults    \* faults that may still happen

protectionVars == <<px, ex, disk, trk, pc, seen, mkt, old, outcome, faults>>

LegId == Nat \ {0}
Leg == [id : LegId, sz : Nat \ {0}, tp : Nat, sl : Nat]
NoTracker == [open |-> FALSE]
(* pend: size before the sale and the size the exchange filled; filled is
   only looked at when the order is read back. *)
NotPending == [orig |-> 0, filled |-> 0]
Tracker == [open : {TRUE}, stop : Nat, tp1 : Nat, tp2 : Nat, phase : {-1, 0, 1},
            hwm : Nat, entry : Nat, pend : [orig : Nat, filled : Nat],
            leg1 : LegId \cup {0}, leg2 : LegId \cup {0}, stale : SUBSET LegId]

Steps == {"idle", "price", "split", "confirm", "clear", "reprotect", "settle", "push",
          "guard", "ensure", "legs", "swap", "trail", "close", "save", "ai", "ai_save"}
Outcomes == {"none", "watching", "blind", "pending", "unclosed", "closed"}

ProtectionTypeOK ==
  /\ px \in Price /\ mkt \in Price \cup {0} /\ seen \in Nat /\ faults \in 0..MaxFaults
  /\ ex \in [size : Nat, legs : SUBSET Leg]
  /\ \A l, m \in ex.legs : l.id = m.id => l = m
  /\ disk \in Tracker \cup {NoTracker} /\ trk \in Tracker \cup {NoTracker}
  /\ pc \in Steps /\ old \subseteq LegId /\ outcome \in Outcomes
-----------------------------------------------------------------------------
(* The exchange. *)

TotalOf(legs) == SumOver(legs, [l \in legs |-> l.sz])
Least(a, b) == IF a < b THEN a ELSE b
Most(a, b) == IF a < b THEN b ELSE a

(* Slip: legs placed without reduceOnly sell past the position. *)
SettledBeyond(e, p) ==
  LET hit == {l \in e.legs : l.tp <= p \/ p <= l.sl}
      left == e.size - TotalOf(hit)
  IN  [size |-> left, legs |-> IF left = 0 THEN {} ELSE e.legs \ hit]

(* The legs the price p has reached execute; they only reduce, and the rest is
   cancelled with the position (cxl_on_close_pos). *)
Settled(e, p) ==
  LET hit == {l \in e.legs : l.tp <= p \/ p <= l.sl}
      left == Most(0, e.size - TotalOf(hit))
  IN  [size |-> left, legs |-> IF left = 0 THEN {} ELSE e.legs \ hit]

Reduced(e, lots) ==
  [size |-> e.size - lots, legs |-> IF e.size = lots THEN {} ELSE e.legs]
LiveIds(e) == {l.id : l \in e.legs}
Mentioned == LiveIds(ex) \cup old
             \cup UNION {IF t.open THEN {t.leg1, t.leg2} \cup t.stale ELSE {} : t \in {disk, trk}}
(* The exchange gives each leg an id of its own. *)
Unused(ids) == CHOOSE i \in 1..(Cardinality(ids) + 1) : i \notin ids
FreshId == Unused(Mentioned)
NextId(i) == Unused(Mentioned \cup {i})

WithLeg(e, i, sz, tp, sl) ==
  Settled([e EXCEPT !.legs = @ \cup {[id |-> i, sz |-> sz, tp |-> tp, sl |-> sl]}], px)
WithoutLegs(e, ids) == [e EXCEPT !.legs = {l \in @ : l.id \notin ids}]
(* amend_algo_sl on each leg of ids. *)
StopsMoved(e, ids, stop) ==
  Settled([e EXCEPT !.legs = {IF l.id \in ids THEN [l EXCEPT !.sl = stop] ELSE l : l \in @}], px)

(* The price moves on its own; whatever it reaches executes. *)
Market == \E p \in Price \ {px} :
  /\ px' = p
  /\ ex' = Settled(ex, p)
  /\ UNCHANGED <<disk, trk, pc, seen, mkt, old, outcome, faults>>

Fault == faults > 0 /\ faults' = faults - 1
Fine == faults' = faults
Goto(step) == pc' = step
-----------------------------------------------------------------------------
(* The pure rules. *)

(* Lots the first profit sells, rounded down; 0 where either part would be
   below the minimum. *)
FirstPart(size) ==
  LET part == (size * Ratio) \div 100
  IN  IF size < 2 \/ part < 1 \/ size - part < 1 THEN 0 ELSE part

(* Has the exchange executed the first leg?  The size is down to the rest of
   entry_sz, with half a minimum lot of tolerance. *)
LegFilled(size, entry) == 200 * size <= 2 * entry * (100 - Ratio) + 100

(* Slip: the order of the two targets is not looked at. *)
TpGeometryOpen(tp1, tp2, p) == tp1 > 0 /\ p < tp1
TpGeometryOK(tp1, tp2, p) == tp1 > 0 /\ p < tp1 /\ tp1 < tp2
StopHit(p, stop) == stop > 0 /\ p <= stop
(* Slip: the tier's stop is taken as it is. *)
RatchetedAnew(stop, peak) ==
  IF peak >= SecondTier THEN LockIn ELSE IF peak >= FirstTier THEN Breakeven ELSE stop
Ratcheted(stop, peak) ==
  IF peak >= SecondTier THEN Most(stop, LockIn)
  ELSE IF peak >= FirstTier THEN Most(stop, Breakeven)
  ELSE stop
AiTightens(stop, p) == Entry <= stop /\ stop < p /\ p >= EarlyProfit /\ p - stop >= Buffer

NewTracker(size, p) ==
  [open |-> TRUE, stop |-> InitialStop, tp1 |-> FirstTp, tp2 |-> SecondTp, phase |-> 0,
   hwm |-> p, entry |-> size, pend |-> NotPending, leg1 |-> 0, leg2 |-> 0, stale |-> {}]
-----------------------------------------------------------------------------
(* The cycle: what it reads first. *)

locals == <<seen, mkt, old>>

(* Positions are read before prices; the tracker of a position that is gone
   is pruned. *)
ReadPosition ==
  /\ pc = "idle" /\ Fine
  /\ seen' = ex.size
  /\ trk' = IF ex.size = 0 THEN NoTracker ELSE disk
  /\ outcome' = "none"
  /\ Goto(IF ex.size = 0 THEN "save" ELSE "price")
  /\ UNCHANGED <<px, ex, disk, mkt, old>>

(* Without valid market data the position is left to its legs. *)
ReadPrice ==
  /\ pc = "price"
  /\ \/ /\ Fine /\ mkt' = px /\ Goto(IF trk.open THEN "split" ELSE "guard")
        /\ UNCHANGED outcome
     \/ /\ Fault /\ outcome' = "blind" /\ Goto("save")
        /\ UNCHANGED mkt
  /\ UNCHANGED <<px, ex, disk, trk, seen, old>>
-----------------------------------------------------------------------------
(* scale_out.py: the first profit. *)

Pending == trk.pend # NotPending

(* Nothing to do: done before, or the target is not reached; an unsplittable
   position is marked and kept whole. *)
NoScaleOut ==
  /\ pc = "split" /\ Fine
  /\ \/ trk.phase = 1 /\ UNCHANGED trk
     \/ /\ trk.phase # 1 /\ ~Pending /\ ~LegFilled(seen, trk.entry)
        /\ \/ mkt < trk.tp1 /\ UNCHANGED trk
           \/ mkt >= trk.tp1 /\ FirstPart(seen) = 0 /\ trk' = [trk EXCEPT !.phase = -1]
  /\ Goto("guard")
  /\ UNCHANGED <<px, ex, disk, locals, outcome>>

(* A reduce-only market order.  It may be refused, end unfilled or filled in
   part; its reply may be lost. *)
SellFirstPart ==
  /\ pc = "split" /\ trk.phase # 1 /\ ~Pending
  /\ ~LegFilled(seen, trk.entry) /\ mkt >= trk.tp1 /\ FirstPart(seen) > 0
  /\ \E fill \in 0..Least(FirstPart(seen), ex.size) :
       \/ /\ ex.size > 0 /\ Fine /\ ex' = Reduced(ex, fill)
          /\ trk' = [trk EXCEPT !.pend = [orig |-> seen, filled |-> fill]]
          /\ Goto("confirm")
       \/ /\ IF ex.size = 0 THEN Fine ELSE Fault
          /\ ex' = Reduced(ex, fill) /\ UNCHANGED trk
          /\ Goto("guard")
  /\ UNCHANGED <<px, disk, locals, outcome>>

(* A sale of an earlier cycle is read back before anything else is done. *)
ResumeSale ==
  /\ pc = "split" /\ trk.phase # 1 /\ Pending /\ Fine
  /\ Goto("confirm")
  /\ UNCHANGED <<px, ex, disk, trk, locals, outcome>>

(* The order and the position must agree on what is left; until they do the
   stage ends here and the legs stay. *)
ConfirmSale ==
  /\ pc = "confirm"
  /\ \/ /\ Fine /\ ex.size = trk.pend.orig - trk.pend.filled
        /\ seen' = ex.size
        /\ trk' = IF ex.size = 0 THEN NoTracker
                  ELSE [trk EXCEPT !.pend = NotPending,
                                   !.phase = IF trk.pend.filled = 0 THEN @ ELSE 1]
        /\ outcome' = IF ex.size = 0 THEN "closed" ELSE outcome
        /\ Goto(IF ex.size = 0 THEN "save"
                ELSE IF trk.pend.filled = 0 THEN "guard" ELSE "clear")
     \/ /\ IF ex.size = trk.pend.orig - trk.pend.filled THEN Fault ELSE Fine
        /\ outcome' = "pending" /\ Goto("save")
        /\ UNCHANGED <<seen, trk>>
  /\ UNCHANGED <<px, ex, disk, mkt, old>>

(* All legs of the position are cancelled; a failure is only printed. *)
ClearLegs ==
  /\ pc = "clear"
  /\ \/ Fine /\ ex' = [ex EXCEPT !.legs = {}]
     \/ Fault /\ ex' \in {ex, [ex EXCEPT !.legs = {}]}
  /\ Goto("reprotect")
  /\ UNCHANGED <<px, disk, trk, locals, outcome>>

(* Restore full coverage (ensure_cloud_position_protection): place one leg for
   the lots no live leg covers, then read it back.  ok: coverage is verified. *)
Repair(size, tp, stop, ok) ==
  LET missing == size - TotalOf(ex.legs)
      placed == WithLeg(ex, FreshId, missing, tp, stop)
      holds == TotalOf(placed.legs) >= size
  IN \/ ~ok /\ Fault /\ ex' \in IF missing > 0 THEN {ex, placed} ELSE {ex}
     \/ ok /\ Fine /\ missing <= 0 /\ UNCHANGED ex
     \/ ok /\ Fine /\ missing > 0 /\ holds /\ ex' = placed
     \/ ~ok /\ Fine /\ missing > 0 /\ ~holds /\ ex' \in {ex, placed}

(* sync_cloud_algo_stop: each leg is amended on its own, a failure is counted
   and the next leg tried; a stop the price has passed may be refused. *)
SyncStops(stop) ==
  \/ Fine /\ ex' = StopsMoved(ex, LiveIds(ex), stop)
  \/ Fine /\ px <= stop /\ UNCHANGED ex
  \/ Fault /\ \E ids \in SUBSET LiveIds(ex) : ex' = StopsMoved(ex, ids, stop)

ScaledOut(t, stop) == [t EXCEPT !.phase = 1, !.tp1 = 0, !.stop = stop]

(* The rest is protected at break-even or at the old stop if that is higher.
   A failure here is left to the guards of the same stage. *)
Reprotect ==
  /\ pc = "reprotect"
  /\ LET stop == Most(Breakeven, trk.stop)
     IN /\ \E ok \in BOOLEAN : Repair(seen, trk.tp2, stop, ok)
        /\ trk' = ScaledOut(trk, stop)
  /\ Goto("guard")
  /\ UNCHANGED <<px, disk, locals, outcome>>

(* The exchange has executed the first leg: cover the rest ... *)
FinalizeLegFill ==
  /\ pc = "split" /\ trk.phase # 1 /\ ~Pending /\ LegFilled(seen, trk.entry)
  /\ \E ok \in BOOLEAN : Repair(seen, trk.tp2, Breakeven, ok)
  /\ Goto("push")
  /\ UNCHANGED <<px, disk, trk, locals, outcome>>

(* ... and move every stop to break-even, wherever it was. *)
PushStops ==
  /\ pc = "push"
  /\ SyncStops(Breakeven)
  /\ trk' = ScaledOut(trk, Breakeven)
  /\ Goto("guard")
  /\ UNCHANGED <<px, disk, locals, outcome>>
-----------------------------------------------------------------------------
(* position_exit.py: the guards. *)

(* Slip: the stop the position was opened with is the one that counts. *)
HardStopAtEntry ==
  /\ pc = "guard" /\ Fine
  /\ LET t == IF trk.open THEN trk ELSE NewTracker(seen, mkt)
     IN /\ trk' = [t EXCEPT !.hwm = Most(@, mkt)]
        /\ Goto(IF StopHit(mkt, InitialStop) THEN "close" ELSE "ensure")
  /\ UNCHANGED <<px, ex, disk, locals, outcome>>

(* Adopt an unknown position, advance the peak, then the hard stop. *)
HardStop ==
  /\ pc = "guard" /\ Fine
  /\ LET t == IF trk.open THEN trk ELSE NewTracker(seen, mkt)
     IN /\ trk' = [t EXCEPT !.hwm = Most(@, mkt)]
        /\ Goto(IF StopHit(mkt, t.stop) THEN "close" ELSE "ensure")
  /\ UNCHANGED <<px, ex, disk, locals, outcome>>

(* Slip: after the first profit the legs are taken to be in place. *)
EnsureBeforeScaleOut ==
  /\ pc = "ensure"
  /\ \/ trk.phase = 1 /\ Fine /\ Goto("trail") /\ UNCHANGED ex
     \/ /\ trk.phase # 1
        /\ \E ok \in BOOLEAN : /\ Repair(seen, trk.tp2, trk.stop, ok)
                              /\ Goto(IF ok THEN "trail" ELSE "close")
  /\ UNCHANGED <<px, disk, trk, locals, outcome>>

(* No stage goes on without verified coverage: what cannot be covered is
   closed. *)
EnsureProtection ==
  /\ pc = "ensure"
  /\ \E ok \in BOOLEAN :
       /\ Repair(seen, trk.tp2, trk.stop, ok)
       /\ Goto(IF ~ok THEN "close"
               ELSE IF trk.phase # 1 /\ TpGeometryOK(trk.tp1, trk.tp2, mkt) THEN "legs"
               ELSE "trail")
  /\ UNCHANGED <<px, disk, trk, locals, outcome>>

(* cancel_algo_orders: live legs go, and a leg that is gone already makes the
   whole call an error. *)
CancelWorks(ids) == ids \subseteq LiveIds(ex) /\ Fine /\ ex' = WithoutLegs(ex, ids)
CancelFails(ids) ==
  IF ids \subseteq LiveIds(ex) THEN Fault /\ ex' \in {ex, WithoutLegs(ex, ids)}
  ELSE Fine /\ ex' = WithoutLegs(ex, ids)

(* Do the live legs already sit at the two targets and cover the position? *)
LegsMatch(e, tp1, tp2) ==
  /\ Cardinality(e.legs) = 2 /\ {l.tp : l \in e.legs} = {tp1, tp2}
  /\ TotalOf(e.legs) >= seen

(* sync_position_legs keeps one leg for the first profit and one for the rest.
   Legs a former round could not cancel go first, or nothing is placed. *)
RetryStale ==
  /\ pc = "legs" /\ trk.stale # {}
  /\ \/ /\ CancelWorks(trk.stale)
        /\ trk' = [trk EXCEPT !.stale = {}] /\ UNCHANGED pc
     \/ CancelFails(trk.stale) /\ Goto("trail") /\ UNCHANGED trk
  /\ UNCHANGED <<px, disk, locals, outcome>>

(* Too small to split, already in place, or unreadable. *)
KeepLegs ==
  /\ pc = "legs" /\ trk.stale = {}
  /\ \/ Fine /\ (FirstPart(seen) = 0 \/ LegsMatch(ex, trk.tp1, trk.tp2))
     \/ Fault
  /\ Goto("trail")
  /\ UNCHANGED <<px, ex, disk, trk, locals, outcome>>

(* Slip: the old legs go before the new ones are accepted. *)
PlaceAfterCancel ==
  /\ pc = "legs" /\ trk.stale = {}
  /\ FirstPart(seen) > 0 /\ ~LegsMatch(ex, trk.tp1, trk.tp2)
  /\ Fault /\ ex' = WithoutLegs(ex, LiveIds(ex))
  /\ Goto("trail") /\ UNCHANGED <<px, disk, trk, seen, mkt, old, outcome>>

(* Both new legs are placed and registered before an old one goes; if either
   is refused, or its receipt lost, the old ones stay. *)
PlaceLegs ==
  /\ pc = "legs" /\ trk.stale = {}
  /\ FirstPart(seen) > 0 /\ ~LegsMatch(ex, trk.tp1, trk.tp2)
  /\ LET i == FreshId
         j == NextId(i)
         one == WithLeg(ex, i, FirstPart(seen), trk.tp1, trk.stop)
         both == WithLeg(one, j, seen - FirstPart(seen), trk.tp2, trk.stop)
     IN \/ /\ Fine /\ ex.size > 0 /\ ex' = both
           /\ trk' = [trk EXCEPT !.leg1 = i, !.leg2 = j]
           /\ old' = LiveIds(ex) /\ Goto("swap")
        \/ /\ IF {i, j} \subseteq LiveIds(both) THEN Fault ELSE Fine
           /\ ex' \in {ex, one, both}
           /\ Goto("trail") /\ UNCHANGED <<trk, old>>
  /\ UNCHANGED <<px, disk, seen, mkt, outcome>>

(* The replaced legs are cancelled; if that fails they are remembered. *)
SwapLegs ==
  /\ pc = "swap"
  /\ \/ old = {} /\ Fine /\ UNCHANGED <<ex, trk>>
     \/ old # {} /\ CancelWorks(old) /\ UNCHANGED trk
     \/ old # {} /\ CancelFails(old) /\ trk' = [trk EXCEPT !.stale = old]
  /\ old' = {} /\ Goto("trail")
  /\ UNCHANGED <<px, disk, seen, mkt, outcome>>

(* A position that went nowhere for long enough is closed. *)
TimeStop ==
  /\ pc = "trail" /\ mkt = Entry /\ Fine
  /\ Goto("close")
  /\ UNCHANGED <<px, ex, disk, trk, locals, outcome>>

(* The floor follows the peak; the tracker moves first, and whether the legs
   followed is not looked at.  Then the exits at the floor and on a pullback. *)
Trail ==
  /\ pc = "trail"
  /\ LET floor == Ratcheted(trk.stop, trk.hwm)
         exits == \/ mkt <= floor /\ trk.hwm >= FirstTier
                  \/ trk.hwm >= MomentumAt /\ mkt + Pullback <= trk.hwm
     IN /\ IF floor > trk.stop THEN SyncStops(floor) ELSE Fine /\ UNCHANGED ex
        /\ trk' = [trk EXCEPT !.stop = floor]
        /\ outcome' = IF exits THEN outcome ELSE "watching"
        /\ Goto(IF exits THEN "close" ELSE "save")
  /\ UNCHANGED <<px, disk, locals>>

(* close_position_confirmed: only a position the exchange shows gone counts. *)
CloseOutcome(done) ==
  \/ done /\ Fine /\ ex.size > 0 /\ ex' = [size |-> 0, legs |-> {}]
  \/ ~done /\ Fine /\ ex.size = 0 /\ UNCHANGED ex
  \/ ~done /\ Fault /\ ex' \in {ex, [size |-> 0, legs |-> {}]}

ClosePosition ==
  /\ pc = "close"
  /\ \E done \in BOOLEAN :
       /\ CloseOutcome(done)
       /\ trk' = IF done THEN NoTracker ELSE trk
       /\ outcome' = IF done THEN "closed" ELSE "unclosed"
  /\ Goto("save")
  /\ UNCHANGED <<px, disk, locals>>

(* save_trackers, after the position stage and again after the AI's. *)
SaveTracker ==
  /\ pc \in {"save", "ai_save"}
  /\ \/ Fine /\ disk' = trk
     \/ Fault /\ UNCHANGED disk
  /\ IF pc = "save" THEN Goto("ai") /\ UNCHANGED <<trk, locals>>
     ELSE Goto("idle") /\ trk' = disk' /\ seen' = 0 /\ mkt' = 0 /\ UNCHANGED old
  /\ UNCHANGED <<px, ex, outcome>>
-----------------------------------------------------------------------------
(* position_mgmt.py: instructions of the AI about the position, re-read. *)

(* No fresh instruction, a refused one, or positions that cannot be read. *)
NoInstruction ==
  /\ pc = "ai" /\ Fine
  /\ Goto("idle") /\ trk' = disk /\ seen' = 0 /\ mkt' = 0
  /\ UNCHANGED <<px, ex, disk, old, outcome>>

AiClose ==
  /\ pc = "ai" /\ ex.size > 0
  /\ \E done \in BOOLEAN : CloseOutcome(done) /\ trk' = IF done THEN NoTracker ELSE trk
  /\ Goto("ai_save")
  /\ UNCHANGED <<px, disk, locals, outcome>>

(* UPDATE_SL amends leg by leg; the tracker follows only if every leg did. *)
AiStop ==
  /\ pc = "ai" /\ ex.size > 0 /\ ex.legs # {}
  /\ \E stop \in Price :
       /\ AiTightens(stop, px)
       /\ \/ /\ Fine /\ ex' = StopsMoved(ex, LiveIds(ex), stop)
             /\ trk' = IF trk.open THEN [trk EXCEPT !.stop = stop] ELSE trk
          \/ /\ Fault /\ UNCHANGED trk
             /\ \E ids \in SUBSET LiveIds(ex) : ex' = StopsMoved(ex, ids, stop)
  /\ Goto("ai_save")
  /\ UNCHANGED <<px, disk, locals, outcome>>

(* UPDATE_TP moves registered legs up, tp2 before tp1, each with the tracker's
   stop; the tracker follows only if all went well. *)
AiTarget ==
  /\ pc = "ai" /\ ex.size > 0 /\ trk.open
  /\ \E new1 \in Targets \cup {0}, new2 \in Targets \cup {0} :
       LET to1 == IF trk.phase = 1 THEN 0 ELSE new1
           sure2 == IF new2 > 0 THEN new2 ELSE trk.tp2
           wanted == (IF new2 > 0 THEN {trk.leg2} ELSE {}) \cup (IF to1 > 0 THEN {trk.leg1} ELSE {})
           target == [i \in wanted |-> IF i = trk.leg2 /\ new2 > 0 THEN new2 ELSE to1]
           can == {i \in wanted : \E l \in ex.legs : l.id = i /\ l.tp <= target[i]}
           first == IF new2 = 0 THEN can ELSE can \cap {trk.leg2}
           moved == IF new2 > 0 /\ first = {} THEN {} ELSE can
           Amended(ids) == Settled([ex EXCEPT !.legs =
              {IF l.id \in ids /\ l.tp # target[l.id]
               THEN [l EXCEPT !.tp = target[l.id], !.sl = trk.stop] ELSE l : l \in @}], px)
       IN /\ wanted # {}
          /\ new2 > 0 => new2 > px
          /\ to1 > 0 => TpGeometryOK(to1, sure2, px)
          /\ \/ /\ Fine /\ ex' = Amended(moved)
                /\ trk' = IF moved # wanted THEN trk
                          ELSE [trk EXCEPT !.tp1 = IF to1 > 0 THEN to1 ELSE @, !.tp2 = sure2]
             \/ /\ Fault /\ UNCHANGED trk
                /\ ex' \in {ex, Amended(first), Amended(moved)}
  /\ Goto("ai_save")
  /\ UNCHANGED <<px, disk, locals, outcome>>
-----------------------------------------------------------------------------
(* The process dies: what it had not saved is gone. *)
Crash ==
  /\ pc # "idle" /\ Fault
  /\ Goto("idle") /\ trk' = disk /\ seen' = 0 /\ mkt' = 0 /\ old' = {} /\ outcome' = "none"
  /\ UNCHANGED <<px, ex, disk>>

(* An entry has just filled, with the one leg attached to its order. *)
ProtectionInit ==
  /\ px = Entry
  /\ ex \in {[size |-> s, legs |-> {[id |-> 1, sz |-> s, tp |-> SecondTp, sl |-> InitialStop]}]
             : s \in Sizes}
  /\ disk = NoTracker /\ trk = NoTracker /\ pc = "idle"
  /\ seen = 0 /\ mkt = 0 /\ old = {} /\ outcome = "none" /\ faults = MaxFaults

CycleStep ==
  \/ ReadPosition \/ ReadPrice
  \/ NoScaleOut \/ SellFirstPart \/ ResumeSale \/ ConfirmSale \/ ClearLegs \/ Reprotect
  \/ FinalizeLegFill \/ PushStops
  \/ HardStop \/ EnsureProtection \/ RetryStale \/ KeepLegs \/ PlaceLegs \/ SwapLegs
  \/ TimeStop \/ Trail \/ ClosePosition \/ SaveTracker
  \/ NoInstruction \/ AiClose \/ AiStop \/ AiTarget

ProtectionNext == CycleStep \/ Market \/ Crash
ProtectionSpec == ProtectionInit /\ [][ProtectionNext]_protectionVars
FairProtectionSpec == ProtectionSpec /\ WF_protectionVars(CycleStep)
-----------------------------------------------------------------------------
(* Properties. *)

Covered == TotalOf(ex.legs) >= ex.size

(* What the position stage reports as watched is covered in full by live legs,
   whatever calls of the stage failed, until the next stage. *)
WatchedIsCovered == outcome = "watching" => Covered

(* The tracker's stop is enforced by the cycle itself: no stage lets a position
   go at a price it read at or below that stop, even when no leg followed it. *)
LocalStopActs ==
  pc = "save" /\ outcome = "watching" => mkt > trk.stop

(* The two registered legs are never mixed up: the first-profit leg, while it
   lives, is the nearer one. *)
RolesKept ==
  trk.open => \A l, m \in ex.legs :
    l.id = trk.leg1 /\ m.id = trk.leg2 => l.tp < m.tp

(* The stage itself never lowers the tracker's stop, but where it finalises an
   executed leg. *)
StopOnlyRises ==
  [][trk.open /\ trk'.open /\ pc' # "idle" /\ pc \notin {"push", "ai"}
     => trk'.stop >= trk.stop]_protectionVars

(* A position without full coverage does not stay that way. *)
BareEnds == ~Covered ~> Covered

(* What the AI's UPDATE_SL is documented to be: a tightening.  The code compares
   the asked stop with entry and price, not with the stop in force. *)
AiOnlyTightens ==
  [][pc = "ai" /\ trk.open /\ trk'.open => trk'.stop >= trk.stop]_protectionVars

(* A position too small to be split is kept whole and followed as one. *)
UnsplittableKeptWhole ==
  trk.open /\ FirstPart(trk.entry) = 0 => trk.phase # 1
=============================================================================
