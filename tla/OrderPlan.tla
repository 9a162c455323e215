----------------------------- MODULE OrderPlan -----------------------------
(* From a decision of the trading brain to the order that is sent for it:
   leverage, size, margin, quote and the last checks of the submission
   (scripts/trader/{leverage,sizing,gates,pyramiding,order_intent,brackets,
   order_submit}.py, scripts/order_risk.py, astra_backend/execution/sizing.py).
   Between the prices a decision was made on, the ticker the submission reads
   and the fill the market moves.  Prices are in ticks of 0.01; one contract of
   one unit is the lot; money is in 0.0001, so one contract at price p is worth
   100 * p.  Leverages are whole numbers, as the brain gives them. *)
EXTENDS Integers, FiniteSetsExt

CONSTANTS
  Price,        \* price of the instrument when the factors were computed
  Atr,          \* its average true range
  StopDistance, TargetDistance,  \* distances used where the decision names no price
  Entry, Stop, Target,  \* prices a decision may name, relative to Price
  Ticker,       \* last prices the submission may read, 0 for an unreadable one
  Margin,       \* margins a decision may plan, 0 for none
  Lever,        \* leverages it may ask for
  Confidence,
  Base,         \* adaptive base sizes, in contracts
  Equity,       \* usable balances, of which a fifth is something in money
  Held,         \* margins already in a position of the same direction
  Cap           \* MAX_SINGLE_ASSET_MARGIN

ASSUME OrderAssumption ==
  /\ Price \in Nat \ {0} /\ {Atr, StopDistance, TargetDistance, Cap} \subseteq Nat \ {0}
  /\ Entry \subseteq Int /\ Stop \subseteq Int /\ Target \subseteq Int
  /\ Ticker \subseteq Nat /\ Margin \subseteq Nat
  /\ Lever \subseteq Nat /\ Confidence \subseteq 0 .. 100
  /\ Base \subseteq Nat /\ Equity \subseteq Nat \ (0 .. 2) /\ Held \subseteq Nat

VARIABLES
  stage,     \* what is done: "asked", "sized", "quoted", or "sent", "dropped"
  ask,       \* the decision and the account it meets
  plan,      \* margin it may use, leverage and size
  quote,     \* entry, target and stop planned, with the gated margin
  order      \* what the exchange got
vars == <<stage, ask, plan, quote, order>>

Nothing == [px |-> 0]
Long == 1
Short == -1

(* Division to the nearest integer, and to a multiple of a grain. *)
Nearest(n, d) == (2 * n + d) \div (2 * d)
Worth(size, px) == 100 * size * px
Distance(a, b) == Max({a - b, b - a})

-----------------------------------------------------------------------------
(* Size and margin. *)

(* The leverage range of the risk page, 2 to 5. *)
ClampLeverage(lever) == Min({5, Max({2, lever})})

(* A margin a little short of one contract is raised to it, in whole cents. *)
PlannedMargin(margin, lever, equity) ==
  LET unit == Worth(1, Price) IN
  IF /\ 0 < margin /\ margin * lever < unit /\ equity * lever >= unit
     /\ 100 * margin * lever >= 65 * unit
  THEN 100 * Nearest(unit, 100 * lever)
  ELSE margin

(* The size of a decision: what its margin buys, kept between half and twice
   the base, and never above what a fifth of the balance pays for. *)
Affordable(lever, equity) == (equity * lever) \div (5 * Worth(1, Price))
DecidedSize(margin, lever, base, equity) ==
  LET wanted == (margin * lever) \div Worth(1, Price) IN
  IF margin = 0 \/ wanted = 0 THEN base
  ELSE Min({Affordable(lever, equity),
            Max({1, base \div 2, Min({2 * base, wanted})})})

(* The margin an order may use: the least of the plan, what its size costs, a
   fifth of the balance and the cap of the instrument. *)
GatedMargin(planned, size, px, lever, equity) ==
  LET cost == Nearest(Worth(size, px), lever) IN
  Min({IF planned > 0 THEN planned ELSE cost, cost, Nearest(equity, 5), Cap})

(* The cap a scale-in is held against also follows the balance (30 %). *)
AssetCap(equity) == Min({Cap, (30 * equity) \div 100})

-----------------------------------------------------------------------------
(* Prices.  A quote is [px, tp, sl]; dir is Long or Short. *)

(* What the decision names (a price that is not positive names nothing), else
   the distances; a stop or target on the wrong side of the entry is put back
   on the right one. *)
Quoted(d) ==
  LET px == IF d.entry > 0 THEN d.entry ELSE Price
      tp == IF d.tp > 0 THEN d.tp ELSE px + d.dir * TargetDistance
      sl == IF d.sl > 0 THEN d.sl ELSE px - d.dir * StopDistance
  IN [px |-> px,
      tp |-> IF d.dir * (tp - px) > 0 THEN tp
             ELSE px + d.dir * Max({TargetDistance, Nearest(24 * Price, 1000)}),
      sl |-> IF d.dir * (px - sl) > 0 THEN sl
             ELSE px - d.dir * Max({StopDistance, Nearest(12 * Price, 1000)})]

(* The whole quote moved to another entry price, in proportion. *)
ScaledTo(last, q, dir) ==
  LET tp == Nearest(q.tp * last, q.px)
      sl == Nearest(q.sl * last, q.px)
  IN [px |-> last,
      tp |-> IF dir * (tp - last) > 0 THEN tp ELSE Nearest(last * (100 + 4 * dir), 100),
      sl |-> IF dir * (last - sl) > 0 THEN sl ELSE Nearest(last * (100 - 2 * dir), 100)]

(* On the demo exchange a price more than 5 % off the ticker is moved there. *)
ForDemo(q, dir, last) ==
  IF last > 0 /\ 20 * Distance(q.px, last) > last THEN ScaledTo(last, q, dir) ELSE q
(* Slip: a market order keeps the bracket of the planned price. *)
KeptAsPlanned(q, dir, last) == q
(* A market order is moved to the ticker, which must be readable. *)
ForMarket(q, dir, last) == ScaledTo(last, q, dir)

(* A target too far away in a quote of positive prices is drawn in: to 3.5 ATR, 3.5 times the risk, but not
   below 1.2 times the risk.  The new target is rounded to as many decimals as
   the entry price prints. *)
Grain(px) == IF px % 10 = 0 THEN 10 ELSE 1
Narrowed(q, dir) ==
  LET risk == Distance(q.px, q.sl)
      reward == dir * (q.tp - q.px)
      most == Max({Min({35 * Atr, 35 * risk}), 12 * risk})
  IN IF \/ q.px <= 0 \/ q.tp <= 0 \/ q.sl <= 0
        \/ risk = 0 \/ reward <= 0 \/ 10 * reward <= most THEN q
     ELSE [q EXCEPT !.tp = Grain(q.px) * Nearest(10 * q.px + dir * most, 10 * Grain(q.px))]

(* The quote a submission may send: stop, entry and target in this order, and
   a reward of twice the risk, or of 1.2 times with 80 % confidence and an
   expected value of 0.30 times the risk. *)
AcceptableQuote(q, dir, confidence) ==
  LET risk == dir * (q.px - q.sl)
      reward == dir * (q.tp - q.px)
  IN /\ q.px > 0 /\ q.tp > 0 /\ q.sl > 0
     /\ risk > 0 /\ reward > 0
     /\ \/ reward >= 2 * risk
        \/ /\ confidence >= 80 /\ 10 * reward >= 12 * risk
           /\ confidence * reward - (100 - confidence) * risk >= 30 * risk

(* The entry price against the ticker: not through it by more than 0.5 %, not
   further away than half of it.  Without a ticker nothing is compared. *)
Anchored(px, dir, last) ==
  last = 0 \/ (dir * (1000 * px - 1000 * last) <= 5 * last /\ 2 * Distance(px, last) <= last)

-----------------------------------------------------------------------------
Init ==
  /\ stage = "asked"
  /\ ask \in [dir : {Long, Short}, margin : Margin, lever : Lever, confidence : Confidence,
              base : Base, equity : Equity, held : Held]
  /\ plan = Nothing /\ quote = Nothing /\ order = Nothing

Drop == stage' = "dropped"

(* The size of the order; none if the account cannot pay for a contract. *)
SizeOrder ==
  /\ stage = "asked"
  /\ LET lever == ClampLeverage(ask.lever)
         margin == PlannedMargin(ask.margin, lever, ask.equity)
         size == DecidedSize(margin, lever, ask.base, ask.equity)
     IN IF size = 0
        THEN Drop /\ UNCHANGED plan
        ELSE /\ stage' = "sized"
             /\ plan' = [margin |-> margin, lever |-> lever, size |-> size]
  /\ UNCHANGED <<ask, quote, order>>

(* A first entry needs 68 % of confidence, a scale-in 75 %, room under the cap
   of the instrument, and a position that has earned it. *)
MayEnter ==
  IF ask.held = 0
  THEN ask.confidence >= 68
  ELSE /\ ask.confidence >= 75
       /\ (ask.held + plan.margin) * plan.lever
            + (IF plan.margin = 0 THEN Worth(plan.size, Price) ELSE 0)
          <= AssetCap(ask.equity) * plan.lever

(* Prices and margin are fixed from what the decision names. *)
QuoteOrder ==
  /\ stage = "sized"
  /\ \/ /\ MayEnter
        /\ \E entry \in Entry, tp \in Target, sl \in Stop :
             LET At(offset) == IF offset = 0 THEN 0 ELSE Price + ask.dir * offset
                 q == Quoted([dir |-> ask.dir, entry |-> At(entry), tp |-> At(tp), sl |-> At(sl)])
             IN quote' = [px |-> q.px, tp |-> q.tp, sl |-> q.sl,
                          margin |-> GatedMargin(plan.margin, plan.size, q.px,
                                                 plan.lever, ask.equity)]
        /\ stage' = "quoted"
     \/ Drop /\ UNCHANGED quote
  /\ UNCHANGED <<ask, plan, order>>

(* Slip: the size of the plan is sent. *)
CallersSize(margin, lever, px) == plan.size
(* What the exchange is asked for: the contracts the gated margin pays for at
   the price that is sent. *)
SentSize(margin, lever, px) == (margin * lever) \div Worth(1, px)

(* The submission reads the ticker, adapts the quote to it, checks it a last
   time and sends the order.  The routing, the listing, the exposure gate and
   the exchange may refuse it. *)
Submit(market, demo) ==
  /\ stage = "quoted"
  /\ \E last \in Ticker :
       LET dir == ask.dir
           planned == [px |-> quote.px, tp |-> quote.tp, sl |-> quote.sl]
           here == IF demo THEN ForDemo(planned, dir, last) ELSE planned
           there == IF market /\ last > 0 THEN ForMarket(here, dir, last) ELSE here
           q == Narrowed(there, dir)
           size == SentSize(quote.margin, plan.lever, q.px)
       IN \/ /\ ~market \/ last > 0
             /\ AcceptableQuote(q, dir, ask.confidence)
             /\ Anchored(q.px, dir, last)
             /\ size > 0
             /\ stage' = "sent"
             /\ order' = [market |-> market, px |-> q.px, tp |-> q.tp, sl |-> q.sl,
                          size |-> size, last |-> last]
          \/ Drop /\ UNCHANGED order
  /\ UNCHANGED <<ask, plan, quote>>

Next == SizeOrder \/ QuoteOrder \/ \E market, demo \in BOOLEAN : Submit(market, demo)
Spec == Init /\ [][Next]_vars

-----------------------------------------------------------------------------
(* Whatever the sizing raised the size to on the way (half the base, one
   contract) and wherever the quote was moved, the order that is sent costs no
   more margin than the decision planned, a fifth of the balance or the cap of
   the instrument, and with what a position already holds no more than the cap
   (trader/order_submit.py, "意图是钱，原生数量只在边界出现一次"). *)
SpendsWithinPlan ==
  stage = "sent" =>
    LET cost == Worth(order.size, order.px)
        lever == plan.lever
    IN /\ cost <= Cap * lever
       /\ cost <= Nearest(ask.equity, 5) * lever
       /\ plan.margin > 0 => cost <= plan.margin * lever
       /\ ask.held > 0 /\ plan.margin > 0 => cost + ask.held * lever <= Cap * lever

(* A market order is protected at the price it fills at, not at the one it was
   planned for: the price read just before it was sent lies between its stop
   and its target, and the reward from there is at least 1.2 times the risk
   (trader/brackets.py, reanchor_brackets_to_market). *)
MarketOrderBracketed ==
  stage = "sent" /\ order.market =>
    LET risk == ask.dir * (order.last - order.sl)
        reward == ask.dir * (order.tp - order.last)
    IN risk > 0 /\ 10 * reward >= 12 * risk

(* A quote that may be sent stays one when its target is drawn in
   (trader/brackets.py, clamp_take_profit_width: "绝不破坏最小盈亏比底线"). *)
ClampKeepsAcceptable ==
  stage = "quoted" =>
    LET q == [px |-> quote.px, tp |-> quote.tp, sl |-> quote.sl] IN
    AcceptableQuote(q, ask.dir, ask.confidence)
      => AcceptableQuote(Narrowed(q, ask.dir), ask.dir, ask.confidence)
=============================================================================
