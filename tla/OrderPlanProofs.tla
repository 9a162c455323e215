-------------------------- MODULE OrderPlanProofs --------------------------
(***************************************************************************)
(* Theorems about one order, for every price, distance, margin, leverage,  *)
(* balance and ticker: what it may cost and where it is protected.         *)
(***************************************************************************)
EXTENDS OrderPlan, TLAPS

-----------------------------------------------------------------------------
(* Least and greatest of a few numbers, and what the divisions lose. *)

LEMMA MinOfTwo ==
  ASSUME NEW a \in Int, NEW b \in Int
  PROVE  Min({a, b}) = IF a <= b THEN a ELSE b
<1>1. \E x \in {a, b} : \A y \in {a, b} : x <= y
  OBVIOUS
<1>2. Min({a, b}) \in {a, b} /\ \A y \in {a, b} : Min({a, b}) <= y
  BY <1>1 DEF Min
<1>3. QED
  BY <1>2

LEMMA MaxOfTwo ==
  ASSUME NEW a \in Int, NEW b \in Int
  PROVE  Max({a, b}) = IF a >= b THEN a ELSE b
<1>1. \E x \in {a, b} : \A y \in {a, b} : x >= y
  OBVIOUS
<1>2. Max({a, b}) \in {a, b} /\ \A y \in {a, b} : Max({a, b}) >= y
  BY <1>1 DEF Max
<1>3. QED
  BY <1>2

LEMMA MaxOfThree ==
  ASSUME NEW a \in Int, NEW b \in Int, NEW c \in Int
  PROVE  /\ Max({a, b, c}) \in {a, b, c}
         /\ Max({a, b, c}) >= a /\ Max({a, b, c}) >= b /\ Max({a, b, c}) >= c
<1>1. \E x \in {a, b, c} : \A y \in {a, b, c} : x >= y
  OBVIOUS
<1>2. Max({a, b, c}) \in {a, b, c} /\ \A y \in {a, b, c} : Max({a, b, c}) >= y
  BY <1>1 DEF Max
<1>3. QED
  BY <1>2

LEMMA MinOfFour ==
  ASSUME NEW a \in Int, NEW b \in Int, NEW c \in Int, NEW d \in Int
  PROVE  /\ Min({a, b, c, d}) \in {a, b, c, d}
         /\ Min({a, b, c, d}) <= a /\ Min({a, b, c, d}) <= b
         /\ Min({a, b, c, d}) <= c /\ Min({a, b, c, d}) <= d
<1>1. \E x \in {a, b, c, d} : \A y \in {a, b, c, d} : x <= y
  OBVIOUS
<1>2. Min({a, b, c, d}) \in {a, b, c, d} /\ \A y \in {a, b, c, d} : Min({a, b, c, d}) <= y
  BY <1>1 DEF Min
<1>3. QED
  BY <1>2

LEMMA LeverRange ==
  ASSUME NEW lever \in Nat
  PROVE  ClampLeverage(lever) \in 2 .. 5
<1>1. Max({2, lever}) = IF 2 >= lever THEN 2 ELSE lever
  BY MaxOfTwo
<1>2. Max({2, lever}) \in Nat
  BY <1>1
<1>3. Min({5, Max({2, lever})}) = IF 5 <= Max({2, lever}) THEN 5 ELSE Max({2, lever})
  BY <1>2, MinOfTwo
<1>4. QED
  BY <1>1, <1>3 DEF ClampLeverage

(* Division never gives more than there is. *)
LEMMA DivisionBelow ==
  ASSUME NEW n \in Int, NEW d \in Nat \ {0}
  PROVE  n \div d \in Int /\ d * (n \div d) <= n
OBVIOUS

LEMMA NearestInt ==
  ASSUME NEW n \in Int, NEW d \in Nat \ {0}
  PROVE  Nearest(n, d) \in Int
<1>1. 2 * n + d \in Int /\ 2 * d \in Nat \ {0}
  OBVIOUS
<1>2. QED
  BY <1>1, DivisionBelow DEF Nearest

-----------------------------------------------------------------------------
(* What every stage knows of the decision, the plan and the quote. *)

AskInv ==
  ask \in [dir : {Long, Short}, margin : Nat, lever : Nat, confidence : 0 .. 100,
           base : Nat, equity : Nat \ (0 .. 2), held : Nat]

PlanInv ==
  stage \in {"sized", "quoted", "sent"} =>
    plan \in [margin : Nat, lever : 2 .. 5, size : Nat]

(* The gated margin is within the plan, a fifth of the balance and the cap, and
   a scale-in leaves the room of what is already held. *)
Gated(margin) ==
  /\ margin <= Cap
  /\ margin <= Nearest(ask.equity, 5)
  /\ plan.margin > 0 => margin <= plan.margin
  /\ ask.held > 0 /\ plan.margin > 0 => margin + ask.held <= Cap

QuoteInv ==
  stage \in {"quoted", "sent"} =>
    /\ quote \in [px : Nat \ {0}, tp : Int, sl : Int, margin : Int]
    /\ Gated(quote.margin)

PathInv ==
  /\ stage \in {"asked", "sized", "quoted", "sent", "dropped"}
  /\ AskInv
  /\ PlanInv
  /\ QuoteInv

LEMMA SizeIsNat ==
  ASSUME NEW margin \in Nat, NEW lever \in 2 .. 5, NEW base \in Nat, NEW equity \in Nat
  PROVE  DecidedSize(margin, lever, base, equity) \in Nat
<1> DEFINE unit == Worth(1, Price)
           wanted == (margin * lever) \div unit
           afford == (equity * lever) \div (5 * unit)
           most == Min({2 * base, wanted})
           least == Max({1, base \div 2, most})
<1>1. unit \in Nat \ {0} /\ 5 * unit \in Nat \ {0}
  BY OrderAssumption DEF Worth
<1>2. wanted \in Nat /\ afford \in Nat
  <2>1. margin * lever \in Nat /\ equity * lever \in Nat
    OBVIOUS
  <2>2. \A n \in Nat, d \in Nat \ {0} : n \div d \in Nat
    OBVIOUS
  <2> HIDE DEF unit
  <2>3. QED
    BY <1>1, <2>1, <2>2
<1>3. base \div 2 \in Nat
  OBVIOUS
<1> HIDE DEF wanted, afford
<1>4. most \in Nat
  <2>1. 2 * base \in Int /\ wanted \in Int
    BY <1>2
  <2>2. most = IF 2 * base <= wanted THEN 2 * base ELSE wanted
    BY <2>1, MinOfTwo
  <2>3. QED
    BY <2>2, <1>2
<1> HIDE DEF most
<1>5. least \in Nat
  <2> DEFINE half == base \div 2
  <2>1. 1 \in Int /\ half \in Int /\ most \in Int
    BY <1>3, <1>4
  <2> HIDE DEF half
  <2>2. Max({1, half, most}) \in {1, half, most}
    BY <2>1, MaxOfThree
  <2>3. QED
    BY <2>2, <1>3, <1>4 DEF half
<1> HIDE DEF least
<1>6. Min({afford, least}) = IF afford <= least THEN afford ELSE least
  BY <1>2, <1>5, MinOfTwo
<1>7. Min({afford, least}) \in Nat
  BY <1>2, <1>5, <1>6
<1>8. QED
  BY <1>7 DEF DecidedSize, Affordable, unit, wanted, afford, most, least

LEMMA MarginIsNat ==
  ASSUME NEW margin \in Nat, NEW lever \in 2 .. 5, NEW equity \in Nat
  PROVE  PlannedMargin(margin, lever, equity) \in Nat
<1>1. Worth(1, Price) \in Nat
  BY OrderAssumption DEF Worth
<1>2. \A n \in Nat, d \in Nat \ {0} : Nearest(n, d) \in Nat
  <2>1. \A n \in Nat, d \in Nat \ {0} : n \div d \in Nat
    OBVIOUS
  <2>2. QED
    BY <2>1 DEF Nearest
<1>3. Nearest(Worth(1, Price), 100 * lever) \in Nat
  BY <1>1, <1>2
<1>4. QED
  BY <1>3 DEF PlannedMargin

LEMMA SizeOrderKeeps ==
  ASSUME OrderAssumption, PathInv, SizeOrder
  PROVE  PathInv'
<1> DEFINE lever == ClampLeverage(ask.lever)
           margin == PlannedMargin(ask.margin, lever, ask.equity)
           size == DecidedSize(margin, lever, ask.base, ask.equity)
<1>1. ask' = ask /\ quote' = quote /\ AskInv
  BY DEF SizeOrder, PathInv
<1>2. lever \in 2 .. 5
  BY <1>1, LeverRange DEF AskInv
<1> HIDE DEF lever
<1>3. margin \in Nat
  BY <1>1, <1>2, MarginIsNat DEF AskInv
<1> HIDE DEF margin
<1>4. size \in Nat
  BY <1>1, <1>2, <1>3, SizeIsNat DEF AskInv
<1> HIDE DEF size
<1>5. \/ stage' = "dropped"
      \/ stage' = "sized" /\ plan' = [margin |-> margin, lever |-> lever, size |-> size]
  BY DEF SizeOrder, Drop, lever, margin, size
<1>6. PlanInv'
  BY <1>2, <1>3, <1>4, <1>5 DEF PlanInv
<1>7. QuoteInv'
  BY <1>5 DEF QuoteInv
<1>8. QED
  BY <1>1, <1>5, <1>6, <1>7 DEF PathInv, AskInv

LEMMA QuotedPrices ==
  ASSUME OrderAssumption,
         NEW d \in [dir : {Long, Short}, entry : Int, tp : Int, sl : Int]
  PROVE  Quoted(d) \in [px : Nat \ {0}, tp : Int, sl : Int]
<1> DEFINE px == IF d.entry > 0 THEN d.entry ELSE Price
           tp == IF d.tp > 0 THEN d.tp ELSE px + d.dir * TargetDistance
           sl == IF d.sl > 0 THEN d.sl ELSE px - d.dir * StopDistance
           wide == Max({TargetDistance, Nearest(24 * Price, 1000)})
           deep == Max({StopDistance, Nearest(12 * Price, 1000)})
<1>1. /\ Price \in Nat \ {0} /\ TargetDistance \in Nat /\ StopDistance \in Nat
      /\ d.dir \in {1, -1} /\ d.entry \in Int /\ d.tp \in Int /\ d.sl \in Int
  BY OrderAssumption DEF Long, Short
<1>2. px \in Nat \ {0}
  BY <1>1
<1> HIDE DEF px
<1>3. tp \in Int /\ sl \in Int
  BY <1>1, <1>2
<1> HIDE DEF tp, sl
<1>4. Nearest(24 * Price, 1000) \in Int /\ Nearest(12 * Price, 1000) \in Int
  BY <1>1, NearestInt
<1>5. wide \in Int
  <2> DEFINE most == Nearest(24 * Price, 1000)
  <2>1. most \in Int
    BY <1>4
  <2> HIDE DEF most
  <2>2. Max({TargetDistance, most}) \in Int
    BY <1>1, <2>1, MaxOfTwo
  <2>3. QED
    BY <2>2 DEF most
<1>6. deep \in Int
  <2> DEFINE most == Nearest(12 * Price, 1000)
  <2>1. most \in Int
    BY <1>4
  <2> HIDE DEF most
  <2>2. Max({StopDistance, most}) \in Int
    BY <1>1, <2>1, MaxOfTwo
  <2>3. QED
    BY <2>2 DEF most
<1> HIDE DEF wide, deep
<1>7. /\ (IF d.dir * (tp - px) > 0 THEN tp ELSE px + d.dir * wide) \in Int
      /\ (IF d.dir * (px - sl) > 0 THEN sl ELSE px - d.dir * deep) \in Int
  BY <1>1, <1>2, <1>3, <1>5, <1>6
<1>8. Quoted(d) = [px |-> px,
                   tp |-> IF d.dir * (tp - px) > 0 THEN tp ELSE px + d.dir * wide,
                   sl |-> IF d.dir * (px - sl) > 0 THEN sl ELSE px - d.dir * deep]
  BY DEF Quoted, px, tp, sl, wide, deep
<1>9. QED
  BY <1>2, <1>7, <1>8

LEMMA GateBounds ==
  ASSUME OrderAssumption, NEW planned \in Nat, NEW size \in Nat, NEW px \in Nat,
         NEW lever \in 2 .. 5, NEW equity \in Nat
  PROVE  LET margin == GatedMargin(planned, size, px, lever, equity) IN
         /\ margin \in Int /\ margin <= Cap /\ margin <= Nearest(equity, 5)
         /\ planned > 0 => margin <= planned
<1> DEFINE cost == Nearest(Worth(size, px), lever)
           asked == IF planned > 0 THEN planned ELSE cost
           fifth == Nearest(equity, 5)
<1>1. cost \in Int /\ fifth \in Int /\ Cap \in Int
  <2>1. Worth(size, px) \in Int
    BY DEF Worth
  <2>2. QED
    BY <2>1, NearestInt, OrderAssumption
<1> HIDE DEF cost, fifth
<1>2. asked \in Int
  BY <1>1
<1>3. planned > 0 => asked = planned
  OBVIOUS
<1> HIDE DEF asked
<1> DEFINE margin == Min({asked, cost, fifth, Cap})
<1>4. margin \in {asked, cost, fifth, Cap} /\ margin <= asked /\ margin <= fifth /\ margin <= Cap
  BY <1>1, <1>2, MinOfFour
<1>5. margin \in Int
  BY <1>1, <1>2, <1>4
<1> HIDE DEF margin
<1>6. GatedMargin(planned, size, px, lever, equity) = margin
  BY DEF GatedMargin, margin, asked, cost, fifth
<1>7. QED
  BY <1>3, <1>4, <1>5, <1>6 DEF fifth

(* A scale-in the pyramiding gate lets through leaves room for what is held. *)
LEMMA ScaleInRoom ==
  ASSUME OrderAssumption, AskInv, plan \in [margin : Nat, lever : 2 .. 5, size : Nat],
         MayEnter, ask.held > 0, plan.margin > 0
  PROVE  ask.held + plan.margin <= Cap
<1>1. /\ ask.held \in Nat /\ ask.equity \in Nat /\ plan.margin \in Nat /\ plan.lever \in 2 .. 5
      /\ Cap \in Nat
  BY OrderAssumption DEF AskInv
<1> DEFINE room == (30 * ask.equity) \div 100
<1>2. room \in Int
  BY <1>1
<1> HIDE DEF room
<1>3. Min({Cap, room}) = IF Cap <= room THEN Cap ELSE room
  BY <1>1, <1>2, MinOfTwo
<1>4. AssetCap(ask.equity) \in Int /\ AssetCap(ask.equity) <= Cap
  BY <1>1, <1>2, <1>3 DEF AssetCap, room
<1>5. (ask.held + plan.margin) * plan.lever + 0 <= AssetCap(ask.equity) * plan.lever
  <2>1. ask.held # 0 /\ plan.margin # 0
    BY <1>1
  <2>2. QED
    BY <2>1 DEF MayEnter
<1> DEFINE cap == AssetCap(ask.equity)
<1> HIDE DEF cap
<1>6. cap \in Int /\ cap <= Cap /\ (ask.held + plan.margin) * plan.lever + 0 <= cap * plan.lever
  BY <1>4, <1>5 DEF cap
<1>7. QED
  BY <1>1, <1>6

LEMMA QuoteOrderKeeps ==
  ASSUME OrderAssumption, PathInv, QuoteOrder
  PROVE  PathInv'
<1>1. /\ ask' = ask /\ plan' = plan /\ AskInv /\ stage = "sized"
      /\ plan \in [margin : Nat, lever : 2 .. 5, size : Nat]
  BY DEF QuoteOrder, PathInv, PlanInv
<1>2. AskInv' /\ PlanInv'
  BY <1>1 DEF AskInv, PlanInv
<1>3. CASE stage' = "dropped"
  BY <1>1, <1>2, <1>3 DEF PathInv, QuoteInv
<1>4. CASE stage' # "dropped"
  <2>1. stage' = "quoted" /\ MayEnter
    BY <1>4 DEF QuoteOrder, Drop
  <2>2. PICK entry \in Entry, tp \in Target, sl \in Stop :
          LET At(offset) == IF offset = 0 THEN 0 ELSE Price + ask.dir * offset
              q == Quoted([dir |-> ask.dir, entry |-> At(entry), tp |-> At(tp), sl |-> At(sl)])
          IN quote' = [px |-> q.px, tp |-> q.tp, sl |-> q.sl,
                       margin |-> GatedMargin(plan.margin, plan.size, q.px,
                                              plan.lever, ask.equity)]
    BY <1>4 DEF QuoteOrder, Drop
  <2> DEFINE At(offset) == IF offset = 0 THEN 0 ELSE Price + ask.dir * offset
             d == [dir |-> ask.dir, entry |-> At(entry), tp |-> At(tp), sl |-> At(sl)]
             q == Quoted(d)
             margin == GatedMargin(plan.margin, plan.size, q.px, plan.lever, ask.equity)
  <2>3. ask.dir \in {Long, Short} /\ ask.equity \in Nat /\ ask.held \in Nat
    BY <1>1 DEF AskInv
  <2>4. \A x \in Int : At(x) \in Int
    BY <2>3, OrderAssumption DEF Long, Short
  <2>5. entry \in Int /\ tp \in Int /\ sl \in Int
    BY OrderAssumption
  <2>6. d \in [dir : {Long, Short}, entry : Int, tp : Int, sl : Int]
    BY <2>3, <2>4, <2>5
  <2>7. quote' = [px |-> q.px, tp |-> q.tp, sl |-> q.sl, margin |-> margin]
    BY <2>2
  <2> HIDE DEF d
  <2>8. q \in [px : Nat \ {0}, tp : Int, sl : Int]
    BY <2>6, QuotedPrices
  <2> HIDE DEF q
  <2>9. /\ margin \in Int /\ margin <= Cap /\ margin <= Nearest(ask.equity, 5)
        /\ plan.margin > 0 => margin <= plan.margin
    BY <1>1, <2>3, <2>8, GateBounds
  <2> HIDE DEF margin
  <2>10. ask.held > 0 /\ plan.margin > 0 => margin + ask.held <= Cap
    <3> SUFFICES ASSUME ask.held > 0, plan.margin > 0
                 PROVE  margin + ask.held <= Cap
      OBVIOUS
    <3>1. ask.held + plan.margin <= Cap
      BY <1>1, <2>1, ScaleInRoom
    <3>2. Cap \in Int /\ plan.margin \in Int
      BY <1>1, OrderAssumption
    <3>3. QED
      BY <2>3, <2>9, <3>1, <3>2
  <2>11. quote'.margin = margin /\ quote' \in [px : Nat \ {0}, tp : Int, sl : Int, margin : Int]
    BY <2>7, <2>8, <2>9
  <2>12. Gated(quote.margin)'
    BY <1>1, <2>9, <2>10, <2>11 DEF Gated
  <2>13. QED
    BY <1>1, <1>2, <2>1, <2>11, <2>12 DEF PathInv, QuoteInv
<1>5. QED
  BY <1>3, <1>4

-----------------------------------------------------------------------------
(* The submission: the quote is moved and narrowed, then checked and sized. *)

Quotes == [px : Nat \ {0}, tp : Int, sl : Int]

LEMMA DistanceInt ==
  ASSUME NEW a \in Int, NEW b \in Int
  PROVE  Distance(a, b) \in Int
<1> DEFINE x == a - b
           y == b - a
<1>1. x \in Int /\ y \in Int
  OBVIOUS
<1> HIDE DEF x, y
<1>2. Max({x, y}) \in Int
  BY <1>1, MaxOfTwo
<1>3. QED
  BY <1>2 DEF Distance, x, y

LEMMA ScaledQuote ==
  ASSUME NEW last \in Nat \ {0}, NEW q \in Quotes, NEW dir \in {Long, Short}
  PROVE  ScaledTo(last, q, dir) \in Quotes /\ ScaledTo(last, q, dir).px = last
<1> DEFINE tp == Nearest(q.tp * last, q.px)
           sl == Nearest(q.sl * last, q.px)
           far == Nearest(last * (100 + 4 * dir), 100)
           near == Nearest(last * (100 - 2 * dir), 100)
<1>1. q.px \in Nat \ {0} /\ q.tp \in Int /\ q.sl \in Int /\ dir \in Int
  BY DEF Quotes, Long, Short
<1>2. tp \in Int /\ sl \in Int
  <2>1. q.tp * last \in Int /\ q.sl * last \in Int
    BY <1>1
  <2>2. QED
    BY <1>1, <2>1, NearestInt
<1>3. far \in Int /\ near \in Int
  <2>1. last * (100 + 4 * dir) \in Int /\ last * (100 - 2 * dir) \in Int
    BY <1>1
  <2>2. QED
    BY <2>1, NearestInt
<1> HIDE DEF tp, sl, far, near
<1>4. ScaledTo(last, q, dir) = [px |-> last,
                                tp |-> IF dir * (tp - last) > 0 THEN tp ELSE far,
                                sl |-> IF dir * (last - sl) > 0 THEN sl ELSE near]
  BY DEF ScaledTo, tp, sl, far, near
<1>5. QED
  BY <1>2, <1>3, <1>4 DEF Quotes

(* Drawing in the target touches neither entry nor stop. *)
LEMMA NarrowedQuote ==
  ASSUME OrderAssumption, NEW q \in Quotes, NEW dir \in {Long, Short}
  PROVE  /\ Narrowed(q, dir) \in Quotes
         /\ Narrowed(q, dir).px = q.px /\ Narrowed(q, dir).sl = q.sl
<1> DEFINE risk == Distance(q.px, q.sl)
           atrs == 35 * Atr
           risks == 35 * risk
           cap == Min({atrs, risks})
           floor == 12 * risk
           most == Max({cap, floor})
           drawn == Grain(q.px) * Nearest(10 * q.px + dir * most, 10 * Grain(q.px))
<1>1. q.px \in Nat \ {0} /\ q.tp \in Int /\ q.sl \in Int /\ dir \in Int /\ Atr \in Int
  BY OrderAssumption DEF Quotes, Long, Short
<1>2. risk \in Int
  <2>1. \A a, b \in Int : Distance(a, b) \in Int
    BY DistanceInt
  <2>2. q.px \in Int
    BY <1>1
  <2>3. QED
    BY <1>1, <2>1, <2>2
<1> HIDE DEF risk
<1>3. atrs \in Int /\ risks \in Int /\ floor \in Int
  BY <1>1, <1>2
<1> HIDE DEF atrs, risks, floor
<1>4. cap \in Int
  BY <1>3, MinOfTwo
<1> HIDE DEF cap
<1>5. most \in Int
  BY <1>3, <1>4, MaxOfTwo
<1> HIDE DEF most
<1>6. drawn \in Int
  <2>1. Grain(q.px) \in {1, 10}
    BY DEF Grain
  <2>2. 10 * q.px + dir * most \in Int /\ 10 * Grain(q.px) \in Nat \ {0}
    BY <1>1, <1>5, <2>1
  <2>3. Nearest(10 * q.px + dir * most, 10 * Grain(q.px)) \in Int
    BY <2>2, NearestInt
  <2>4. QED
    BY <2>1, <2>3
<1> HIDE DEF drawn
<1>7. Narrowed(q, dir) = q \/ Narrowed(q, dir) = [q EXCEPT !.tp = drawn]
  BY DEF Narrowed, drawn, most, cap, atrs, risks, floor, risk
<1>8. QED
  BY <1>6, <1>7 DEF Quotes

(* What a margin buys at a price costs no more than the margin. *)
LEMMA SizeCosts ==
  ASSUME NEW margin \in Int, NEW lever \in 2 .. 5, NEW px \in Nat \ {0}
  PROVE  /\ SentSize(margin, lever, px) \in Int
         /\ Worth(SentSize(margin, lever, px), px) <= margin * lever
<1> DEFINE d == 100 * px
           n == margin * lever
<1>1. n \in Int /\ d \in Nat \ {0}
  OBVIOUS
<1>2. Worth(1, px) = d
  BY DEF Worth
<1>3. n \div d \in Int /\ d * (n \div d) <= n
  <2> HIDE DEF n, d
  <2>1. QED
    BY <1>1, DivisionBelow
<1>4. SentSize(margin, lever, px) = n \div d
  BY <1>2 DEF SentSize
<1>5. \A s \in Int : Worth(s, px) = d * s
  BY DEF Worth
<1>6. QED
  <2> HIDE DEF n, d
  <2>1. Worth(n \div d, px) = d * (n \div d)
    BY <1>3, <1>5
  <2>2. QED
    BY <1>3, <1>4, <2>1 DEF n

(* An acceptable quote has its stop and target on either side of the entry and
   a reward of 1.2 times the risk at least. *)
LEMMA AcceptableBracket ==
  ASSUME NEW q \in Quotes, NEW dir \in {Long, Short}, NEW confidence \in 0 .. 100,
         AcceptableQuote(q, dir, confidence)
  PROVE  LET risk == dir * (q.px - q.sl)
             reward == dir * (q.tp - q.px)
         IN risk > 0 /\ 10 * reward >= 12 * risk
<1> DEFINE risk == dir * (q.px - q.sl)
           reward == dir * (q.tp - q.px)
<1>1. risk \in Int /\ reward \in Int
  BY DEF Quotes, Long, Short
<1>2. risk > 0 /\ (reward >= 2 * risk \/ 10 * reward >= 12 * risk)
  BY DEF AcceptableQuote
<1> HIDE DEF risk, reward
<1>3. risk > 0 /\ 10 * reward >= 12 * risk
  BY <1>1, <1>2
<1>4. QED
  BY <1>3 DEF risk, reward

OrderInv == PathInv /\ SpendsWithinPlan /\ MarketOrderBracketed

LEMMA SubmitKeeps ==
  ASSUME OrderAssumption, OrderInv, NEW market \in BOOLEAN, NEW demo \in BOOLEAN,
         Submit(market, demo)
  PROVE  OrderInv'
<1>1. /\ stage = "quoted" /\ ask' = ask /\ plan' = plan /\ quote' = quote
      /\ AskInv /\ plan \in [margin : Nat, lever : 2 .. 5, size : Nat]
      /\ quote \in [px : Nat \ {0}, tp : Int, sl : Int, margin : Int]
      /\ Gated(quote.margin)
  BY DEF Submit, OrderInv, PathInv, PlanInv, QuoteInv
<1>2. AskInv' /\ PlanInv'
  BY <1>1 DEF AskInv, PlanInv
<1>3. Gated(quote.margin)'
  BY <1>1 DEF Gated
<1>4. CASE stage' = "dropped"
  BY <1>1, <1>2, <1>4 DEF OrderInv, PathInv, QuoteInv, SpendsWithinPlan, MarketOrderBracketed
<1>5. CASE stage' # "dropped"
  <2> DEFINE dir == ask.dir
             planned == [px |-> quote.px, tp |-> quote.tp, sl |-> quote.sl]
             Here(last) == IF demo THEN ForDemo(planned, dir, last) ELSE planned
             There(last) == IF market /\ last > 0 THEN ForMarket(Here(last), dir, last)
                            ELSE Here(last)
             Final(last) == Narrowed(There(last), dir)
             Size(last) == SentSize(quote.margin, plan.lever, Final(last).px)
  <2>1. PICK last \in Ticker :
          /\ ~market \/ last > 0
          /\ AcceptableQuote(Final(last), dir, ask.confidence)
          /\ stage' = "sent"
          /\ order' = [market |-> market, px |-> Final(last).px, tp |-> Final(last).tp,
                       sl |-> Final(last).sl, size |-> Size(last), last |-> last]
    BY <1>5 DEF Submit, Drop
  <2>2. last \in Nat /\ dir \in {Long, Short} /\ ask.confidence \in 0 .. 100
    BY <1>1, OrderAssumption DEF AskInv
  <2>3. planned \in Quotes
    BY <1>1 DEF Quotes
  <2>4. Here(last) \in Quotes
    <3> HIDE DEF planned, dir
    <3>1. QED
      BY <2>2, <2>3, ScaledQuote DEF ForDemo
  <2>5. There(last) \in Quotes /\ (market => There(last).px = last)
    <3> HIDE DEF Here, dir
    <3>1. QED
      BY <2>1, <2>2, <2>4, ScaledQuote DEF ForMarket
  <2> DEFINE q == Final(last)
  <2>6. q \in Quotes /\ (market => q.px = last)
    <3> HIDE DEF There, dir
    <3>1. QED
      BY <2>2, <2>5, NarrowedQuote
  <2>7. /\ order'.market = market /\ order'.px = q.px /\ order'.tp = q.tp
        /\ order'.sl = q.sl /\ order'.last = last
        /\ order'.size = SentSize(quote.margin, plan.lever, q.px)
    BY <2>1
  <2>8. AcceptableQuote(q, ask.dir, ask.confidence)
    BY <2>1
  <2> HIDE DEF Final, q
  <2>9. /\ ask.dir * (q.px - q.sl) > 0
        /\ 10 * (ask.dir * (q.tp - q.px)) >= 12 * (ask.dir * (q.px - q.sl))
    BY <2>2, <2>6, <2>8, AcceptableBracket
  <2>10. MarketOrderBracketed'
    BY <1>1, <2>6, <2>7, <2>9 DEF MarketOrderBracketed
  <2>11. q.px \in Nat \ {0}
    BY <2>6 DEF Quotes
  <2> DEFINE cost == Worth(order'.size, order'.px)
  <2>12. cost \in Int /\ cost <= quote.margin * plan.lever
    <3>1. \A px \in Nat \ {0} :
            /\ SentSize(quote.margin, plan.lever, px) \in Int
            /\ Worth(SentSize(quote.margin, plan.lever, px), px) <= quote.margin * plan.lever
      BY <1>1, SizeCosts
    <3> DEFINE size == SentSize(quote.margin, plan.lever, q.px)
    <3>2. cost = Worth(size, q.px)
      BY <2>7
    <3>3. size \in Int /\ Worth(size, q.px) <= quote.margin * plan.lever
      BY <2>11, <3>1
    <3> HIDE DEF cost, size
    <3>4. Worth(size, q.px) \in Int
      BY <2>11, <3>3 DEF Worth
    <3>5. QED
      BY <3>2, <3>3, <3>4
  <2> HIDE DEF cost
  <2>13. /\ quote.margin <= Cap /\ quote.margin <= Nearest(ask.equity, 5)
         /\ plan.margin > 0 => quote.margin <= plan.margin
         /\ ask.held > 0 /\ plan.margin > 0 => quote.margin + ask.held <= Cap
    BY <1>1 DEF Gated
  <2>14. /\ Cap \in Int /\ Nearest(ask.equity, 5) \in Int /\ plan.margin \in Int
         /\ ask.held \in Int /\ plan.lever \in 2 .. 5 /\ quote.margin \in Int
    BY <1>1, OrderAssumption, NearestInt DEF AskInv
  <2>15. SpendsWithinPlan'
    <3> DEFINE fifth == Nearest(ask.equity, 5)
    <3>1. fifth \in Int /\ quote.margin <= fifth
      BY <2>13, <2>14
    <3> HIDE DEF fifth
    <3>2. /\ cost <= Cap * plan.lever /\ cost <= fifth * plan.lever
          /\ plan.margin > 0 => cost <= plan.margin * plan.lever
          /\ ask.held > 0 /\ plan.margin > 0 => cost + ask.held * plan.lever <= Cap * plan.lever
      BY <2>12, <2>13, <2>14, <3>1
    <3>3. QED
      BY <1>1, <3>2 DEF SpendsWithinPlan, cost, fifth
  <2>16. PathInv'
    BY <1>1, <1>2, <1>3, <2>1 DEF PathInv, QuoteInv
  <2>17. QED
    BY <2>10, <2>15, <2>16 DEF OrderInv
<1>6. QED
  BY <1>4, <1>5

-----------------------------------------------------------------------------
LEMMA OrderInvariant == Spec => []OrderInv
<1> USE OrderAssumption
<1>1. Init => OrderInv
  <2> SUFFICES ASSUME Init PROVE OrderInv
    OBVIOUS
  <2>1. stage = "asked"
    BY DEF Init
  <2>2. AskInv
    BY DEF Init, AskInv
  <2>3. QED
    BY <2>1, <2>2 DEF OrderInv, PathInv, PlanInv, QuoteInv, SpendsWithinPlan, MarketOrderBracketed
<1>2. OrderInv /\ [Next]_vars => OrderInv'
  <2> SUFFICES ASSUME OrderInv, [Next]_vars PROVE OrderInv'
    OBVIOUS
  <2>1. CASE SizeOrder
    <3>1. PathInv'
      BY <2>1, SizeOrderKeeps DEF OrderInv
    <3>2. stage' # "sent"
      BY <2>1 DEF SizeOrder, Drop
    <3>3. QED
      BY <3>1, <3>2 DEF OrderInv, SpendsWithinPlan, MarketOrderBracketed
  <2>2. CASE QuoteOrder
    <3>1. PathInv'
      BY <2>2, QuoteOrderKeeps DEF OrderInv
    <3>2. stage' # "sent"
      BY <2>2 DEF QuoteOrder, Drop
    <3>3. QED
      BY <3>1, <3>2 DEF OrderInv, SpendsWithinPlan, MarketOrderBracketed
  <2>3. CASE \E market, demo \in BOOLEAN : Submit(market, demo)
    BY <2>3, SubmitKeeps
  <2>4. CASE UNCHANGED vars
    BY <2>4 DEF vars, OrderInv, PathInv, AskInv, PlanInv, QuoteInv, Gated,
                SpendsWithinPlan, MarketOrderBracketed
  <2>5. QED
    BY <2>1, <2>2, <2>3, <2>4 DEF Next
<1>3. QED
  BY <1>1, <1>2, PTL DEF Spec

(* Whatever the sizes, prices and balances: the order that is sent costs no
   more margin than was planned, than a fifth of the balance, than the cap of
   the instrument, and with what is already held no more than the cap
   (order_margin_gate and the conversion to contracts in order_submit.py). *)
THEOREM SpendsWithinPlanCorrect == Spec => []SpendsWithinPlan
<1>1. OrderInv => SpendsWithinPlan
  BY DEF OrderInv
<1>2. QED
  BY <1>1, OrderInvariant, PTL

(* Whatever the quote that was planned and whatever the ticker says: a market
   order has its stop and its target on either side of the price it fills at,
   1.2 to 1 or better (reanchor_brackets_to_market and the last check). *)
THEOREM MarketOrderBracketedCorrect == Spec => []MarketOrderBracketed
<1>1. OrderInv => MarketOrderBracketed
  BY DEF OrderInv
<1>2. QED
  BY <1>1, OrderInvariant, PTL

=============================================================================
