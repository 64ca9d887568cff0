---------------------------- MODULE ScannerProofs ----------------------------
(***************************************************************************)
(* Of the scanner: every published plan obeys its rules, whatever the      *)
(* market gives; the gate judges by the day as it was, and no day holds    *)
(* more trades than the limit; the history survives, and outcomes say what *)
(* happened.                                                               *)
(***************************************************************************)
EXTENDS Scanner, SumTheorems, SequenceTheorems, TLAPS

-----------------------------------------------------------------------------
(* Plans.                                                                  *)

\* A product grows with its factors.
LEMMA ProductGrows ==
  ASSUME NEW n \in Nat, NEW a \in Int, NEW b \in Int, a <= b
  PROVE  n * a <= n * b
<1>1. n * (b - a) >= 0  OBVIOUS
<1>2. n * (b - a) = n * b - n * a  OBVIOUS
<1> QED BY <1>1, <1>2

\* It grows strictly with a factor that does.
LEMMA ProductGrowsStrictly ==
  ASSUME NEW n \in Nat \ {0}, NEW a \in Int, NEW b \in Int, a < b
  PROVE  n * a < n * b
<1>1. n * (b - a) >= 1
  <2>1. n >= 1 /\ b - a >= 1  OBVIOUS
  <2> QED BY <2>1
<1>2. n * (b - a) = n * b - n * a  OBVIOUS
<1> QED BY <1>1, <1>2

\* The distance of a stop is within its limits, whatever asks for it.
LEMMA BoundedIsWithin ==
  ASSUME NEW x \in Int, NEW entry \in Nat \ {0}
  PROVE  /\ Bounded(x, entry) \in Nat \ {0}
         /\ entry * MinSLDistance <= Bounded(x, entry)
         /\ Bounded(x, entry) <= entry * MaxSLDistance
<1> DEFINE m == entry * MinSLDistance
           M == entry * MaxSLDistance
<1>1. /\ MinSLDistance \in Nat \ {0} /\ MaxSLDistance \in Nat
      /\ MinSLDistance <= MaxSLDistance
  BY SizingAssumption
<1>2. m \in Nat /\ M \in Nat  BY <1>1
<1>3. m <= M  BY <1>1, ProductGrows
<1>4. m > 0  BY <1>1
<1> HIDE DEF m, M
<1>5. /\ Smaller(Larger(x, m), M) \in Nat \ {0}
      /\ m <= Smaller(Larger(x, m), M) /\ Smaller(Larger(x, m), M) <= M
  BY <1>2, <1>3, <1>4 DEF Smaller, Larger
<1> QED BY <1>5 DEF Bounded, m, M

\* The distance of the stop is within its limits.
LEMMA DistanceIsWithin ==
  ASSUME NEW entry \in Nat \ {0}, NEW direction \in Directions,
         NEW atr \in Nat, NEW level \in Nat
  PROVE  /\ SLDistance(direction, entry, atr, level) \in Nat \ {0}
         /\ entry * MinSLDistance <= SLDistance(direction, entry, atr, level)
         /\ SLDistance(direction, entry, atr, level) <= entry * MaxSLDistance
<1> DEFINE byATR == atr * ATRMultiplierSL
           byStructure == IF level > 0 THEN StructureDistance(direction, entry, level) ELSE 0
           x == IF byStructure > 0 /\ byStructure < 2 * byATR THEN byStructure ELSE byATR
<1>1. byATR \in Int /\ byStructure \in Int
  BY SizingAssumption DEF StructureDistance
<1>2. x \in Int  BY <1>1
<1>3. SLDistance(direction, entry, atr, level) = Bounded(x, entry)  BY DEF SLDistance
<1> HIDE DEF x
<1> QED BY <1>2, <1>3, BoundedIsWithin

\* A trade that ends a multiple of its distance away gains that multiple.
LEMMA GainOfMultiple ==
  ASSUME NEW params, params.direction \in Directions, params.entry \in Nat,
         params.distance \in Nat, NEW k \in Int
  PROVE  Profit(params, Away(params, k)) = k * params.distance
<1> DEFINE d == k * params.distance  e == 10000 * params.entry
<1>1. d \in Int /\ e \in Int  OBVIOUS
<1>2. Away(params, k) = IF params.direction = "LONG" THEN e + d ELSE e - d
  BY DEF Away
<1> HIDE DEF d, e
<1>3. (IF params.direction = "LONG" THEN Away(params, k) - e ELSE e - Away(params, k)) = d
  BY <1>1, <1>2
<1> QED BY <1>3 DEF Profit, d, e

\* The share of the budget that a score is worth is no more than all of it.
LEMMA BudgetIsShare ==
  ASSUME NEW entry \in Nat, NEW balance \in Nat, NEW score \in Nat
  PROVE  /\ RiskOfBudget(entry, balance, score) \in Int
         /\ RiskOfBudget(entry, balance, score) <= entry * (balance * MaxRiskPerTrade * 100)
<1> DEFINE b == balance * MaxRiskPerTrade
           c == ConfidenceScale(score)
<1>1. b \in Nat  BY SizingAssumption
<1>2. c \in Nat /\ c <= 100  BY DEF ConfidenceScale
<1> HIDE DEF b, c
<1>3. b * c <= b * 100  BY <1>1, <1>2, ProductGrows
<1>4. b * c \in Nat /\ b * 100 \in Nat  BY <1>1, <1>2
<1>5. entry * (b * c) <= entry * (b * 100)  BY <1>3, <1>4, ProductGrows
<1>6. entry * (b * c) \in Int  BY <1>4
<1> QED BY <1>5, <1>6 DEF RiskOfBudget, b, c

\* The three bounds of a risk.
RiskWithin(risk, entry, distance, balance) ==
  /\ risk <= entry * (balance * MaxRiskPerTrade * 100)
  /\ risk <= entry * (InitialBalance * 30000)
  /\ risk <= 100 * distance * (balance * Leverage)

\* A trade risks no more than each of its three limits.
LEMMA RiskIsLimited ==
  ASSUME NEW entry \in Nat, NEW distance \in Nat, NEW balance \in Nat,
         NEW score \in Nat
  PROVE  RiskWithin(ActualRisk(entry, distance, balance, score), entry, distance, balance)
<1> DEFINE x == RiskOfBudget(entry, balance, score)
           y == RiskOfLeverage(distance, balance)
           z == RiskOfCap(entry)
           w == entry * (balance * MaxRiskPerTrade * 100)
<1>1. x \in Int /\ x <= w  BY BudgetIsShare
<1>2. y \in Int /\ z \in Int /\ w \in Int
  BY SizingAssumption DEF RiskOfLeverage, RiskOfCap
<1>3. y = 100 * distance * (balance * Leverage) /\ z = entry * (InitialBalance * 30000)
  BY DEF RiskOfLeverage, RiskOfCap
<1>4. ActualRisk(entry, distance, balance, score) = Smaller(Smaller(x, y), z)
  BY DEF ActualRisk
<1> HIDE DEF x, y, z, w
<1>5. /\ Smaller(Smaller(x, y), z) <= w
      /\ Smaller(Smaller(x, y), z) <= z
      /\ Smaller(Smaller(x, y), z) <= y
  BY <1>1, <1>2 DEF Smaller
<1>6. ActualRisk(entry, distance, balance, score)
        <= entry * (balance * MaxRiskPerTrade * 100)
  BY <1>4, <1>5 DEF w
<1>7. ActualRisk(entry, distance, balance, score) <= entry * (InitialBalance * 30000)
  BY <1>3, <1>4, <1>5
<1>8. ActualRisk(entry, distance, balance, score) <= 100 * distance * (balance * Leverage)
  BY <1>3, <1>4, <1>5
<1> QED BY <1>6, <1>7, <1>8 DEF RiskWithin

\* Even the farthest target leaves a price.
LEMMA TargetsLeaveAPrice ==
  ASSUME NEW entry \in Nat \ {0}, NEW distance \in Nat,
         distance <= entry * MaxSLDistance
  PROVE  TP3Multiplier * distance < 10000 * entry /\ distance < 10000 * entry
<1> DEFINE M == entry * MaxSLDistance
<1>1. /\ MaxSLDistance \in Nat /\ TP3Multiplier \in Nat /\ TP3Multiplier >= 1
      /\ MaxSLDistance * TP3Multiplier < 10000
  BY SizingAssumption
<1>2. M \in Nat  BY <1>1
<1>3. TP3Multiplier * distance <= TP3Multiplier * M  BY <1>1, <1>2, ProductGrows DEF M
<1>4. TP3Multiplier * M = entry * (MaxSLDistance * TP3Multiplier)  BY <1>1
<1>5. entry * (MaxSLDistance * TP3Multiplier) < entry * 10000
  <2> DEFINE t == MaxSLDistance * TP3Multiplier
  <2>1. t \in Int /\ t < 10000  BY <1>1
  <2> HIDE DEF t
  <2>2. entry * t < entry * 10000  BY <2>1, ProductGrowsStrictly
  <2> QED BY <2>2 DEF t
<1>6. distance * 1 <= distance * TP3Multiplier  BY <1>1, ProductGrows
<1> DEFINE p == TP3Multiplier * distance  q == TP3Multiplier * M
           r == entry * (MaxSLDistance * TP3Multiplier)
<1>7. p \in Int /\ q \in Int /\ r \in Int  BY <1>1, <1>2
<1>8. p <= q /\ q = r /\ r < 10000 * entry /\ distance <= p
  BY <1>1, <1>3, <1>4, <1>5, <1>6
<1> HIDE DEF p, q, r
<1>9. p < 10000 * entry /\ distance < 10000 * entry  BY <1>7, <1>8
<1> QED BY <1>9 DEF p

\* A plan that has the distance and the risk of its arguments obeys the rules.
LEMMA PlanObeys ==
  ASSUME NEW params,
         NEW atr \in Nat, NEW balance \in Nat, NEW score \in Nat, NEW level \in Nat,
         params.direction \in Directions, params.entry \in Nat \ {0},
         params.distance = SLDistance(params.direction, params.entry, atr, level),
         params.risk = ActualRisk(params.entry, params.distance, balance, score)
  PROVE  WithinRules(params, balance)
<1>1. /\ params.distance \in Nat \ {0}
      /\ params.entry * MinSLDistance <= params.distance
      /\ params.distance <= params.entry * MaxSLDistance
  <2> DEFINE d == SLDistance(params.direction, params.entry, atr, level)
  <2>1. /\ d \in Nat \ {0}
        /\ params.entry * MinSLDistance <= d
        /\ d <= params.entry * MaxSLDistance
    BY DistanceIsWithin, Zenon
  <2> HIDE DEF d
  <2>2. params.distance = d  BY Zenon DEF d
  <2> QED BY <2>1, <2>2, Zenon
<1>2. ASSUME NEW k \in Int PROVE Profit(params, Away(params, k)) = k * params.distance
  BY <1>1, GainOfMultiple
<1>3. Profit(params, StopLoss(params)) = -params.distance
  <2>1. Profit(params, Away(params, -1)) = (-1) * params.distance  BY <1>2
  <2>2. (-1) * params.distance = -params.distance  BY <1>1
  <2> QED BY <2>1, <2>2 DEF StopLoss
<1>4. /\ DefaultRR \in Nat \ {0} /\ TP2Multiplier \in Nat /\ TP3Multiplier \in Nat
      /\ DefaultRR < TP2Multiplier /\ TP2Multiplier < TP3Multiplier
  BY SizingAssumption
<1>5. /\ Profit(params, TakeProfit1(params)) = DefaultRR * params.distance
      /\ Profit(params, TakeProfit2(params)) = TP2Multiplier * params.distance
      /\ Profit(params, TakeProfit3(params)) = TP3Multiplier * params.distance
  BY <1>2, <1>4 DEF TakeProfit1, TakeProfit2, TakeProfit3
<1>6. /\ 0 < DefaultRR * params.distance
      /\ DefaultRR * params.distance < TP2Multiplier * params.distance
      /\ TP2Multiplier * params.distance < TP3Multiplier * params.distance
  <2> DEFINE d == params.distance
  <2>0. d \in Nat \ {0}  BY <1>1
  <2> HIDE DEF d
  <2>1. d * 0 < d * DefaultRR  BY <2>0, <1>4, ProductGrowsStrictly
  <2>2. d * DefaultRR < d * TP2Multiplier  BY <2>0, <1>4, ProductGrowsStrictly
  <2>3. d * TP2Multiplier < d * TP3Multiplier  BY <2>0, <1>4, ProductGrowsStrictly
  <2>4. 0 < DefaultRR * d /\ DefaultRR * d < TP2Multiplier * d
        /\ TP2Multiplier * d < TP3Multiplier * d
    BY <2>0, <1>4, <2>1, <2>2, <2>3
  <2> QED BY <2>4 DEF d
<1>7. /\ TP3Multiplier * params.distance < 10000 * params.entry
      /\ params.distance < 10000 * params.entry
  BY <1>1, TargetsLeaveAPrice
<1>8. 0 < StopLoss(params) /\ 0 < TakeProfit3(params)
  <2> DEFINE d == params.distance  e == 10000 * params.entry  t == TP3Multiplier * d
  <2>1. /\ StopLoss(params) = IF params.direction = "LONG" THEN e + (-1) * d ELSE e - (-1) * d
        /\ TakeProfit3(params) = IF params.direction = "LONG" THEN e + t ELSE e - t
    BY DEF StopLoss, TakeProfit3, Away
  <2>2. d \in Nat /\ e \in Nat /\ t \in Nat /\ t < e /\ d < e /\ 0 < e
    BY <1>1, <1>4, <1>7
  <2> HIDE DEF d, e, t
  <2> QED BY <2>1, <2>2
<1>9. /\ params.risk <= params.entry * (balance * MaxRiskPerTrade * 100)
      /\ params.risk <= params.entry * (InitialBalance * 30000)
      /\ params.risk <= 100 * params.distance * (balance * Leverage)
  <2> DEFINE r == ActualRisk(params.entry, params.distance, balance, score)
  <2>1. params.entry \in Nat /\ params.distance \in Nat  BY <1>1, Zenon
  <2>2. RiskWithin(r, params.entry, params.distance, balance)
    BY <2>1, RiskIsLimited, Zenon
  <2> HIDE DEF r
  <2>3. params.risk = r  BY Zenon DEF r
  <2> QED BY <2>2, <2>3 DEF RiskWithin
<1>10. -Profit(params, StopLoss(params)) = params.distance /\ Profit(params, StopLoss(params)) < 0
  BY <1>1, <1>3
<1>11. /\ Profit(params, StopLoss(params)) < 0 /\ 0 < StopLoss(params)
       /\ 0 < Profit(params, TakeProfit1(params))
       /\ Profit(params, TakeProfit1(params)) < Profit(params, TakeProfit2(params))
       /\ Profit(params, TakeProfit2(params)) < Profit(params, TakeProfit3(params))
       /\ 0 < TakeProfit3(params)
       /\ params.entry * MinSLDistance <= -Profit(params, StopLoss(params))
       /\ -Profit(params, StopLoss(params)) <= params.entry * MaxSLDistance
  <2>1. /\ 0 < Profit(params, TakeProfit1(params))
        /\ Profit(params, TakeProfit1(params)) < Profit(params, TakeProfit2(params))
        /\ Profit(params, TakeProfit2(params)) < Profit(params, TakeProfit3(params))
    BY <1>5, <1>6, Zenon
  <2>2. params.entry * MinSLDistance <= -Profit(params, StopLoss(params))
    BY <1>1, <1>10, Zenon
  <2>3. -Profit(params, StopLoss(params)) <= params.entry * MaxSLDistance
    BY <1>1, <1>10, Zenon
  <2> QED BY <1>8, <1>10, <2>1, <2>2, <2>3, Zenon
<1> QED BY <1>9, <1>11 DEF WithinRules

\* Whatever structure, volatility, balance and score it is given,
\* ComputeRiskParams (risk_manager.go:96) plans a trade whose stop lies within
\* its limits, whose targets lie in order behind each other at prices that
\* exist, and which risks no more than its shares.
THEOREM PlansObey ==
  ASSUME NEW direction \in Directions, NEW entry \in Nat \ {0},
         NEW atr \in Nat, NEW balance \in Nat, NEW score \in Nat, NEW level \in Nat
  PROVE  WithinRules(RiskParams(direction, entry, atr, balance, score, level), balance)
<1> DEFINE params == RiskParams(direction, entry, atr, balance, score, level)
<1>1. /\ params.direction = direction /\ params.entry = entry
      /\ params.distance = SLDistance(params.direction, params.entry, atr, level)
      /\ params.risk = ActualRisk(params.entry, params.distance, balance, score)
  BY DEF RiskParams
<1> HIDE DEF params
<1>2. params.direction \in Directions /\ params.entry \in Nat \ {0}
  BY <1>1
<1>3. WithinRules(params, balance)
  BY <1>1, <1>2, PlanObeys
<1> QED BY <1>3 DEF params

-----------------------------------------------------------------------------
(* Types.                                                                  *)

Swings == [isHigh : BOOLEAN, price : Nat]
Plans  == [direction : Directions, entry : Nat \ {0}, distance : Nat \ {0}, risk : Int]
AlertSet == [symbol : ToSet(Symbols), createdAt : Nat, risk : Plans]
Stages == {"alerted", "cleared", "opened", "monitored", "settled", "done"}

\* What a scan may find now.
NewAlerts == {i \in AlertSet : /\ i.createdAt = time
                               /\ states[i.symbol].price # 0
                               /\ WithinRules(i.risk, accountBalance)}

\* There is an alert only once there was a price, and a result for a trade
\* that is settled.
Typed ==
  /\ time \in 0..MaxTime /\ accountBalance \in Nat
  /\ states \in [ToSet(Symbols) -> States]
  /\ time = 0 => \A s \in ToSet(Symbols) : states[s].price = 0
  /\ alerts \in Seq(AlertSet) /\ (alerts # << >> => time # 0)
  /\ stage \in [DOMAIN alerts -> Stages] /\ openTrades \subseteq DOMAIN alerts
  /\ \A a \in DOMAIN stage : stage[a] = "settled" => a \in DOMAIN resultOf /\ resultOf[a] \in Int

\* A set of numbers up to a bound has a greatest.
LEMMA GreatestOf ==
  ASSUME NEW L \in Nat, NEW S, S \subseteq 1..L, S # {}
  PROVE  Max(S) \in S
<1> DEFINE P == {n \in Nat : \A T \in SUBSET (1..n) : T # {} => \E x \in T : \A y \in T : x >= y}
<1>1. 0 \in P
  <2>1. 1..0 = {}  OBVIOUS
  <2> QED BY <2>1
<1>2. ASSUME NEW n \in Nat, n \in P PROVE n + 1 \in P
  <2> SUFFICES ASSUME NEW T \in SUBSET (1..(n + 1)), T # {}
               PROVE  \E x \in T : \A y \in T : x >= y
    OBVIOUS
  <2>1. CASE n + 1 \in T
    <3>1. \A y \in T : n + 1 >= y  OBVIOUS
    <3> QED BY <2>1, <3>1
  <2>2. CASE n + 1 \notin T
    <3>1. T \in SUBSET (1..n)  BY <2>2
    <3> QED BY <1>2, <3>1
  <2> QED BY <2>1, <2>2
<1>3. L \in P
  <2> HIDE DEF P
  <2> QED BY <1>1, <1>2, NatSetInduction
<1>4. \E x \in S : \A y \in S : x >= y  BY <1>3
<1> QED BY <1>4 DEF Max

\* The level behind a swing is a price.
LEMMA LevelIsPrice ==
  ASSUME NEW state \in States, NEW direction
  PROVE  StructureLevel(direction, state) \in Nat
<1> DEFINE swings == state.candles.swings
           behind == {n \in DOMAIN swings :
                        IF direction = "LONG"
                        THEN ~swings[n].isHigh /\ swings[n].price < state.price
                        ELSE swings[n].isHigh /\ swings[n].price > state.price}
<1>1. swings \in Seq(Swings)  BY DEF States, Swings
<1>2. behind \subseteq DOMAIN swings  OBVIOUS
<1>3. StructureLevel(direction, state) = IF behind = {} THEN 0 ELSE swings[Max(behind)].price
  BY DEF StructureLevel
<1> HIDE DEF swings, behind
<1>4. Len(swings) \in Nat /\ DOMAIN swings = 1..Len(swings)  BY <1>1
<1>5. \A n \in DOMAIN swings : swings[n].price \in Nat
  <2>1. \A n \in DOMAIN swings : swings[n] \in Swings  BY <1>1
  <2> QED BY <2>1 DEF Swings
<1>6. behind # {} => Max(behind) \in DOMAIN swings
  BY <1>2, <1>4, GreatestOf
<1> QED BY <1>3, <1>5, <1>6

\* A plan is computed of what ComputeRiskParams does not refuse.
LEMMA PlanTyped ==
  ASSUME Typed, NEW symbol \in ToSet(Symbols), states[symbol].price # 0,
         NEW direction \in Directions, NEW score \in Nat
  PROVE  /\ Risk(symbol, direction, score) \in Plans
         /\ WithinRules(Risk(symbol, direction, score), accountBalance)
<1> DEFINE state == states[symbol]
           entry == state.price
           atr   == Volatility(state)
           level == StructureLevel(direction, state)
           d     == SLDistance(direction, entry, atr, level)
           r     == ActualRisk(entry, d, accountBalance, score)
<1>1. state \in States /\ accountBalance \in Nat  BY DEF Typed
<1>2. entry \in Nat \ {0} /\ state.candles.atr \in Nat  BY <1>1 DEF States
<1>3. atr \in Nat  BY <1>2 DEF Volatility
<1>4. level \in Nat  BY <1>1, LevelIsPrice
<1>5. Risk(symbol, direction, score)
        = RiskParams(direction, entry, atr, accountBalance, score, level)
  BY DEF Risk
<1>6. RiskParams(direction, entry, atr, accountBalance, score, level)
        = [direction |-> direction, entry |-> entry, distance |-> d, risk |-> r]
  BY DEF RiskParams
<1> HIDE DEF state, entry, atr, level
<1>7. WithinRules(RiskParams(direction, entry, atr, accountBalance, score, level),
                  accountBalance)
  BY <1>1, <1>2, <1>3, <1>4, PlansObey
<1>8. d \in Nat \ {0}  BY <1>2, <1>3, <1>4, DistanceIsWithin
<1>9. r \in Int
  <2> HIDE DEF d
  <2>1. RiskOfBudget(entry, accountBalance, score) \in Int  BY <1>1, <1>2, BudgetIsShare
  <2>2. RiskOfLeverage(d, accountBalance) \in Int /\ RiskOfCap(entry) \in Int
    BY <1>1, <1>2, <1>8, SizingAssumption DEF RiskOfLeverage, RiskOfCap
  <2> QED BY <2>1, <2>2 DEF ActualRisk, Smaller
<1> HIDE DEF d, r
<1>10. [direction |-> direction, entry |-> entry, distance |-> d, risk |-> r] \in Plans
  BY <1>2, <1>8, <1>9 DEF Plans
<1> QED BY <1>5, <1>6, <1>7, <1>10

\* What a scan publishes.
LEMMA EmittedTyped ==
  ASSUME Typed, NEW found \in [ToSet(Symbols) -> Findings]
  PROVE  Emitted(found) \in Seq(NewAlerts)
<1> DEFINE parts == [n \in DOMAIN Symbols |-> AlertsOf(Symbols[n], found[Symbols[n]])]
<1>1. /\ Symbols \in Seq(ToSet(Symbols))
      /\ Findings \subseteq [Directions -> [score : Nat, strong : BOOLEAN]]
  BY ScannerAssumption
<1>2. ASSUME NEW symbol \in ToSet(Symbols) PROVE AlertsOf(symbol, found[symbol]) \in Seq(NewAlerts)
  <2> DEFINE plan(d) == Risk(symbol, d, found[symbol][d].score)
             alert(d) == [symbol |-> symbol, createdAt |-> time, risk |-> plan(d)]
             of(d) == IF Qualifies(symbol, d, found[symbol][d]) THEN <<alert(d)>> ELSE << >>
  <2>1. AlertsOf(symbol, found[symbol])
          = IF Scannable(symbol) THEN of("LONG") \o of("SHORT") ELSE << >>
    BY DEF AlertsOf
  <2>2. found[symbol] \in [Directions -> [score : Nat, strong : BOOLEAN]]  BY <1>1
  <2>3. ASSUME Scannable(symbol), NEW d \in Directions PROVE of(d) \in Seq(NewAlerts)
    <3>1. found[symbol][d].score \in Nat  BY <2>2
    <3>2. states[symbol].price # 0  BY <2>3 DEF Scannable
    <3>3. plan(d) \in Plans /\ WithinRules(plan(d), accountBalance)
      BY <3>1, <3>2, PlanTyped
    <3> HIDE DEF plan
    <3>4. alert(d) \in AlertSet /\ alert(d).createdAt = time /\ alert(d).symbol = symbol
          /\ alert(d).risk = plan(d)
      BY <3>3 DEF AlertSet, Typed
    <3> HIDE DEF alert
    <3>5. alert(d) \in NewAlerts  BY <3>2, <3>3, <3>4 DEF NewAlerts
    <3> QED BY <3>5
  <2> HIDE DEF of
  <2>4. Scannable(symbol) => of("LONG") \o of("SHORT") \in Seq(NewAlerts)
    BY <2>3 DEF Directions
  <2> QED BY <2>1, <2>4
<1>3. \A n \in DOMAIN Symbols : Symbols[n] \in ToSet(Symbols)  BY DEF ToSet
<1>4. parts \in Seq(Seq(NewAlerts))
  <2>1. Len(Symbols) \in Nat /\ DOMAIN Symbols = 1..Len(Symbols)  BY <1>1
  <2>2. parts \in [1..Len(Symbols) -> Seq(NewAlerts)]  BY <1>2, <1>3, <2>1
  <2> QED BY <2>1, <2>2
<1>5. Emitted(found) = FlattenSeq(parts)  BY DEF Emitted
<1> HIDE DEF parts
<1> QED BY <1>4, <1>5, FlattenMembers

\* The alerts after a scan are those before and the new ones.
Joined(new) ==
  /\ alerts' \in Seq(AlertSet) /\ Len(alerts') = Len(alerts) + Len(new)
  /\ DOMAIN alerts' = DOMAIN alerts \cup (Len(alerts) + 1 .. Len(alerts) + Len(new))
  /\ \A a \in DOMAIN alerts : alerts'[a] = alerts[a] /\ a <= Len(alerts)
  /\ \A a \in Len(alerts) + 1 .. Len(alerts) + Len(new) : alerts'[a] \in NewAlerts

LEMMA ScanJoins ==
  ASSUME Typed, NEW found \in [ToSet(Symbols) -> Findings], Scan(found)
  PROVE  Joined(Emitted(found))
<1> DEFINE new == Emitted(found)
<1>1. new \in Seq(NewAlerts) /\ alerts \in Seq(AlertSet) /\ alerts' = alerts \o new
  BY EmittedTyped DEF Scan, Typed
<1> HIDE DEF new
<1>2. new \in Seq(AlertSet)
  <2>1. NewAlerts \subseteq AlertSet  BY DEF NewAlerts
  <2> QED BY <1>1, <2>1
<1>3. /\ Len(new) \in Nat /\ Len(alerts) \in Nat
      /\ DOMAIN new = 1..Len(new) /\ DOMAIN alerts = 1..Len(alerts)
  BY <1>1
<1>4. alerts' \in Seq(AlertSet) /\ Len(alerts') = Len(alerts) + Len(new)  BY <1>1, <1>2
<1>5. DOMAIN alerts' = 1..(Len(alerts) + Len(new))  BY <1>4
<1>6. \A a \in DOMAIN alerts : alerts'[a] = alerts[a]  BY <1>1, <1>3
<1>7. ASSUME NEW a \in Len(alerts) + 1 .. Len(alerts) + Len(new) PROVE alerts'[a] \in NewAlerts
  <2>1. a - Len(alerts) \in DOMAIN new  BY <1>3
  <2>2. alerts'[a] = new[a - Len(alerts)]  BY <1>1, <1>2, <1>3
  <2>3. new[a - Len(alerts)] \in NewAlerts  BY <1>1, <2>1
  <2> QED BY <2>2, <2>3
<1>8. /\ DOMAIN alerts' = DOMAIN alerts \cup (Len(alerts) + 1 .. Len(alerts) + Len(new))
      /\ \A a \in DOMAIN alerts : a <= Len(alerts)
  BY <1>3, <1>5
<1> QED BY <1>4, <1>6, <1>7, <1>8 DEF Joined, new

\* Nothing is found before there is a price.
LEMMA ScanKeepsTypes ==
  ASSUME Typed, NEW found \in [ToSet(Symbols) -> Findings], Scan(found)
  PROVE  Typed'
<1> DEFINE new == Emitted(found)
           names == Len(alerts) + 1 .. Len(alerts) + Len(new)
<1>1. Joined(new)  BY ScanJoins
<1>2. /\ time' = time /\ accountBalance' = accountBalance /\ states' = states
      /\ openTrades' = openTrades /\ resultOf' = resultOf
      /\ stage' = [a \in DOMAIN stage \cup names |-> IF a \in names THEN "alerted" ELSE stage[a]]
  BY DEF Scan, marketVars, trackerVars
<1>3. alerts' # << >> => time # 0
  <2> SUFFICES ASSUME alerts' # << >>, alerts = << >> PROVE time # 0
    BY DEF Typed
  <2>1. Len(new) \in Nat  BY EmittedTyped
  <2>2. alerts' \in Seq(AlertSet) /\ Len(alerts') = Len(new)
    BY <1>1, <2>1 DEF Joined
  <2>3. Len(new) # 0  BY <2>2
  <2>4. 1 \in names  BY <2>1, <2>3
  <2>5. alerts'[1] \in NewAlerts  BY <1>1, <2>4 DEF Joined
  <2> QED BY <2>5 DEF NewAlerts, AlertSet, Typed
<1> HIDE DEF names, new
<1>4. DOMAIN alerts' = DOMAIN alerts \cup names /\ alerts' \in Seq(AlertSet)
  BY <1>1 DEF Joined, names
<1>5. stage' \in [DOMAIN alerts' -> Stages]  BY <1>2, <1>4 DEF Typed, Stages
<1>6. \A a \in DOMAIN stage' : stage'[a] = "settled" => a \in DOMAIN resultOf' /\ resultOf'[a] \in Int
  BY <1>2 DEF Typed
<1> QED BY <1>2, <1>3, <1>4, <1>5, <1>6 DEF Typed

\* The gain at a price, and in R.
LEMMA ResultTyped ==
  ASSUME Typed, NEW a \in DOMAIN alerts, NEW exit \in Nat
  PROVE  Gain(a, exit) \in Int /\ ResultInR(a, exit) \in Int
<1>1. alerts[a].risk \in Plans
  <2>1. alerts[a] \in AlertSet  BY DEF Typed
  <2> QED BY <2>1 DEF AlertSet
<1>2. alerts[a].risk.entry \in Nat /\ alerts[a].risk.distance \in Nat \ {0}
  BY <1>1 DEF Plans
<1>3. Gain(a, exit) \in Int  BY <1>2 DEF Gain
<1>4. \A x \in Int : \A d \in Nat \ {0} : x \div d \in Int  OBVIOUS
<1> QED BY <1>2, <1>3, <1>4 DEF ResultInR

\* The price at which a trade is closed.
LEMMA ExitTyped ==
  ASSUME Typed, NEW a \in DOMAIN alerts
  PROVE  MarketAt[time][alerts[a].symbol].price \in Nat
<1>1. alerts[a].symbol \in ToSet(Symbols)
  <2>1. alerts[a] \in AlertSet  BY DEF Typed
  <2> QED BY <2>1 DEF AlertSet
<1>2. time \in 1..MaxTime
  <2>1. alerts # << >>  OBVIOUS
  <2> QED BY <2>1, GuardrailAssumption DEF Typed
<1>3. MarketAt \in [1..MaxTime -> [ToSet(Symbols) -> States]]  BY ScannerAssumption
<1>4. MarketAt[time][alerts[a].symbol] \in States  BY <1>1, <1>2, <1>3
<1> QED BY <1>4 DEF States

\* The steps of the trader.
LEMMA StageTyped ==
  ASSUME Typed, NEW a, NEW call \in Stages, NEW old, At(a, old), Calls(a, call)
  PROVE  /\ a \in DOMAIN alerts
         /\ stage' \in [DOMAIN alerts -> Stages]
         /\ \A b \in DOMAIN stage' : b # a => stage'[b] = stage[b]
         /\ stage'[a] = call
  BY DEF Typed, At, Calls

LEMMA OutcomeKeepsTypes ==
  ASSUME Typed, NEW a, a \in DOMAIN alerts, RecordOutcome(a)
  PROVE  Typed'
<1> DEFINE exit == MarketAt[time][alerts[a].symbol].price
<1>1. exit \in Nat  BY ExitTyped
<1>2. ResultInR(a, exit) \in Int  BY <1>1, ResultTyped
<1>3. /\ At(a, "monitored") /\ Calls(a, "settled")
      /\ resultOf' = Put(resultOf, a, ResultInR(a, exit))
      /\ time' = time /\ accountBalance' = accountBalance /\ states' = states
      /\ alerts' = alerts /\ openTrades' \subseteq openTrades
  BY DEF RecordOutcome, RecordsOutcome, marketVars, engineVars, trackerVars
<1> HIDE DEF exit
<1>4. /\ stage' \in [DOMAIN alerts -> Stages] /\ stage'[a] = "settled"
      /\ \A b \in DOMAIN stage' : b # a => stage'[b] = stage[b]
  BY <1>3, StageTyped DEF Stages
<1>5. /\ resultOf'[a] = ResultInR(a, exit) /\ DOMAIN resultOf' = DOMAIN resultOf \cup {a}
      /\ \A b \in DOMAIN resultOf : b # a => resultOf'[b] = resultOf[b]
  BY <1>3 DEF Put
<1>6. \A b \in DOMAIN stage' : stage'[b] = "settled" => b \in DOMAIN resultOf' /\ resultOf'[b] \in Int
  BY <1>2, <1>4, <1>5 DEF Typed
<1> QED BY <1>3, <1>4, <1>6 DEF Typed

\* A step of the trader that settles nothing.
LEMMA CallKeepsTypes ==
  ASSUME Typed, UNCHANGED <<time, marketVars, engineVars, resultOf>>,
         \/ stage' = stage
         \/ \E a, old, call : At(a, old) /\ Calls(a, call) /\ call \in Stages \ {"settled"},
         openTrades' \subseteq DOMAIN alerts
  PROVE  Typed'
<1>1. /\ time' = time /\ accountBalance' = accountBalance /\ states' = states
      /\ alerts' = alerts /\ resultOf' = resultOf
  BY DEF marketVars, engineVars
<1>2. /\ stage' \in [DOMAIN alerts -> Stages]
      /\ \A b \in DOMAIN stage' : stage'[b] = "settled" => stage[b] = "settled"
  <2>1. CASE stage' = stage  BY <2>1 DEF Typed
  <2>2. CASE \E a, old, call : At(a, old) /\ Calls(a, call) /\ call \in Stages \ {"settled"}
    <3>1. PICK a, old, call : At(a, old) /\ Calls(a, call) /\ call \in Stages \ {"settled"}
      BY <2>2
    <3>2. /\ stage' \in [DOMAIN alerts -> Stages]
          /\ \A b \in DOMAIN stage' : b # a => stage'[b] = stage[b]
          /\ stage'[a] = call
      BY <3>1, StageTyped
    <3> QED BY <3>1, <3>2
  <2> QED BY <2>1, <2>2
<1>3. \A b \in DOMAIN stage' :
        stage'[b] = "settled" => b \in DOMAIN resultOf' /\ resultOf'[b] \in Int
  BY <1>1, <1>2 DEF Typed
<1> QED BY <1>1, <1>2, <1>3 DEF Typed

\* A tick brings a price, and a restart forgets it.
LEMMA TickKeepsTypes == Typed /\ Tick => Typed'
<1> SUFFICES ASSUME Typed, Tick PROVE Typed'  OBVIOUS
<1>1. /\ time < MaxTime /\ time' = time + 1 /\ states' = MarketAt[time']
      /\ accountBalance' = BalanceAt[time']
      /\ alerts' = alerts /\ stage' = stage /\ openTrades' = openTrades /\ resultOf' = resultOf
  BY DEF Tick, engineVars, trackerVars, traderVars
<1>2. time' \in 1..MaxTime  BY <1>1, GuardrailAssumption DEF Typed
<1>3. states' \in [ToSet(Symbols) -> States] /\ accountBalance' \in Nat
  BY <1>1, <1>2, ScannerAssumption
<1> QED BY <1>1, <1>2, <1>3 DEF Typed

LEMMA NoDataTyped ==
  LET empty == [s \in ToSet(Symbols) |-> NoData]
  IN  /\ empty \in [ToSet(Symbols) -> States]
      /\ \A s \in ToSet(Symbols) : empty[s].price = 0
<1>1. << >> \in Seq(Swings)  OBVIOUS
<1>2. [atr |-> 0, swings |-> << >>] \in [atr : Nat, swings : Seq(Swings)]  BY <1>1
<1>3. NoData \in States /\ NoData.price = 0  BY <1>2 DEF NoData, States, Swings
<1> QED BY <1>3

LEMMA RestartKeepsTypes == Typed /\ Restart => Typed'
<1> SUFFICES ASSUME Typed, Restart PROVE Typed'  OBVIOUS
<1>1. /\ time' = time /\ states' = [s \in ToSet(Symbols) |-> NoData]
      /\ accountBalance' = InitialBalance
      /\ alerts' = alerts /\ stage' = stage /\ openTrades' = {} /\ resultOf' = resultOf
  BY DEF Restart, traderVars
<1>2. states' \in [ToSet(Symbols) -> States] /\ \A s \in ToSet(Symbols) : states'[s].price = 0
  BY <1>1, NoDataTyped
<1>3. accountBalance' \in Nat  BY <1>1, SizingAssumption
<1> QED BY <1>1, <1>2, <1>3 DEF Typed

\* The steps of the scanner together.
LEMMA NextKeepsTypes == Typed /\ [Next]_scannerVars => Typed'
<1> SUFFICES ASSUME Typed, [Next]_scannerVars PROVE Typed'  OBVIOUS
<1> USE DEF trackerVars, traderVars
<1>1. CASE \E found \in [ToSet(Symbols) -> Findings] : Scan(found)
  BY <1>1, ScanKeepsTypes
<1>2. CASE NoScan
  BY <1>2, CallKeepsTypes DEF NoScan, Typed
<1>3. CASE \E a \in Alerts : CheckPreTrade(a)
  <2>1. PICK a \in Alerts : CheckPreTrade(a)  BY <1>3
  <2>2. /\ UNCHANGED <<time, marketVars, engineVars, resultOf>> /\ openTrades' = openTrades
        /\ stage' = stage \/ (At(a, "alerted") /\ Calls(a, "cleared"))
    BY <2>1 DEF CheckPreTrade
  <2>3. openTrades' \subseteq DOMAIN alerts  BY <2>2 DEF Typed
  <2> QED BY <2>2, <2>3, CallKeepsTypes DEF Stages
<1>4. CASE \E a \in Alerts : Decline(a)
  <2>1. PICK a \in Alerts : Decline(a)  BY <1>4
  <2>2. /\ UNCHANGED <<time, marketVars, engineVars, resultOf>> /\ openTrades' = openTrades
        /\ At(a, "cleared") /\ Calls(a, "done")
    BY <2>1 DEF Decline
  <2>3. openTrades' \subseteq DOMAIN alerts  BY <2>2 DEF Typed
  <2> QED BY <2>2, <2>3, CallKeepsTypes DEF Stages
<1>5. CASE \E a \in Alerts : OpenTrade(a)
  <2>1. PICK a \in Alerts : OpenTrade(a)  BY <1>5
  <2>2. /\ UNCHANGED <<time, marketVars, engineVars, resultOf>> /\ openTrades' = openTrades
        /\ At(a, "cleared") /\ Calls(a, "opened")
    BY <2>1 DEF OpenTrade
  <2>3. openTrades' \subseteq DOMAIN alerts  BY <2>2 DEF Typed
  <2> QED BY <2>2, <2>3, CallKeepsTypes DEF Stages
<1>6. CASE \E a \in Alerts : RegisterTrade(a)
  <2>1. PICK a \in Alerts : RegisterTrade(a)  BY <1>6
  <2>2. /\ UNCHANGED <<time, marketVars, engineVars, resultOf>>
        /\ openTrades' = openTrades \cup {a}
        /\ At(a, "opened") /\ Calls(a, "monitored")
    BY <2>1 DEF RegisterTrade
  <2>3. openTrades' \subseteq DOMAIN alerts  BY <2>2 DEF Typed, At
  <2> QED BY <2>2, <2>3, CallKeepsTypes DEF Stages
<1>7. CASE \E a \in Alerts : a \in DOMAIN alerts /\ RecordOutcome(a)
  BY <1>7, OutcomeKeepsTypes
<1>8. CASE \E a \in Alerts : ReportResult(a)
  <2>1. PICK a \in Alerts : ReportResult(a)  BY <1>8
  <2>2. /\ UNCHANGED <<time, marketVars, engineVars, resultOf>> /\ openTrades' = openTrades
        /\ At(a, "settled") /\ Calls(a, "done")
    BY <2>1 DEF ReportResult
  <2>3. openTrades' \subseteq DOMAIN alerts  BY <2>2 DEF Typed
  <2> QED BY <2>2, <2>3, CallKeepsTypes DEF Stages
<1>9. CASE \E value \in BOOLEAN : HaltOrResume(value)
  BY <1>9, CallKeepsTypes DEF HaltOrResume, Typed
<1>10. CASE Restart  BY <1>10, RestartKeepsTypes
<1>11. CASE Tick  BY <1>11, TickKeepsTypes
<1>12. CASE UNCHANGED scannerVars
  BY <1>12, CallKeepsTypes DEF scannerVars, Typed
<1> QED BY <1>1, <1>2, <1>3, <1>4, <1>5, <1>6, <1>7, <1>8, <1>9, <1>10, <1>11, <1>12 DEF Next

LEMMA InitTyped == Init => Typed
<1> SUFFICES ASSUME Init PROVE Typed  OBVIOUS
<1>1. /\ time = 0 /\ states = [s \in ToSet(Symbols) |-> NoData]
      /\ accountBalance = InitialBalance
      /\ alerts = << >> /\ stage = << >> /\ openTrades = {}
  BY DEF Init
<1>2. time \in 0..MaxTime /\ accountBalance \in Nat
  BY <1>1, GuardrailAssumption, SizingAssumption
<1>3. states \in [ToSet(Symbols) -> States] /\ \A s \in ToSet(Symbols) : states[s].price = 0
  BY <1>1, NoDataTyped
<1>4. /\ alerts \in Seq(AlertSet) /\ DOMAIN alerts = {} /\ DOMAIN stage = {}
      /\ stage \in [DOMAIN alerts -> Stages]
  BY <1>1
<1> QED BY <1>1, <1>2, <1>3, <1>4 DEF Typed

\* Every plan a scan publishes (engine.go:227) obeys the rules of its limits and
\* of the balance of the moment: what is published is what was computed, of a
\* price that is there.
THEOREM PublishedPlansObey == Spec => PlansWithinRules
<1> DEFINE Obeyed == \A a \in DOMAIN alerts' \ DOMAIN alerts :
                       WithinRules(alerts'[a].risk, accountBalance)
<1>1. Typed /\ [Next]_scannerVars => [Obeyed]_scannerVars
  <2> SUFFICES ASSUME Typed, Next PROVE Obeyed  OBVIOUS
  <2> USE DEF engineVars
  <2>1. ASSUME NEW found \in [ToSet(Symbols) -> Findings], Scan(found) PROVE Obeyed
    <3>1. Joined(Emitted(found))  BY <2>1, ScanJoins
    <3>2. ASSUME NEW a \in DOMAIN alerts' \ DOMAIN alerts
          PROVE  WithinRules(alerts'[a].risk, accountBalance)
      <4>1. alerts'[a] \in NewAlerts  BY <3>1 DEF Joined
      <4> QED BY <4>1 DEF NewAlerts
    <3> QED BY <3>2
  <2>2. ASSUME alerts' = alerts PROVE Obeyed  BY <2>2
  <2> HIDE DEF Obeyed
  <2>3. \/ \E found \in [ToSet(Symbols) -> Findings] : Scan(found)
        \/ alerts' = alerts
    BY DEF Next, NoScan, CheckPreTrade, Decline, OpenTrade, RegisterTrade, RecordOutcome,
           ReportResult, HaltOrResume, Restart, Tick
  <2> QED BY <2>1, <2>2, <2>3
<1> QED BY <1>1, InitTyped, NextKeepsTypes, PTL DEF Spec, PlansWithinRules

-----------------------------------------------------------------------------
(* Trades of a day.                                                        *)

On(date) == {a \in DOMAIN openedOn : openedOn[a] = date}
Cleared  == {a \in DOMAIN stage : stage[a] = "cleared"}

\* The count of the day is not less than what was opened on it, and at most one
\* alert is cleared, for which there is room.
CountCovers ==
  /\ IsFiniteSet(DOMAIN openedOn)
  /\ day.date \in Nat /\ day.date <= Date
  /\ day.trades \in Nat /\ day.trades <= MaxTradesPerDay
  /\ \A a \in DOMAIN openedOn : openedOn[a] \in Nat /\ openedOn[a] <= day.date
  /\ Cardinality(On(day.date)) <= day.trades
  /\ \A date \in Nat : Cardinality(On(date)) <= MaxTradesPerDay
  /\ \A a \in Cleared : day.trades < MaxTradesPerDay
  /\ \A a, b \in Cleared : a = b

TradesInv ==
  /\ time \in Nat /\ restarts \in Nat
  /\ DOMAIN day = {"trades", "losses", "pnl", "date"}
  /\ restarts = 0 => CountCovers

\* Dates do not go back.
LEMMA DatesGrow ==
  ASSUME NEW t \in Nat, NEW d \in Nat \ {0}
  PROVE  t \div d \in Nat /\ t \div d <= (t + 1) \div d
  OBVIOUS

\* Dates count from zero.
LEMMA DateIsNat == ASSUME time \in Nat PROVE Date \in Nat
  BY GuardrailAssumption, DatesGrow DEF Date

\* The openings of a date are finitely many.
LEMMA OnIsSmall ==
  ASSUME IsFiniteSet(DOMAIN openedOn), NEW date
  PROVE  IsFiniteSet(On(date)) /\ Cardinality(On(date)) \in Nat
  BY FS_Subset, FS_CardinalityType DEF On

\* Nothing was opened after the day of the guardrails.
LEMMA NoneLater ==
  ASSUME CountCovers, NEW date \in Nat, day.date < date
  PROVE  Cardinality(On(date)) = 0
<1>1. \A a \in DOMAIN openedOn : openedOn[a] # date  BY DEF CountCovers
<1>2. On(date) = {}  BY <1>1 DEF On
<1> QED BY <1>2, FS_EmptySet

\* A step that at most rolls the day and clears nothing.
LEMMA RollKeepsCount ==
  ASSUME TradesInv, time' = time, openedOn' = openedOn, restarts' = restarts,
         DOMAIN day' = DOMAIN day,
         \/ day'.date = day.date /\ day'.trades = day.trades
         \/ day'.date = DayNow.date /\ day'.trades = DayNow.trades,
         Cleared' \subseteq Cleared
  PROVE  TradesInv'
<1> SUFFICES ASSUME restarts = 0 PROVE CountCovers'
  BY DEF TradesInv
<1>1. CountCovers /\ time \in Nat  BY DEF TradesInv
<1>2. Date' = Date /\ Date \in Nat  BY <1>1, DateIsNat DEF Date
<1>3. \A date : On(date)' = On(date)  BY DEF On
<1>4. CASE day'.date = day.date /\ day'.trades = day.trades
  BY <1>1, <1>2, <1>3, <1>4 DEF CountCovers
<1>5. CASE day.date # Date /\ day'.date = DayNow.date /\ day'.trades = DayNow.trades
  <2>1. day'.date = Date /\ day'.trades = 0  BY <1>5 DEF DayNow, NewDay
  <2>2. day.date < Date  BY <1>1, <1>2, <1>5 DEF CountCovers
  <2>3. Cardinality(On(Date)) = 0  BY <1>1, <1>2, <2>2, NoneLater
  <2>4. MaxTradesPerDay \in Nat  BY GuardrailAssumption
  <2>5. \A a \in DOMAIN openedOn : openedOn[a] \in Nat /\ openedOn[a] <= Date
    BY <1>1, <1>2, <2>2 DEF CountCovers
  <2>6. \A a \in Cleared' : 0 < MaxTradesPerDay  BY <1>1, <2>4 DEF CountCovers
  <2>7. \A a, b \in Cleared' : a = b  BY <1>1 DEF CountCovers
  <2> QED BY <1>1, <1>2, <1>3, <2>1, <2>3, <2>4, <2>5, <2>6, <2>7 DEF CountCovers
<1>6. CASE day.date = Date /\ day'.date = DayNow.date /\ day'.trades = DayNow.trades
  <2>1. day'.date = day.date /\ day'.trades = day.trades  BY <1>6 DEF DayNow
  <2> QED BY <1>4, <2>1
<1> QED BY <1>4, <1>5, <1>6

\* Nothing has been traded at the start.
LEMMA InitCounts == Init => TradesInv
<1> SUFFICES ASSUME Init PROVE TradesInv  OBVIOUS
<1>1. /\ time = 0 /\ restarts = 0 /\ openedOn = << >> /\ stage = << >>
      /\ day = [trades |-> 0, losses |-> 0, pnl |-> 0, date |-> Date]
  BY DEF Init, NewGuardrails, NewDay
<1>2. Date \in Nat  BY <1>1, DateIsNat
<1>3. MaxTradesPerDay \in Nat  BY GuardrailAssumption
<1>4. DOMAIN openedOn = {} /\ Cleared = {}  BY <1>1 DEF Cleared
<1>5. \A date : On(date) = {}  BY <1>4 DEF On
<1>6. IsFiniteSet(DOMAIN openedOn) /\ \A date : Cardinality(On(date)) = 0
  BY <1>4, <1>5, FS_EmptySet
<1>7. day.date = Date /\ day.trades = 0 /\ DOMAIN day = {"trades", "losses", "pnl", "date"}
  BY <1>1
<1>8. CountCovers  BY <1>2, <1>3, <1>4, <1>6, <1>7 DEF CountCovers
<1> QED BY <1>1, <1>7, <1>8 DEF TradesInv

\* An alert is only cleared while there is room and no other one is.
LEMMA ClearingKeepsCount ==
  ASSUME TradesInv, NEW a, CheckPreTrade(a) PROVE TradesInv'
<1>1. /\ time' = time /\ openedOn' = openedOn /\ restarts' = restarts /\ day' = DayNow
  BY DEF CheckPreTrade, ReadDay, history
<1>2. DOMAIN day' = DOMAIN day  BY <1>1 DEF TradesInv, DayNow, NewDay
<1>3. CASE Cleared' \subseteq Cleared  BY <1>1, <1>2, <1>3, RollKeepsCount
<1>4. CASE Allowed(a) /\ Calls(a, "cleared")
  <2>1. Cleared = {} /\ DayNow.trades < MaxTradesPerDay
    BY <1>4 DEF CheckPreTrade, Cleared, Allowed, CanTrade
  <2>2. Cleared' \subseteq {a}  BY <1>4, <2>1 DEF Cleared, Calls
  <2> SUFFICES ASSUME restarts = 0 PROVE CountCovers'
    BY <1>1, <1>2 DEF TradesInv
  <2>3. CountCovers /\ time \in Nat  BY DEF TradesInv
  <2>4. Date' = Date /\ Date \in Nat  BY <1>1, <2>3, DateIsNat DEF Date
  <2>5. \A date : On(date)' = On(date)  BY <1>1 DEF On
  <2>6. CASE day.date = Date
    <3>1. day' = day  BY <1>1, <2>6 DEF DayNow
    <3>2. \A b \in Cleared' : day.trades < MaxTradesPerDay  BY <2>1, <2>6 DEF DayNow
    <3>3. \A b, c \in Cleared' : b = c  BY <2>2
    <3> QED BY <1>1, <2>3, <2>4, <2>5, <3>1, <3>2, <3>3 DEF CountCovers
  <2>7. CASE day.date # Date
    <3>1. day'.date = Date /\ day'.trades = 0  BY <1>1, <2>7 DEF DayNow, NewDay
    <3>2. day.date < Date  BY <2>3, <2>4, <2>7 DEF CountCovers
    <3>3. Cardinality(On(Date)) = 0  BY <2>3, <2>4, <3>2, NoneLater
    <3>4. \A b \in DOMAIN openedOn : openedOn[b] \in Nat /\ openedOn[b] <= Date
      BY <2>3, <2>4, <3>2 DEF CountCovers
    <3>5. 0 < MaxTradesPerDay  BY <2>1, <2>7 DEF DayNow, NewDay
    <3>6. \A b, c \in Cleared' : b = c  BY <2>2
    <3>7. MaxTradesPerDay \in Nat  BY GuardrailAssumption
    <3> QED BY <1>1, <2>3, <2>4, <2>5, <3>1, <3>3, <3>4, <3>5, <3>6, <3>7 DEF CountCovers
  <2> QED BY <2>6, <2>7
<1> QED BY <1>3, <1>4 DEF CheckPreTrade, Cleared, Calls

\* The trade of the cleared alert takes the room that was left, of this day or
\* of a new one.
LEMMA OpeningKeepsCount ==
  ASSUME TradesInv, NEW a, OpenTrade(a) PROVE TradesInv'
<1> DEFINE onNext(date) == {b \in DOMAIN openedOn' : openedOn'[b] = date}
<1>1. /\ time' = time /\ restarts' = restarts /\ day' = [DayNow EXCEPT !.trades = @ + 1]
      /\ openedOn' = [b \in DOMAIN openedOn \cup {a} |-> IF b = a THEN Date ELSE openedOn[b]]
      /\ a \in DOMAIN stage /\ stage[a] = "cleared"
      /\ stage' = [stage EXCEPT ![a] = "opened"]
  BY DEF OpenTrade, RecordTradeOpened, Put, At, Calls
<1>2. DOMAIN DayNow = {"trades", "losses", "pnl", "date"}
  BY DEF TradesInv, DayNow, NewDay
<1>3. /\ DOMAIN day' = {"trades", "losses", "pnl", "date"}
      /\ day'.trades = DayNow.trades + 1 /\ day'.date = DayNow.date
  BY <1>1, <1>2
<1> SUFFICES ASSUME restarts = 0 PROVE CountCovers'
  BY <1>1, <1>3 DEF TradesInv
<1>4. CountCovers /\ time \in Nat  BY DEF TradesInv
<1>5. Date' = Date /\ Date \in Nat  BY <1>1, <1>4, DateIsNat DEF Date
<1>6. Cleared' = {}
  <2>1. a \in Cleared  BY <1>1 DEF Cleared
  <2>2. \A b \in Cleared : b = a  BY <2>1, <1>4 DEF CountCovers
  <2> QED BY <1>1, <2>2 DEF Cleared
<1>7. day.trades < MaxTradesPerDay /\ MaxTradesPerDay \in Nat
  BY <1>1, <1>4, GuardrailAssumption DEF CountCovers, Cleared
<1>8. DOMAIN openedOn' = DOMAIN openedOn \cup {a}  BY <1>1
<1>9. \A b \in DOMAIN openedOn' : openedOn'[b] = IF b = a THEN Date ELSE openedOn[b]
  BY <1>1, <1>8
<1>10. IsFiniteSet(DOMAIN openedOn')
  BY <1>4, <1>8, FS_AddElement DEF CountCovers
<1>11. \A b \in DOMAIN openedOn' : openedOn'[b] \in Nat /\ openedOn'[b] <= Date
  BY <1>4, <1>5, <1>8, <1>9 DEF CountCovers
<1>12. day'.date = Date  BY <1>3 DEF DayNow, NewDay
<1>13. ASSUME NEW date \in Nat
       PROVE  Cardinality(onNext(date)) <=
                IF date = Date THEN Cardinality(On(Date)) + 1 ELSE Cardinality(On(date))
  <2>1. IsFiniteSet(On(date)) /\ Cardinality(On(date)) \in Nat
    BY <1>4, OnIsSmall DEF CountCovers
  <2>2. CASE date = Date
    <3>1. onNext(date) \subseteq On(date) \cup {a}  BY <1>8, <1>9 DEF On
    <3>2. IsFiniteSet(On(date) \cup {a})
          /\ Cardinality(On(date) \cup {a}) <= Cardinality(On(date)) + 1
      BY <2>1, FS_AddElement
    <3>3. Cardinality(onNext(date)) <= Cardinality(On(date) \cup {a})
          /\ Cardinality(onNext(date)) \in Nat
      BY <3>1, <3>2, FS_Subset, FS_CardinalityType
    <3>4. Cardinality(On(date) \cup {a}) \in Nat  BY <3>2, FS_CardinalityType
    <3> QED BY <2>1, <2>2, <3>2, <3>3, <3>4
  <2>3. CASE date # Date
    <3>1. onNext(date) \subseteq On(date)  BY <2>3, <1>8, <1>9 DEF On
    <3> QED BY <2>1, <2>3, <3>1, FS_Subset
  <2> QED BY <2>2, <2>3
<1>14. \A date \in Nat : Cardinality(onNext(date)) \in Nat
  <2>1. \A date \in Nat : onNext(date) \subseteq DOMAIN openedOn'  OBVIOUS
  <2> QED BY <2>1, <1>10, FS_Subset, FS_CardinalityType
<1>15. Cardinality(On(Date)) <= DayNow.trades /\ DayNow.trades \in Nat
       /\ Cardinality(On(Date)) \in Nat
  <2>1. CASE day.date = Date
    BY <2>1, <1>4, <1>5, OnIsSmall DEF DayNow, CountCovers
  <2>2. CASE day.date # Date
    <3>1. day.date < Date  BY <2>2, <1>4, <1>5 DEF CountCovers
    <3>2. Cardinality(On(Date)) = 0  BY <1>4, <1>5, <3>1, NoneLater
    <3> QED BY <2>2, <3>2 DEF DayNow, NewDay
  <2> QED BY <2>1, <2>2
<1>16. DayNow.trades + 1 <= MaxTradesPerDay
  BY <1>4, <1>7 DEF DayNow, NewDay, CountCovers
<1>17. \A date \in Nat : Cardinality(onNext(date)) <= MaxTradesPerDay
  <2> TAKE date \in Nat
  <2>1. Cardinality(On(date)) <= MaxTradesPerDay /\ Cardinality(On(date)) \in Nat
    BY <1>4, OnIsSmall DEF CountCovers
  <2> QED BY <2>1, <1>7, <1>13, <1>14, <1>15, <1>16
<1>18. Cardinality(onNext(Date)) <= day'.trades
  <2> HIDE DEF onNext
  <2>1. Cardinality(onNext(Date)) <= Cardinality(On(Date)) + 1  BY <1>5, <1>13
  <2>2. Cardinality(onNext(Date)) \in Nat  BY <1>5, <1>14
  <2> QED BY <1>3, <1>15, <2>1, <2>2
<1>19. On(day.date)' = onNext(Date) /\ \A date : On(date)' = onNext(date)
  BY <1>12 DEF On
<1>20. /\ day'.trades \in Nat /\ day'.trades <= MaxTradesPerDay
  BY <1>3, <1>15, <1>16
<1> QED BY <1>5, <1>6, <1>10, <1>11, <1>12, <1>17, <1>18, <1>19, <1>20 DEF CountCovers

\* A date that ends keeps its trades.
LEMMA TickKeepsCount == TradesInv /\ Tick => TradesInv'
<1> SUFFICES ASSUME TradesInv, Tick PROVE TradesInv'  OBVIOUS
<1>1. /\ time' = time + 1 /\ day' = day /\ stage' = stage /\ openedOn' = openedOn
      /\ restarts' = restarts
  BY DEF Tick, guardVars, traderVars, history
<1>2. Date \in Nat /\ Date' \in Nat /\ Date <= Date'
  BY <1>1, DatesGrow, DateIsNat, GuardrailAssumption DEF TradesInv, Date
<1>3. \A date : On(date)' = On(date)  BY <1>1 DEF On
<1>4. Cleared' = Cleared  BY <1>1 DEF Cleared
<1> QED BY <1>1, <1>2, <1>3, <1>4 DEF TradesInv, CountCovers

\* The steps of the scanner together.
LEMMA NextKeepsCount == TradesInv /\ [Next]_scannerVars => TradesInv'
<1> SUFFICES ASSUME TradesInv, [Next]_scannerVars PROVE TradesInv'  OBVIOUS
<1> USE DEF history, traderVars, guardVars
<1>1. DOMAIN DayNow = DOMAIN day  BY DEF TradesInv, DayNow, NewDay
<1>2. CASE \E found \in [ToSet(Symbols) -> Findings] : Scan(found)
  <2>1. time' = time /\ openedOn' = openedOn /\ restarts' = restarts /\ day' = DayNow
    BY <1>2 DEF Scan
  <2>2. Cleared' \subseteq Cleared
    <3>1. \E names : stage' = [n \in DOMAIN stage \cup names |->
                               IF n \in names THEN "alerted" ELSE stage[n]]  BY <1>2 DEF Scan
    <3> QED BY <3>1 DEF Cleared
  <2> QED BY <1>1, <2>1, <2>2, RollKeepsCount
<1>3. CASE NoScan
  BY <1>1, <1>3, RollKeepsCount DEF NoScan, ReadDay, Cleared
<1>4. CASE \E a \in Alerts : CheckPreTrade(a)  BY <1>4, ClearingKeepsCount
<1>5. CASE \E a \in Alerts : Decline(a)
  BY <1>5, RollKeepsCount DEF Decline, Calls, Cleared
<1>6. CASE \E a \in Alerts : OpenTrade(a)  BY <1>6, OpeningKeepsCount
<1>7. CASE \E a \in Alerts : RegisterTrade(a)
  BY <1>7, RollKeepsCount DEF RegisterTrade, Calls, Cleared
<1>8. CASE \E a \in Alerts : a \in DOMAIN alerts /\ RecordOutcome(a)
  BY <1>8, RollKeepsCount DEF RecordOutcome, Calls, Cleared
<1>9. CASE \E a \in Alerts : ReportResult(a)
  <2>1. /\ time' = time /\ openedOn' = openedOn /\ restarts' = restarts
        /\ Cleared' \subseteq Cleared
    BY <1>9 DEF ReportResult, Calls, Cleared
  <2>2. \E x, y : day' = [DayNow EXCEPT !.pnl = x, !.losses = y]
    BY <1>9 DEF ReportResult, RecordTradeResult
  <2>3. DOMAIN day' = DOMAIN day /\ day'.date = DayNow.date /\ day'.trades = DayNow.trades
    BY <1>1, <2>2 DEF TradesInv
  <2> QED BY <2>1, <2>3, RollKeepsCount
<1>10. CASE \E value \in BOOLEAN : HaltOrResume(value)
  BY <1>10, RollKeepsCount DEF HaltOrResume, SetHalted, Cleared
<1>11. CASE Restart
  BY <1>11 DEF Restart, NewGuardrails, NewDay, TradesInv
<1>12. CASE Tick  BY <1>12, TickKeepsCount
<1>13. CASE UNCHANGED scannerVars
  BY <1>13, RollKeepsCount DEF scannerVars, Cleared
<1> QED BY <1>2, <1>3, <1>4, <1>5, <1>6, <1>7, <1>8, <1>9, <1>10, <1>11, <1>12, <1>13 DEF Next

\* However the day is rolled, by whichever call, and although nothing is reserved
\* between the check and the opening of a trade (guardrails.go:94 and 139), no
\* day has more trades than its limit.
THEOREM DaysKeepToTheLimit == Spec => []TradesPerDay
<1>1. TradesInv => TradesPerDay
  <2> SUFFICES ASSUME TradesInv, restarts = 0, NEW date \in 0..Date
               PROVE  Cardinality({a \in DOMAIN openedOn : openedOn[a] = date})
                        <= MaxTradesPerDay
    BY DEF TradesPerDay
  <2>1. CountCovers /\ date \in Nat  BY DateIsNat DEF TradesInv
  <2> QED BY <2>1 DEF CountCovers, On
<1> QED BY InitCounts, NextKeepsCount, <1>1, PTL DEF Spec

-----------------------------------------------------------------------------
(* The gate.                                                               *)

DayRecords == [trades : Nat, losses : Nat, pnl : Int, date : Nat]
ResultSet  == [result : Int, date : Nat]

Of(date) == {n \in DOMAIN results : results[n].date = date}

\* The state of a day says what was opened and reported on it.
Matches(d) ==
  /\ d.trades = Cardinality(On(d.date))
  /\ d.losses = LossesInARow(Of(d.date))
  /\ d.pnl = Total(Of(d.date))

\* A trade was opened after its alert was cleared, for good.
OpenedOnce ==
  \A a \in DOMAIN openedOn : a \in DOMAIN stage /\ stage[a] \notin {"alerted", "cleared"}

\* Whoever still waits for the gate has a cooldown, that of the alert.
Cooling ==
  \A a \in DOMAIN stage : stage[a] = "alerted" =>
    /\ a \in DOMAIN alertCooldowns
    /\ alertCooldowns[a] = alerts[a].createdAt + CooldownAfterAlert

\* Nothing was opened or reported after the day of the guardrails.
Dated ==
  /\ day \in DayRecords /\ day.date <= Date
  /\ results \in Seq(ResultSet) /\ \A n \in DOMAIN results : results[n].date <= day.date
  /\ IsFiniteSet(DOMAIN openedOn)
  /\ \A a \in DOMAIN openedOn : openedOn[a] \in Nat /\ openedOn[a] <= day.date

Gate == Dated /\ OpenedOnce /\ Cooling /\ Matches(day)

GateInv == Typed /\ restarts \in Nat /\ (restarts = 0 => Gate)

\* Without results there is neither a row nor a total.
LEMMA NothingCounts == LossesInARow({}) = 0 /\ Total({}) = 0
<1>1. LossesInARow({}) = 0
  <2>1. {n \in {} : \A k \in {} : k >= n => results[k].result < 0} = {}  OBVIOUS
  <2> QED BY <2>1, FS_EmptySet DEF LossesInARow
<1>2. Total({}) = 0
  <2> DEFINE f == [n \in {} |-> results[n].result]
  <2>1. DOMAIN f = {}  OBVIOUS
  <2> HIDE DEF f
  <2>2. SumFunction(f) = 0  BY <2>1, SumFunctionEmpty
  <2> QED BY <2>2 DEF Total, f
<1> QED BY <1>1, <1>2

\* Of a later day nothing is on record.
LEMMA LaterIsEmpty ==
  ASSUME Dated, NEW date \in Nat, day.date < date
  PROVE  /\ Cardinality(On(date)) = 0
         /\ LossesInARow(Of(date)) = 0 /\ Total(Of(date)) = 0
<1>1. day.date \in Nat  BY DEF Dated, DayRecords
<1>2. On(date) = {}  BY <1>1 DEF On, Dated
<1>3. Of(date) = {}
  <2>1. \A n \in DOMAIN results : results[n].date \in Nat
    <3>1. \A n \in DOMAIN results : results[n] \in ResultSet  BY DEF Dated
    <3> QED BY <3>1 DEF ResultSet
  <2> QED BY <1>1, <2>1 DEF Of, Dated
<1> QED BY <1>2, <1>3, NothingCounts, FS_EmptySet

\* The state the gate judges by is that of the day of the clock.
LEMMA NowMatches ==
  ASSUME Dated, Matches(day), time \in Nat
  PROVE  /\ DayNow \in DayRecords /\ DayNow.date = Date /\ day.date <= DayNow.date
         /\ Matches(DayNow)
<1>1. Date \in Nat /\ day.date \in Nat /\ day.date <= Date
  BY DateIsNat DEF Dated, DayRecords
<1>2. CASE day.date = Date
  <2>1. DayNow = day  BY <1>2 DEF DayNow
  <2> QED BY <1>1, <1>2, <2>1 DEF Dated
<1>3. CASE day.date # Date
  <2>1. DayNow = NewDay  BY <1>3 DEF DayNow
  <2>2. /\ NewDay.trades = 0 /\ NewDay.losses = 0 /\ NewDay.pnl = 0 /\ NewDay.date = Date
        /\ NewDay \in DayRecords
    BY <1>1 DEF NewDay, DayRecords
  <2>3. day.date < Date  BY <1>1, <1>3
  <2>4. /\ Cardinality(On(Date)) = 0
        /\ LossesInARow(Of(Date)) = 0 /\ Total(Of(Date)) = 0
    BY <1>1, <2>3, LaterIsEmpty
  <2>5. Matches(NewDay)  BY <2>2, <2>4 DEF Matches
  <2> QED BY <1>1, <2>1, <2>2, <2>5
<1> QED BY <1>2, <1>3

\* A step that at most rolls the day.
LEMMA RollKeepsGate ==
  ASSUME Dated, Matches(day), time \in Nat, results' = results, openedOn' = openedOn,
         \/ day' = day /\ (time' = time \/ time' = time + 1)
         \/ day' = DayNow /\ time' = time
  PROVE  Dated' /\ Matches(day)'
<1>1. Date \in Nat /\ Date' \in Nat /\ Date <= Date'
  BY DatesGrow, DateIsNat, GuardrailAssumption DEF Date
<1>2. \A d : On(d)' = On(d) /\ Of(d)' = Of(d)  BY DEF On, Of
<1>3. \A ns : LossesInARow(ns)' = LossesInARow(ns) /\ Total(ns)' = Total(ns)
  BY DEF LossesInARow, Total
<1>4. CASE day' = day
  <2>1. Dated'  BY <1>1, <1>4 DEF Dated, DayRecords
  <2>2. Matches(day)'  BY <1>2, <1>3, <1>4 DEF Matches
  <2> QED BY <2>1, <2>2
<1>5. CASE day' = DayNow /\ time' = time
  <2>1. /\ DayNow \in DayRecords /\ DayNow.date = Date /\ day.date <= DayNow.date
        /\ Matches(DayNow)
    BY NowMatches
  <2>2. Date' = Date  BY <1>5 DEF Date
  <2>3. day.date \in Nat  BY DEF Dated, DayRecords
  <2>4. \A n \in DOMAIN results : results[n].date \in Nat
    <3>1. \A n \in DOMAIN results : results[n] \in ResultSet  BY DEF Dated
    <3> QED BY <3>1 DEF ResultSet
  <2>5. day'.date = Date /\ day' \in DayRecords  BY <1>5, <2>1
  <2>6. Dated'
    <3>1. \A n \in DOMAIN results : results[n].date <= Date
      BY <1>1, <2>1, <2>3, <2>4 DEF Dated
    <3>2. \A a \in DOMAIN openedOn : openedOn[a] \in Nat /\ openedOn[a] <= Date
      BY <1>1, <2>1, <2>3 DEF Dated
    <3> QED BY <1>1, <2>2, <2>5, <3>1, <3>2 DEF Dated
  <2>7. Matches(day)'  BY <1>2, <1>3, <1>5, <2>1 DEF Matches
  <2> QED BY <2>6, <2>7
<1> QED BY <1>4, <1>5

\* A trade is opened once, and counted on the day of the clock.
LEMMA OpeningKeepsGate ==
  ASSUME Gate, Typed, NEW a, OpenTrade(a) PROVE Gate'
<1>1. /\ time' = time /\ results' = results /\ alerts' = alerts
      /\ alertCooldowns' = alertCooldowns
      /\ day' = [DayNow EXCEPT !.trades = @ + 1]
      /\ openedOn' = Put(openedOn, a, Date)
      /\ a \in DOMAIN stage /\ stage[a] = "cleared"
      /\ stage' = [stage EXCEPT ![a] = "opened"]
  BY DEF OpenTrade, RecordTradeOpened, At, Calls, engineVars
<1>2. time \in Nat  BY DEF Typed
<1>3. Date' = Date /\ Date \in Nat  BY <1>1, <1>2, DateIsNat DEF Date
<1>4. /\ DayNow \in DayRecords /\ DayNow.date = Date /\ day.date <= DayNow.date
      /\ Matches(DayNow)
  BY <1>2, NowMatches DEF Gate
<1>5. a \notin DOMAIN openedOn  BY <1>1 DEF Gate, OpenedOnce
<1>6. /\ DOMAIN openedOn' = DOMAIN openedOn \cup {a} /\ openedOn'[a] = Date
      /\ \A b \in DOMAIN openedOn : openedOn'[b] = openedOn[b]
  BY <1>1, <1>5 DEF Put
<1>7. /\ day' \in DayRecords /\ day'.date = Date /\ day'.trades = DayNow.trades + 1
      /\ day'.losses = DayNow.losses /\ day'.pnl = DayNow.pnl
  BY <1>1, <1>4 DEF DayRecords
<1>8. Dated'
  <2>1. day.date \in Nat /\ IsFiniteSet(DOMAIN openedOn)  BY DEF Gate, Dated, DayRecords
  <2>2. IsFiniteSet(DOMAIN openedOn')  BY <1>6, <2>1, FS_AddElement
  <2>3. \A b \in DOMAIN openedOn' : openedOn'[b] \in Nat /\ openedOn'[b] <= Date
    BY <1>3, <1>4, <1>6, <2>1 DEF Gate, Dated
  <2>4. \A n \in DOMAIN results : results[n].date \in Nat
    <3>1. \A n \in DOMAIN results : results[n] \in ResultSet  BY DEF Gate, Dated
    <3> QED BY <3>1 DEF ResultSet
  <2>5. \A n \in DOMAIN results : results[n].date <= Date
    BY <1>3, <1>4, <2>1, <2>4 DEF Gate, Dated
  <2>6. results \in Seq(ResultSet)  BY DEF Gate, Dated
  <2> QED BY <1>1, <1>3, <1>7, <2>2, <2>3, <2>5, <2>6 DEF Dated
<1>9. Matches(day)'
  <2>1. \A d : Of(d)' = Of(d)  BY <1>1 DEF Of
  <2>2. \A ns : LossesInARow(ns)' = LossesInARow(ns) /\ Total(ns)' = Total(ns)
    BY <1>1 DEF LossesInARow, Total
  <2>3. On(Date)' = On(Date) \cup {a} /\ a \notin On(Date)
    BY <1>3, <1>5, <1>6 DEF On
  <2>4. IsFiniteSet(On(Date)) /\ Cardinality(On(Date)) \in Nat
    BY OnIsSmall DEF Gate, Dated
  <2>5. Cardinality(On(Date) \cup {a}) = Cardinality(On(Date)) + 1
    BY <2>3, <2>4, FS_AddElement
  <2>6. /\ day'.trades = Cardinality(On(Date) \cup {a})
        /\ day'.losses = LossesInARow(Of(Date)) /\ day'.pnl = Total(Of(Date))
    BY <1>4, <1>7, <2>5 DEF Matches
  <2>7. /\ Cardinality(On(day.date))' = Cardinality(On(Date) \cup {a})
        /\ LossesInARow(Of(day.date))' = LossesInARow(Of(Date))
        /\ Total(Of(day.date))' = Total(Of(Date))
    BY <1>3, <1>7, <2>1, <2>2, <2>3
  <2> QED BY <2>6, <2>7 DEF Matches
<1>10. OpenedOnce'  BY <1>1, <1>6 DEF Gate, OpenedOnce
<1>11. Cooling'  BY <1>1 DEF Gate, Cooling
<1> QED BY <1>8, <1>9, <1>10, <1>11 DEF Gate

\* A result is added to the total, and to the row of losses or ends it.
LEMMA ResultCounts ==
  ASSUME NEW r \in Int, Date \in Nat, results \in Seq(ResultSet),
         results' = Append(results, [result |-> r, date |-> Date]),
         NEW L \in Nat, Len(results) = L, NEW ns \in SUBSET (1..L),
         \A n \in ns : results[n].result \in Int
  PROVE  /\ Total(ns \cup {L + 1})' = Total(ns) + r
         /\ LossesInARow(ns \cup {L + 1})'
              = IF r < 0 THEN LossesInARow(ns) + 1 ELSE 0
<1> DEFINE ms == ns \cup {L + 1}
<1>1. IsFiniteSet(ns) /\ L + 1 \notin ns
  <2>1. IsFiniteSet(1..L)  BY FS_Interval
  <2>2. L + 1 \notin 1..L  OBVIOUS
  <2> QED BY <2>1, <2>2, FS_Subset
<1>2. /\ \A n \in ns : results'[n].result = results[n].result
      /\ results'[L + 1].result = r
  <2>1. \A n \in 1..L : results'[n] = results[n]  OBVIOUS
  <2>2. results'[L + 1] = [result |-> r, date |-> Date]  OBVIOUS
  <2> QED BY <2>1, <2>2
<1>3. Total(ms)' = Total(ns) + r
  <2> DEFINE g == [n \in ns |-> results[n].result]
             h == [n \in ms |-> results'[n].result]
  <2>1. Summable(g)  BY <1>1, <1>2 DEF Summable
  <2>2. /\ DOMAIN h = DOMAIN g \cup {L + 1} /\ L + 1 \notin DOMAIN g /\ h[L + 1] = r
        /\ \A n \in DOMAIN g : h[n] = g[n]
    BY <1>1, <1>2
  <2>3. Total(ns) = SumFunction(g) /\ Total(ms)' = SumFunction(h)  BY DEF Total
  <2> HIDE DEF g, h
  <2>4. SumFunction(h) = SumFunction(g) + r  BY <2>1, <2>2, SumFunctionExtended
  <2> QED BY <2>3, <2>4
<1> DEFINE row == {n \in ns : \A k \in ns : k >= n => results[k].result < 0}
           after == {n \in ms : \A k \in ms : k >= n => results'[k].result < 0}
<1>4. LossesInARow(ns) = Cardinality(row) /\ LossesInARow(ms)' = Cardinality(after)
  BY DEF LossesInARow
<1>5. IsFiniteSet(row) /\ Cardinality(row) \in Nat /\ L + 1 \notin row
  BY <1>1, FS_Subset, FS_CardinalityType
<1>6. ASSUME r < 0 PROVE after = row \cup {L + 1}
  <2>1. \A n \in ns : n \in after <=> n \in row
    <3> TAKE n \in ns
    <3>1. n \in 1..L /\ L + 1 >= n  OBVIOUS
    <3>2. \A k \in ns : results'[k].result = results[k].result  BY <1>2
    <3> QED BY <1>2, <1>6, <3>1, <3>2
  <2>2. L + 1 \in after
    <3>1. \A k \in ns : ~(k >= L + 1)  OBVIOUS
    <3> QED BY <1>2, <1>6, <3>1
  <2>3. after \subseteq ns \cup {L + 1} /\ row \subseteq ns  OBVIOUS
  <2> HIDE DEF after, row
  <2> QED BY <2>1, <2>2, <2>3
<1>7. ASSUME r >= 0 PROVE after = {}
  <2> SUFFICES ASSUME NEW n \in after PROVE FALSE  OBVIOUS
  <2>1. n \in ms /\ (L + 1 >= n => results'[L + 1].result < 0)  OBVIOUS
  <2>2. L + 1 >= n  BY <2>1
  <2> QED BY <1>2, <1>7, <2>1, <2>2
<1> HIDE DEF row, after
<1>8. LossesInARow(ms)' = IF r < 0 THEN LossesInARow(ns) + 1 ELSE 0
  <2>1. CASE r < 0
    <3>1. Cardinality(row \cup {L + 1}) = Cardinality(row) + 1  BY <1>5, FS_AddElement
    <3> QED BY <1>4, <1>6, <2>1, <3>1
  <2>2. CASE ~(r < 0)
    <3>1. r >= 0  BY <2>2
    <3> QED BY <1>4, <1>7, <2>2, <3>1, FS_EmptySet
  <2> QED BY <2>1, <2>2
<1> QED BY <1>3, <1>8

\* A result is reported on the day of the clock.
LEMMA ReportKeepsGate ==
  ASSUME Gate, Typed, NEW a, ReportResult(a) PROVE Gate'
<1> PICK r, L, ns : r = resultOf[a] /\ L = Len(results) /\ ns = Of(Date)  OBVIOUS
<1>1. /\ time' = time /\ openedOn' = openedOn /\ alerts' = alerts
      /\ results' = Append(results, [result |-> r, date |-> Date])
      /\ day' = [DayNow EXCEPT !.pnl = @ + r, !.losses = IF r < 0 THEN @ + 1 ELSE 0]
      /\ alertCooldowns' = Restrict(alertCooldowns, DOMAIN alertCooldowns \ {a})
      /\ a \in DOMAIN stage /\ stage[a] = "settled"
      /\ stage' = [stage EXCEPT ![a] = "done"]
  BY DEF ReportResult, RecordTradeResult, At, Calls, engineVars
<1>2. time \in Nat /\ r \in Int  BY <1>1 DEF Typed
<1>3. Date' = Date /\ Date \in Nat  BY <1>1, <1>2, DateIsNat DEF Date
<1>4. /\ DayNow \in DayRecords /\ DayNow.date = Date /\ day.date <= DayNow.date
      /\ Matches(DayNow)
  BY <1>2, NowMatches DEF Gate
<1>5. /\ day' \in DayRecords /\ day'.date = Date /\ day'.trades = DayNow.trades
      /\ day'.pnl = DayNow.pnl + r
      /\ day'.losses = IF r < 0 THEN DayNow.losses + 1 ELSE 0
  <2> DEFINE x == DayNow.pnl + r  y == IF r < 0 THEN DayNow.losses + 1 ELSE 0
  <2>1. day' = [DayNow EXCEPT !.pnl = x, !.losses = y]  BY <1>1
  <2>2. x \in Int /\ y \in Nat  BY <1>2, <1>4 DEF DayRecords
  <2> HIDE DEF x, y
  <2>3. /\ day' \in DayRecords /\ day'.date = Date /\ day'.trades = DayNow.trades
        /\ day'.pnl = x /\ day'.losses = y
    BY <1>4, <2>1, <2>2 DEF DayRecords
  <2> QED BY <2>3 DEF x, y
<1>6. /\ results \in Seq(ResultSet) /\ L \in Nat /\ day.date \in Nat
      /\ \A n \in DOMAIN results : results[n].date <= day.date
      /\ \A n \in DOMAIN results : results[n].date \in Nat /\ results[n].result \in Int
  <2>1. results \in Seq(ResultSet) /\ \A n \in DOMAIN results : results[n] \in ResultSet
    BY DEF Gate, Dated
  <2> QED BY <2>1 DEF Gate, Dated, DayRecords, ResultSet
<1>7. /\ results' \in Seq(ResultSet) /\ Len(results') = L + 1
      /\ \A n \in DOMAIN results : results'[n] = results[n]
      /\ results'[L + 1].date = Date
  BY <1>1, <1>2, <1>3, <1>6 DEF ResultSet
<1>8. DOMAIN results = 1..L /\ DOMAIN results' = 1..L \cup {L + 1}
  BY <1>6, <1>7
<1>9. Dated'
  <2>1. \A n \in DOMAIN results' : results'[n].date <= Date
    BY <1>3, <1>4, <1>6, <1>7, <1>8
  <2>2. \A b \in DOMAIN openedOn : openedOn[b] \in Nat /\ openedOn[b] <= Date
    BY <1>3, <1>4, <1>6 DEF Gate, Dated
  <2>3. IsFiniteSet(DOMAIN openedOn)  BY DEF Gate, Dated
  <2> QED BY <1>1, <1>3, <1>5, <1>7, <2>1, <2>2, <2>3 DEF Dated
<1>10. Of(Date)' = ns \cup {L + 1}
  BY <1>3, <1>7, <1>8 DEF Of
<1>11. /\ Total(ns \cup {L + 1})' = Total(ns) + r
       /\ LossesInARow(ns \cup {L + 1})' = IF r < 0 THEN LossesInARow(ns) + 1 ELSE 0
  <2>1. ns \in SUBSET (1..L)  BY <1>8 DEF Of
  <2>2. \A n \in ns : results[n].result \in Int  BY <1>6, <1>8, <2>1
  <2> QED BY <1>1, <1>2, <1>3, <1>6, <2>1, <2>2, ResultCounts
<1>12. Matches(day)'
  <2>1. \A d : On(d)' = On(d)  BY <1>1 DEF On
  <2>2. /\ DayNow.trades = Cardinality(On(Date))
        /\ DayNow.losses = LossesInARow(ns) /\ DayNow.pnl = Total(ns)
    BY <1>4 DEF Matches
  <2>3. /\ Cardinality(On(day.date))' = Cardinality(On(Date))
        /\ LossesInARow(Of(day.date))' = LossesInARow(ns \cup {L + 1})'
        /\ Total(Of(day.date))' = Total(ns \cup {L + 1})'
    BY <1>3, <1>5, <1>10, <2>1
  <2> QED BY <1>5, <1>11, <2>2, <2>3 DEF Matches
<1>13. OpenedOnce'  BY <1>1 DEF Gate, OpenedOnce
<1>14. Cooling'
  <2>1. \A b \in DOMAIN stage' : stage'[b] = "alerted" =>
          b # a /\ b \in DOMAIN stage /\ stage[b] = "alerted"
    BY <1>1
  <2>2. \A b \in DOMAIN alertCooldowns : b # a =>
          b \in DOMAIN alertCooldowns' /\ alertCooldowns'[b] = alertCooldowns[b]
    BY <1>1 DEF Restrict
  <2> QED BY <1>1, <2>1, <2>2 DEF Gate, Cooling
<1> QED BY <1>9, <1>12, <1>13, <1>14 DEF Gate

\* A scan gives its alerts names that nobody has and their cooldown.
LEMMA ScanKeepsGate ==
  ASSUME Gate, Typed, NEW found \in [ToSet(Symbols) -> Findings], Scan(found) PROVE Gate'
<1> DEFINE new == Emitted(found)
           names == Len(alerts) + 1 .. Len(alerts) + Len(new)
<1>1. Joined(new)  BY ScanJoins
<1>2. /\ time' = time /\ day' = DayNow /\ results' = results /\ openedOn' = openedOn
      /\ alertCooldowns' = [a \in DOMAIN alertCooldowns \cup names |->
                              IF a \in names THEN time + CooldownAfterAlert
                              ELSE alertCooldowns[a]]
      /\ stage' = [a \in DOMAIN stage \cup names |-> IF a \in names THEN "alerted" ELSE stage[a]]
  BY DEF Scan, RegisterAlertsReceived, history
<1>3. \A a \in DOMAIN alerts : a \notin names
  <2>1. \A a \in DOMAIN alerts : a \in Int /\ a <= Len(alerts)
    BY <1>1 DEF Joined, Typed
  <2>2. Len(alerts) \in Nat  BY DEF Typed
  <2> QED BY <2>1, <2>2
<1>4. \A a \in names : alerts'[a].createdAt = time
  BY <1>1 DEF Joined, NewAlerts
<1>5. \A a \in DOMAIN alerts : alerts'[a] = alerts[a]  BY <1>1 DEF Joined
<1>6. DOMAIN stage = DOMAIN alerts  BY DEF Typed
<1> HIDE DEF names, new
<1>7. Dated' /\ Matches(day)'
  <2>1. time \in Nat  BY DEF Typed
  <2> QED BY <1>2, <2>1, RollKeepsGate DEF Gate
<1>8. OpenedOnce'  BY <1>2, <1>3, <1>6 DEF Gate, OpenedOnce
<1>9. Cooling'
  <2> SUFFICES ASSUME NEW a \in DOMAIN stage', stage'[a] = "alerted"
               PROVE  /\ a \in DOMAIN alertCooldowns'
                      /\ alertCooldowns'[a] = alerts'[a].createdAt + CooldownAfterAlert
    BY DEF Cooling
  <2>1. CASE a \in names  BY <1>2, <1>4, <2>1
  <2>2. CASE a \notin names
    <3>1. a \in DOMAIN stage /\ stage[a] = "alerted"  BY <1>2, <2>2
    <3>2. /\ a \in DOMAIN alertCooldowns
          /\ alertCooldowns[a] = alerts[a].createdAt + CooldownAfterAlert
      BY <3>1 DEF Gate, Cooling
    <3>3. a \in DOMAIN alertCooldowns' /\ alertCooldowns'[a] = alertCooldowns[a]
      BY <1>2, <2>2, <3>2
    <3> QED BY <1>5, <1>6, <3>1, <3>2, <3>3
  <2> QED BY <2>1, <2>2
<1> QED BY <1>7, <1>8, <1>9 DEF Gate

\* A step that opens, reports and finds nothing.
LEMMA CallKeepsGate ==
  ASSUME Gate, Typed, results' = results, openedOn' = openedOn, alerts' = alerts,
         alertCooldowns' = alertCooldowns,
         \/ day' = day /\ (time' = time \/ time' = time + 1)
         \/ day' = DayNow /\ time' = time,
         \/ stage' = stage
         \/ \E a, old, call : /\ At(a, old) /\ Calls(a, call) /\ call # "alerted"
                              /\ call = "cleared" => old = "alerted"
  PROVE  Gate'
<1>1. Dated' /\ Matches(day)'
  <2>1. time \in Nat  BY DEF Typed
  <2> QED BY <2>1, RollKeepsGate DEF Gate
<1>2. /\ DOMAIN stage' = DOMAIN stage
      /\ \A a \in DOMAIN stage : /\ stage'[a] = "alerted" => stage[a] = "alerted"
                                 /\ stage'[a] = "cleared" => stage[a] \in {"alerted", "cleared"}
  BY DEF At, Calls
<1>3. OpenedOnce'  BY <1>2 DEF Gate, OpenedOnce
<1>4. Cooling'  BY <1>2 DEF Gate, Cooling
<1> QED BY <1>1, <1>3, <1>4 DEF Gate

\* The steps of the scanner together.
LEMMA NextKeepsGate == GateInv /\ [Next]_scannerVars => GateInv'
<1> SUFFICES ASSUME GateInv, [Next]_scannerVars PROVE GateInv'  OBVIOUS
<1>1. Typed /\ Typed' /\ restarts \in Nat  BY NextKeepsTypes DEF GateInv
<1>2. CASE Restart
  <2>1. restarts' = restarts + 1  BY <1>2 DEF Restart
  <2> QED BY <1>1, <2>1 DEF GateInv
<1>3. CASE ~Restart
  <2>1. restarts' = restarts
    BY <1>3 DEF Next, Scan, NoScan, CheckPreTrade, Decline, OpenTrade, RegisterTrade,
                RecordOutcome, ReportResult, HaltOrResume, Tick, scannerVars
  <2> SUFFICES ASSUME Gate PROVE Gate'  BY <1>1, <2>1 DEF GateInv
  <2> USE <1>1 DEF history, engineVars, traderVars, guardVars
  <2>2. CASE \E found \in [ToSet(Symbols) -> Findings] : Scan(found)
    BY <2>2, ScanKeepsGate
  <2>3. CASE NoScan  BY <2>3, CallKeepsGate DEF NoScan, ReadDay
  <2>4. CASE \E a \in Alerts : CheckPreTrade(a)
    <3>1. PICK a \in Alerts : CheckPreTrade(a)  BY <2>4
    <3>2. /\ results' = results /\ openedOn' = openedOn /\ alerts' = alerts
          /\ alertCooldowns' = alertCooldowns /\ day' = DayNow /\ time' = time
          /\ stage' = stage \/ (At(a, "alerted") /\ Calls(a, "cleared"))
      BY <3>1 DEF CheckPreTrade, ReadDay
    <3> QED BY <3>2, CallKeepsGate
  <2>5. CASE \E a \in Alerts : Decline(a)
    <3>1. PICK a \in Alerts : Decline(a)  BY <2>5
    <3>2. /\ results' = results /\ openedOn' = openedOn /\ alerts' = alerts
          /\ alertCooldowns' = alertCooldowns /\ day' = day /\ time' = time
          /\ At(a, "cleared") /\ Calls(a, "done")
      BY <3>1 DEF Decline
    <3> QED BY <3>2, CallKeepsGate
  <2>6. CASE \E a \in Alerts : OpenTrade(a)  BY <2>6, OpeningKeepsGate
  <2>7. CASE \E a \in Alerts : RegisterTrade(a)
    <3>1. PICK a \in Alerts : RegisterTrade(a)  BY <2>7
    <3>2. /\ results' = results /\ openedOn' = openedOn /\ alerts' = alerts
          /\ alertCooldowns' = alertCooldowns /\ day' = day /\ time' = time
          /\ At(a, "opened") /\ Calls(a, "monitored")
      BY <3>1 DEF RegisterTrade
    <3> QED BY <3>2, CallKeepsGate
  <2>8. CASE \E a \in Alerts : a \in DOMAIN alerts /\ RecordOutcome(a)
    <3>1. PICK a \in Alerts : RecordOutcome(a)  BY <2>8
    <3>2. /\ results' = results /\ openedOn' = openedOn /\ alerts' = alerts
          /\ alertCooldowns' = alertCooldowns /\ day' = day /\ time' = time
          /\ At(a, "monitored") /\ Calls(a, "settled")
      BY <3>1 DEF RecordOutcome
    <3> QED BY <3>2, CallKeepsGate
  <2>9. CASE \E a \in Alerts : ReportResult(a)  BY <2>9, ReportKeepsGate
  <2>10. CASE \E value \in BOOLEAN : HaltOrResume(value)
    BY <2>10, CallKeepsGate DEF HaltOrResume, SetHalted
  <2>11. CASE Tick  BY <2>11, CallKeepsGate DEF Tick
  <2>12. CASE UNCHANGED scannerVars  BY <2>12, CallKeepsGate DEF scannerVars
  <2> QED BY <1>3, <2>2, <2>3, <2>4, <2>5, <2>6, <2>7, <2>8, <2>9, <2>10, <2>11, <2>12 DEF Next
<1> QED BY <1>2, <1>3

\* The gate (CheckPreTrade, guardrails.go:94) answers by what was really opened
\* and reported on the day of the clock: for all limits, day lengths and orders
\* of calls it lets no alert pass when the day is beyond a limit, and refuses none
\* on a day that is within them and saw no stop.
THEOREM GateKeepsTheLimits == Spec => []GateKeepsLimits
<1>1. Init => GateInv
  <2> SUFFICES ASSUME Init PROVE GateInv  OBVIOUS
  <2>1. /\ time = 0 /\ day = NewDay /\ results = << >> /\ openedOn = << >> /\ stage = << >>
        /\ restarts = 0
    BY DEF Init, NewGuardrails
  <2>2. Date = 0
    <3>1. \A d \in Nat \ {0} : 0 \div d = 0  OBVIOUS
    <3> QED BY <2>1, <3>1, GuardrailAssumption DEF Date
  <2>3. DOMAIN openedOn = {} /\ DOMAIN stage = {} /\ DOMAIN results = {}
        /\ results \in Seq(ResultSet)
    BY <2>1
  <2>4. day = [trades |-> 0, losses |-> 0, pnl |-> 0, date |-> 0]  BY <2>1, <2>2 DEF NewDay
  <2>5. day \in DayRecords  BY <2>4 DEF DayRecords
  <2>6. Dated  BY <2>2, <2>3, <2>4, <2>5, FS_EmptySet DEF Dated
  <2>7. OpenedOnce /\ Cooling  BY <2>3 DEF OpenedOnce, Cooling
  <2>8. Matches(day)
    <3>1. On(0) = {} /\ Of(0) = {}  BY <2>3 DEF On, Of
    <3>2. LossesInARow({}) = 0 /\ Total({}) = 0  BY NothingCounts
    <3> QED BY <2>4, <3>1, <3>2, FS_EmptySet DEF Matches
  <2> QED BY <2>1, <2>6, <2>7, <2>8, InitTyped DEF GateInv, Gate
<1>2. GateInv => GateKeepsLimits
  <2> SUFFICES ASSUME GateInv, restarts = 0, NEW a \in DOMAIN stage, At(a, "alerted")
               PROVE  Allowed(a) <=> WithinLimits(a)
    BY DEF GateKeepsLimits
  <2>1. Gate /\ time \in Nat  BY DEF GateInv, Typed
  <2>2. DayNow.date = Date /\ Matches(DayNow)  BY <2>1, NowMatches DEF Gate
  <2>3. OpenedToday = On(Date) /\ ResultsToday = Of(Date)
    BY DEF OpenedToday, On, ResultsToday, Of
  <2>4. /\ DayNow.trades = Cardinality(OpenedToday)
        /\ DayNow.losses = LossesInARow(ResultsToday) /\ DayNow.pnl = Total(ResultsToday)
    BY <2>2, <2>3 DEF Matches
  <2>5. Waited(a) <=> time >= alerts[a].createdAt + CooldownAfterAlert
    BY <2>1 DEF Waited, Gate, Cooling, At
  <2> QED BY <2>4, <2>5, Zenon DEF Allowed, CanTrade, WithinLimits
<1> QED BY <1>1, <1>2, NextKeepsGate, PTL DEF Spec

-----------------------------------------------------------------------------
(* The history.                                                            *)

Trades == [alert : Alerts, outcome : {"SL_HIT", "TP_HIT", "MANUAL_CLOSE"}, date : Nat,
           counted : BOOLEAN]

\* Each trade of q is one of r, and those before it in q are before it in r.
Orders(q, r) ==
  \A j \in DOMAIN q : \E n \in DOMAIN r :
    /\ q[j] = r[n]
    /\ \A i \in 1 .. j - 1 : \E m \in 1 .. n - 1 : q[i] = r[m]

\* A part of what was recorded, in memory or on disk.
PartOf(q, r) == q \in Seq(Trades) /\ Len(q) <= MaxHistory /\ Orders(q, r)

\* Unless a save failed the file is not behind; unless something was lost the
\* history is the end of all that was recorded; and it always is a part of it.
HistoryInv ==
  /\ time \in Nat /\ unsaved \in BOOLEAN /\ lost \in BOOLEAN
  /\ diskFailures \in 0..MaxDiskFailures
  /\ outcomes \in Seq(Trades) /\ \A n \in DOMAIN outcomes : outcomes[n].date <= Date
  /\ PartOf(closedTrades, outcomes) /\ PartOf(historyFile, outcomes)
  /\ ~lost => closedTrades = Kept(outcomes)
  /\ ~lost /\ ~unsaved => historyFile = closedTrades
  /\ tradingDays = DaysOf(closedTrades)

\* What was dropped before need not be dropped again.
LEMMA KeptAgain ==
  ASSUME NEW S, NEW q \in Seq(S), NEW x \in S
  PROVE  Kept(Append(Kept(q), x)) = Kept(Append(q, x))
<1> DEFINE L == Len(q)  m == MaxHistory
           k == SubSeq(q, L - m + 1, L)
<1>1. L \in Nat /\ m \in Nat \ {0}  BY ScannerAssumption
<1>2. CASE L <= m
  <2>1. Kept(q) = q  BY <1>1, <1>2 DEF Kept
  <2> QED BY <2>1
<1>3. CASE L > m
  <2>1. Kept(q) = k  BY <1>1, <1>3 DEF Kept
  <2>2. /\ k \in Seq(S) /\ Len(k) = m
        /\ \A i \in 1..m : k[i] = q[L - m + i]
    <3>1. \A i \in L - m + 1 .. L : q[i] \in S  BY <1>1, <1>3
    <3>2. /\ SubSeq(q, L - m + 1, L) \in Seq(S)
          /\ Len(SubSeq(q, L - m + 1, L))
               = IF L - m + 1 <= L THEN L - (L - m + 1) + 1 ELSE 0
          /\ \A i \in 1 .. L - (L - m + 1) + 1 :
               SubSeq(q, L - m + 1, L)[i] = q[L - m + 1 + i - 1]
      BY <1>1, <3>1, SubSeqProperties
    <3> QED BY <1>1, <1>3, <3>2
  <2> HIDE DEF k
  <2> DEFINE a == Append(k, x)  b == Append(q, x)
             c == SubSeq(a, 2, m + 1)  d == SubSeq(b, L - m + 2, L + 1)
  <2>3. /\ a \in Seq(S) /\ Len(a) = m + 1
        /\ \A i \in 1..m : a[i] = k[i]
        /\ a[m + 1] = x
    BY <2>2, AppendProperties
  <2>4. /\ b \in Seq(S) /\ Len(b) = L + 1
        /\ \A i \in 1..L : b[i] = q[i]
        /\ b[L + 1] = x
    BY AppendProperties
  <2> HIDE DEF a, b
  <2>5. /\ c \in Seq(S) /\ Len(c) = m /\ \A i \in 1..m : c[i] = a[i + 1]
    <3>1. \A i \in 2 .. m + 1 : a[i] \in S  BY <1>1, <2>3
    <3>2. /\ SubSeq(a, 2, m + 1) \in Seq(S)
          /\ Len(SubSeq(a, 2, m + 1)) = IF 2 <= m + 1 THEN m + 1 - 2 + 1 ELSE 0
          /\ \A i \in 1 .. m + 1 - 2 + 1 : SubSeq(a, 2, m + 1)[i] = a[2 + i - 1]
      BY <1>1, <3>1, SubSeqProperties
    <3> QED BY <1>1, <3>2
  <2>6. /\ d \in Seq(S) /\ Len(d) = m /\ \A i \in 1..m : d[i] = b[L - m + 1 + i]
    <3>1. \A i \in L - m + 2 .. L + 1 : b[i] \in S  BY <1>1, <1>3, <2>4
    <3>2. /\ SubSeq(b, L - m + 2, L + 1) \in Seq(S)
          /\ Len(SubSeq(b, L - m + 2, L + 1))
               = IF L - m + 2 <= L + 1 THEN L + 1 - (L - m + 2) + 1 ELSE 0
          /\ \A i \in 1 .. L + 1 - (L - m + 2) + 1 :
               SubSeq(b, L - m + 2, L + 1)[i] = b[L - m + 2 + i - 1]
      BY <1>1, <1>3, <3>1, SubSeqProperties
    <3> QED BY <1>1, <1>3, <3>2
  <2>7. Kept(a) = c  BY <1>1, <2>3 DEF Kept
  <2>8. Kept(b) = d
    <3>1. Len(b) - MaxHistory + 1 = L - m + 2 /\ Len(b) > MaxHistory
      BY <1>1, <1>3, <2>4
    <3> QED BY <3>1, <2>4 DEF Kept
  <2> HIDE DEF c, d
  <2>9. \A i \in 1..m : c[i] = d[i]
    <3> TAKE i \in 1..m
    <3>1. CASE i = m  BY <1>1, <3>1, <2>3, <2>4, <2>5, <2>6
    <3>2. CASE i < m
      <4>1. i + 1 \in 1..m /\ L - m + i + 1 \in 1..L  BY <1>1, <1>3, <3>2
      <4>2. c[i] = k[i + 1]  BY <4>1, <2>3, <2>5
      <4>3. k[i + 1] = q[L - m + i + 1]  BY <1>1, <4>1, <2>2
      <4>4. d[i] = q[L - m + i + 1]  BY <1>1, <4>1, <2>4, <2>6
      <4> QED BY <4>2, <4>3, <4>4
    <3> QED BY <1>1, <3>1, <3>2
  <2>10. c = d  BY <2>5, <2>6, <2>9, SeqEqual
  <2> QED BY <2>1, <2>7, <2>8, <2>10 DEF a, b
<1> QED BY <1>1, <1>2, <1>3

\* Recorded trades have dates.
LEMMA OutcomesHaveDates ==
  ASSUME NEW q \in Seq(Trades) PROVE \A n \in DOMAIN q : q[n].date \in Nat
<1>1. \A n \in DOMAIN q : q[n] \in Trades  OBVIOUS
<1> QED BY <1>1 DEF Trades

\* What is kept of trades are trades.
LEMMA KeptTyped ==
  ASSUME NEW S, NEW q \in Seq(S)
  PROVE  Kept(q) \in Seq(S) /\ Len(Kept(q)) <= MaxHistory
<1> DEFINE L == Len(q)  m == MaxHistory  k == SubSeq(q, L - m + 1, L)
<1>1. L \in Nat /\ m \in Nat \ {0} /\ \A n \in 1..L : q[n] \in S  BY ScannerAssumption
<1>2. CASE L <= m  BY <1>1, <1>2 DEF Kept
<1>3. CASE L > m
  <2>1. Kept(q) = k  BY <1>1, <1>3 DEF Kept
  <2>2. \A i \in L - m + 1 .. L : q[i] \in S  BY <1>1, <1>3
  <2>3. k \in Seq(S) /\ Len(k) = IF L - m + 1 <= L THEN L - (L - m + 1) + 1 ELSE 0
    BY <1>1, <1>3, <2>2, SubSeqProperties
  <2> HIDE DEF k
  <2> QED BY <1>1, <1>3, <2>1, <2>3
<1> QED BY <1>1, <1>2, <1>3

\* Nothing and the end of a part are parts.
LEMMA NothingIsPart == ASSUME NEW r PROVE PartOf(<< >>, r)
<1>1. << >> \in Seq(Trades) /\ Len(<< >>) <= MaxHistory  BY ScannerAssumption
<1>2. Orders(<< >>, r)  BY DEF Orders
<1> QED BY <1>1, <1>2 DEF PartOf

LEMMA KeptInOrder ==
  ASSUME NEW S, NEW q \in Seq(S), NEW r, Orders(q, r) PROVE Orders(Kept(q), r)
<1> DEFINE L == Len(q)  m == MaxHistory  k == SubSeq(q, L - m + 1, L)
<1>1. L \in Nat /\ m \in Nat \ {0} /\ \A n \in 1..L : q[n] \in S  BY ScannerAssumption
<1>2. CASE L <= m  BY <1>1, <1>2 DEF Kept
<1>3. CASE L > m
  <2>1. Kept(q) = k  BY <1>1, <1>3 DEF Kept
  <2>2. \A i \in L - m + 1 .. L : q[i] \in S  BY <1>1, <1>3
  <2>3. /\ k \in Seq(S) /\ Len(k) = IF L - m + 1 <= L THEN L - (L - m + 1) + 1 ELSE 0
        /\ \A i \in 1 .. L - (L - m + 1) + 1 : k[i] = q[L - m + 1 + i - 1]
    BY <1>1, <1>3, <2>2, SubSeqProperties
  <2> HIDE DEF k
  <2>4. DOMAIN k = 1..m /\ \A i \in 1..m : k[i] = q[L - m + i]  BY <1>1, <1>3, <2>3
  <2>5. SUFFICES ASSUME NEW j \in 1..m
                 PROVE  \E n \in DOMAIN r :
                          /\ k[j] = r[n]
                          /\ \A i \in 1 .. j - 1 : \E o \in 1 .. n - 1 : k[i] = r[o]
    BY <2>1, <2>4 DEF Orders
  <2>6. L - m + j \in DOMAIN q  BY <1>1, <1>3
  <2>7. PICK n \in DOMAIN r :
          /\ q[L - m + j] = r[n]
          /\ \A i \in 1 .. (L - m + j) - 1 : \E o \in 1 .. n - 1 : q[i] = r[o]
    BY <2>6 DEF Orders
  <2>8. \A i \in 1 .. j - 1 : i \in 1..m /\ L - m + i \in 1 .. (L - m + j) - 1
    BY <1>1, <1>3
  <2>9. k[j] = r[n]  BY <2>4, <2>7
  <2>10. \A i \in 1 .. j - 1 : \E o \in 1 .. n - 1 : k[i] = r[o]
    BY <2>4, <2>7, <2>8
  <2> QED BY <2>9, <2>10
<1> QED BY <1>1, <1>2, <1>3

\* What was in order stays in order when more is recorded.
LEMMA OrderOutlivesAppend ==
  ASSUME NEW S, NEW q, NEW r \in Seq(S), NEW x \in S, Orders(q, r)
  PROVE  Orders(q, Append(r, x))
<1> DEFINE s == Append(r, x)
<1>1. DOMAIN r = 1..Len(r) /\ Len(r) \in Nat  OBVIOUS
<1>2. DOMAIN r \subseteq DOMAIN s /\ \A n \in DOMAIN r : s[n] = r[n]  BY <1>1
<1>3. \A n \in DOMAIN r : 1 .. n - 1 \subseteq DOMAIN r  BY <1>1
<1> HIDE DEF s
<1>4. SUFFICES ASSUME NEW j \in DOMAIN q
               PROVE  \E n \in DOMAIN s :
                        /\ q[j] = s[n]
                        /\ \A i \in 1 .. j - 1 : \E m \in 1 .. n - 1 : q[i] = s[m]
  BY DEF Orders, s
<1>5. PICK n \in DOMAIN r :
        /\ q[j] = r[n]
        /\ \A i \in 1 .. j - 1 : \E m \in 1 .. n - 1 : q[i] = r[m]
  BY DEF Orders
<1>6. \A i \in 1 .. j - 1 : \E m \in 1 .. n - 1 : q[i] = s[m]  BY <1>2, <1>3, <1>5
<1> QED BY <1>2, <1>5, <1>6

\* What is recorded last is last in the history.
LEMMA AppendInOrder ==
  ASSUME NEW S, NEW q \in Seq(S), NEW r \in Seq(S), NEW x \in S, Orders(q, r)
  PROVE  Orders(Append(q, x), Append(r, x))
<1> DEFINE t == Append(q, x)  s == Append(r, x)  K == Len(q)  R == Len(r)
<1>1. /\ K \in Nat /\ DOMAIN q = 1..K /\ DOMAIN t = 1 .. K + 1
      /\ t[K + 1] = x /\ \A n \in 1..K : t[n] = q[n]
  OBVIOUS
<1>2. /\ R \in Nat /\ DOMAIN r = 1..R /\ DOMAIN s = 1 .. R + 1
      /\ s[R + 1] = x /\ \A n \in 1..R : s[n] = r[n]
  OBVIOUS
<1>3. Orders(q, s)  BY OrderOutlivesAppend
<1> HIDE DEF t, s, K, R
<1>4. SUFFICES ASSUME NEW j \in DOMAIN t
               PROVE  \E n \in DOMAIN s :
                        /\ t[j] = s[n]
                        /\ \A i \in 1 .. j - 1 : \E m \in 1 .. n - 1 : t[i] = s[m]
  BY DEF Orders, t, s
<1>5. CASE j \in DOMAIN q
  <2>1. PICK n \in DOMAIN s :
          /\ q[j] = s[n]
          /\ \A i \in 1 .. j - 1 : \E m \in 1 .. n - 1 : q[i] = s[m]
    BY <1>3, <1>5 DEF Orders
  <2>2. t[j] = q[j] /\ \A i \in 1 .. j - 1 : t[i] = q[i]  BY <1>1, <1>5
  <2> QED BY <2>1, <2>2
<1>6. CASE j = K + 1
  <2>1. R + 1 \in DOMAIN s /\ t[j] = s[R + 1]  BY <1>1, <1>2, <1>6
  <2>2. ASSUME NEW i \in 1 .. j - 1 PROVE \E m \in 1 .. (R + 1) - 1 : t[i] = s[m]
    <3>1. i \in DOMAIN q /\ t[i] = q[i]  BY <1>1, <1>6
    <3>2. PICK m \in DOMAIN r : q[i] = r[m]  BY <3>1 DEF Orders
    <3>3. m \in 1 .. (R + 1) - 1 /\ s[m] = r[m]  BY <1>2
    <3> QED BY <3>1, <3>2, <3>3
  <2> QED BY <2>1, <2>2
<1> QED BY <1>1, <1>5, <1>6

\* A step that leaves the tracker alone.
LEMMA HistoryStays ==
  ASSUME HistoryInv, outcomes' = outcomes, closedTrades' = closedTrades,
         historyFile' = historyFile, tradingDays' = tradingDays, diskVars' = diskVars,
         time' = time \/ time' = time + 1
  PROVE  HistoryInv'
<1>1. Date \in Nat /\ Date' \in Nat /\ Date <= Date'
  BY DatesGrow, DateIsNat, GuardrailAssumption DEF HistoryInv, Date
<1>2. \A n \in DOMAIN outcomes : outcomes[n].date \in Nat
  BY OutcomesHaveDates DEF HistoryInv
<1>3. /\ time' \in Nat /\ unsaved' = unsaved /\ lost' = lost /\ diskFailures' = diskFailures
  BY DEF HistoryInv, diskVars
<1>4. \A n \in DOMAIN outcomes : outcomes[n].date <= Date'  BY <1>1, <1>2 DEF HistoryInv
<1> QED BY <1>3, <1>4 DEF HistoryInv, PartOf, Kept, DaysOf

\* One more failure of the disk is within the bound.
LEMMA FailureCounted ==
  ASSUME diskFailures \in 0..MaxDiskFailures, UNCHANGED diskFailures \/ DiskFails
  PROVE  diskFailures' \in 0..MaxDiskFailures
BY ScannerAssumption DEF DiskFails

\* An outcome is appended to the history and to the record of all outcomes,
\* whether the file is written or not.
LEMMA OutcomeKeepsHistory ==
  ASSUME HistoryInv, NEW a \in Alerts, RecordOutcome(a) PROVE HistoryInv'
<1> DEFINE exit  == MarketAt[time][alerts[a].symbol].price
           trade == [alert |-> a, outcome |-> DetermineOutcome(a, exit), date |-> Date,
                     counted |-> CountsForTradingDay(a, exit)]
<1>1. time' = time /\ lost' = lost  BY DEF RecordOutcome
<1>2. Date' = Date /\ Date \in Nat  BY <1>1, DateIsNat DEF Date, HistoryInv
<1>3. CASE a \notin openTrades
  BY <1>1, <1>3, HistoryStays DEF RecordOutcome, trackerVars, diskVars
<1>4. CASE a \in openTrades
  <2>1. trade \in Trades
    <3>1. DetermineOutcome(a, exit) \in {"SL_HIT", "TP_HIT", "MANUAL_CLOSE"}
      BY DEF DetermineOutcome
    <3>2. CountsForTradingDay(a, exit) \in BOOLEAN  BY DEF CountsForTradingDay
    <3> QED BY <1>2, <3>1, <3>2 DEF Trades
  <2>2. RecordsOutcome(trade) /\ outcomes' = Append(outcomes, trade)
    BY <1>4 DEF RecordOutcome
  <2>3. trade.date = Date  OBVIOUS
  <2> HIDE DEF trade
  <2>4. outcomes \in Seq(Trades) /\ outcomes' \in Seq(Trades)  BY <2>1, <2>2 DEF HistoryInv
  <2>5. \A n \in DOMAIN outcomes' : outcomes'[n].date <= Date
    BY <1>2, <2>1, <2>2, <2>3 DEF HistoryInv
  <2>6. closedTrades' = Kept(Append(closedTrades, trade))  BY <2>2 DEF RecordsOutcome
  <2>7. ~lost => closedTrades' = Kept(outcomes')
    BY <2>1, <2>2, <2>4, <2>6, KeptAgain DEF HistoryInv
  <2>8. PartOf(closedTrades', outcomes')
    <3>1. closedTrades \in Seq(Trades) /\ Orders(closedTrades, outcomes)
      BY DEF HistoryInv, PartOf
    <3>2. Append(closedTrades, trade) \in Seq(Trades)  BY <2>1, <3>1
    <3>3. Orders(Append(closedTrades, trade), outcomes')
      BY <2>1, <2>2, <2>4, <3>1, AppendInOrder
    <3>4. Orders(closedTrades', outcomes')  BY <2>6, <3>2, <3>3, KeptInOrder
    <3>5. closedTrades' \in Seq(Trades) /\ Len(closedTrades') <= MaxHistory
      BY <2>6, <3>2, KeptTyped
    <3> QED BY <3>4, <3>5 DEF PartOf
  <2>9. PartOf(historyFile, outcomes')
    <3>1. PartOf(historyFile, outcomes)  BY DEF HistoryInv
    <3>2. Orders(historyFile, outcomes')  BY <2>1, <2>2, <2>4, <3>1, OrderOutlivesAppend DEF PartOf
    <3> QED BY <3>1, <3>2 DEF PartOf
  <2>10. SaveHistory /\ tradingDays' = DaysOf(closedTrades')  BY <2>2 DEF RecordsOutcome
  <2>11. /\ historyFile' = closedTrades' \/ historyFile' = historyFile \/ historyFile' = << >>
         /\ unsaved' \in BOOLEAN /\ (~unsaved' => historyFile' = closedTrades')
         /\ UNCHANGED diskFailures \/ DiskFails
    BY <2>10 DEF SaveHistory
  <2>12. PartOf(historyFile', outcomes')  BY <2>8, <2>9, <2>11, NothingIsPart
  <2>13. diskFailures' \in 0..MaxDiskFailures  BY <2>11, FailureCounted DEF HistoryInv
  <2>14. time' \in Nat /\ lost' \in BOOLEAN  BY <1>1 DEF HistoryInv
  <2> QED BY <1>1, <1>2, <2>4, <2>5, <2>7, <2>8, <2>10, <2>11, <2>12, <2>13, <2>14
          DEF HistoryInv, Kept, DaysOf, PartOf
<1> QED BY <1>3, <1>4

\* A process that starts has what it could read.
LEMMA RestartKeepsHistory == ASSUME HistoryInv, Restart PROVE HistoryInv'
<1>1. /\ time' = time /\ outcomes' = outcomes /\ historyFile' = historyFile
      /\ LoadHistory
  BY DEF Restart
<1>2. Date' = Date  BY <1>1 DEF Date
<1>3. /\ \/ closedTrades' = historyFile /\ lost' = (lost \/ unsaved)
         \/ closedTrades' = << >> /\ lost' = TRUE
      /\ tradingDays' = DaysOf(closedTrades') /\ unsaved' = FALSE
      /\ UNCHANGED diskFailures \/ DiskFails
  BY <1>1 DEF LoadHistory
<1>4. lost' \in BOOLEAN /\ (~lost' => ~lost /\ ~unsaved /\ closedTrades' = historyFile)
  BY <1>3 DEF HistoryInv
<1>5. PartOf(closedTrades', outcomes)  BY <1>3, NothingIsPart DEF HistoryInv
<1>6. ~lost' => closedTrades' = Kept(outcomes) /\ historyFile = closedTrades'
  BY <1>4 DEF HistoryInv
<1>7. diskFailures' \in 0..MaxDiskFailures  BY <1>3, FailureCounted DEF HistoryInv
<1> QED BY <1>1, <1>2, <1>3, <1>4, <1>5, <1>6, <1>7 DEF HistoryInv, Kept, DaysOf, PartOf

\* The steps of the scanner together.
LEMMA NextKeepsHistory == HistoryInv /\ [Next]_scannerVars => HistoryInv'
<1> SUFFICES ASSUME HistoryInv, [Next]_scannerVars PROVE HistoryInv'  OBVIOUS
<1> USE DEF history, trackerVars, diskVars
<1>1. CASE \E found \in [ToSet(Symbols) -> Findings] : Scan(found)
  BY <1>1, HistoryStays DEF Scan
<1>2. CASE NoScan  BY <1>2, HistoryStays DEF NoScan
<1>3. CASE \E a \in Alerts : CheckPreTrade(a)  BY <1>3, HistoryStays DEF CheckPreTrade
<1>4. CASE \E a \in Alerts : Decline(a)  BY <1>4, HistoryStays DEF Decline
<1>5. CASE \E a \in Alerts : OpenTrade(a)  BY <1>5, HistoryStays DEF OpenTrade
<1>6. CASE \E a \in Alerts : RegisterTrade(a)  BY <1>6, HistoryStays DEF RegisterTrade
<1>7. CASE \E a \in Alerts : a \in DOMAIN alerts /\ RecordOutcome(a)
  BY <1>7, OutcomeKeepsHistory
<1>8. CASE \E a \in Alerts : ReportResult(a)  BY <1>8, HistoryStays DEF ReportResult
<1>9. CASE \E value \in BOOLEAN : HaltOrResume(value)
  BY <1>9, HistoryStays DEF HaltOrResume
<1>10. CASE Restart  BY <1>10, RestartKeepsHistory
<1>11. CASE Tick  BY <1>11, HistoryStays DEF Tick
<1>12. CASE UNCHANGED scannerVars  BY <1>12, HistoryStays DEF scannerVars
<1> QED BY <1>1, <1>2, <1>3, <1>4, <1>5, <1>6, <1>7, <1>8, <1>9, <1>10, <1>11, <1>12 DEF Next

\* Nothing is recorded at first.
LEMMA InitKeepsHistory == Init => HistoryInv
<1> SUFFICES ASSUME Init PROVE HistoryInv  OBVIOUS
<1>1. /\ time = 0 /\ outcomes = << >> /\ closedTrades = << >> /\ historyFile = << >>
      /\ tradingDays = 0 /\ unsaved = FALSE /\ lost = FALSE /\ diskFailures = 0
  BY DEF Init
<1>2. Kept(<< >>) = << >>  BY ScannerAssumption DEF Kept
<1>3. DaysOf(<< >>) = 0
  <2>1. {t.date : t \in {u \in ToSet(<< >>) : u.counted}} = {}  BY DEF ToSet
  <2> QED BY <2>1, FS_EmptySet DEF DaysOf
<1>4. PartOf(<< >>, << >>)  BY NothingIsPart
<1>5. 0 \in 0..MaxDiskFailures  BY ScannerAssumption
<1>6. outcomes \in Seq(Trades) /\ DOMAIN outcomes = {}  BY <1>1
<1>7. /\ PartOf(closedTrades, outcomes) /\ PartOf(historyFile, outcomes)
      /\ closedTrades = Kept(outcomes) /\ historyFile = closedTrades
      /\ tradingDays = DaysOf(closedTrades)
  BY <1>1, <1>2, <1>3, <1>4, Zenon
<1>8. /\ time \in Nat /\ unsaved \in BOOLEAN /\ lost \in BOOLEAN
      /\ diskFailures \in 0..MaxDiskFailures
  BY <1>1, <1>5
<1> QED BY <1>6, <1>7, <1>8 DEF HistoryInv

\* Each save writes all of the history (saveHistory, tracker.go:446), so what was
\* recorded is only lost to a process that starts after a save that failed, with
\* none that succeeded since, or that cannot read the file; and whatever the disk
\* does, the history is a part of what was recorded, in order, and counts no
\* trading day that was not.
THEOREM HistoryOutlivesRestarts == Spec => []HistorySurvives
<1>1. HistoryInv => HistorySurvives
  <2> SUFFICES ASSUME HistoryInv PROVE HistorySurvives  OBVIOUS
  <2> DEFINE days(q) == {t.date : t \in {u \in ToSet(q) : u.counted}}
  <2>1. Date \in Nat /\ \A n \in DOMAIN outcomes : outcomes[n].date \in 0..Date
    BY DateIsNat, OutcomesHaveDates DEF HistoryInv
  <2>2. days(outcomes) = CountedDates  BY <2>1 DEF ToSet, CountedDates
  <2>3. tradingDays = Cardinality(days(closedTrades))  BY DEF HistoryInv, DaysOf
  <2>4. ~lost /\ Len(outcomes) <= MaxHistory => closedTrades = outcomes
    BY ScannerAssumption DEF HistoryInv, Kept
  <2>5. InOrder(closedTrades)  BY DEF HistoryInv, PartOf, Orders, InOrder
  <2>6. days(closedTrades) \subseteq days(outcomes)
    <3>1. \A j \in DOMAIN closedTrades : \E n \in DOMAIN outcomes : closedTrades[j] = outcomes[n]
      BY <2>5 DEF InOrder
    <3>2. ToSet(closedTrades) \subseteq ToSet(outcomes)  BY <3>1 DEF ToSet
    <3> QED BY <3>2
  <2> HIDE DEF days
  <2>7. IsFiniteSet(CountedDates)
    <3>1. IsFiniteSet(0..Date)  BY <2>1, FS_Interval
    <3> QED BY <3>1, FS_Subset DEF CountedDates
  <2>8. tradingDays <= Cardinality(CountedDates)  BY <2>2, <2>3, <2>6, <2>7, FS_Subset
  <2>9. ~lost => closedTrades = Kept(outcomes)  BY DEF HistoryInv
  <2>10. ~lost /\ Len(outcomes) <= MaxHistory => tradingDays = Cardinality(CountedDates)
    BY <2>2, <2>3, <2>4
  <2> QED BY <2>5, <2>8, <2>9, <2>10 DEF HistorySurvives
<1> QED BY InitKeepsHistory, <1>1, NextKeepsHistory, PTL DEF Spec

-----------------------------------------------------------------------------
(* Outcomes.                                                               *)

\* The last of what is kept is what was appended.
LEMMA KeptLast ==
  ASSUME NEW S, NEW q \in Seq(S), NEW x \in S
  PROVE  Last(Kept(Append(q, x))) = x
<1> DEFINE r == Append(q, x)  L == Len(r)  m == MaxHistory
<1>1. m \in Nat \ {0} /\ r \in Seq(S) /\ L \in Nat \ {0} /\ r[L] = x
  BY ScannerAssumption
<1> SUFFICES Last(Kept(r)) = x  OBVIOUS
<1> HIDE DEF r
<1>2. CASE L <= m
  <2>1. Kept(r) = r  BY <1>1, <1>2 DEF Kept
  <2> QED BY <1>1, <2>1, Zenon DEF Last
<1>3. CASE L > m
  <2> DEFINE k == SubSeq(r, L - m + 1, L)
  <2>1. Kept(r) = k  BY <1>1, <1>3 DEF Kept
  <2>2. \A i \in L - m + 1 .. L : r[i] \in S  BY <1>1, <1>3
  <2>3. /\ Len(k) = IF L - m + 1 <= L THEN L - (L - m + 1) + 1 ELSE 0
        /\ \A i \in 1 .. L - (L - m + 1) + 1 : k[i] = r[L - m + 1 + i - 1]
    BY <1>1, <1>3, <2>2, SubSeqProperties
  <2> HIDE DEF k
  <2>4. Len(k) = m  BY <1>1, <1>3, <2>3
  <2>5. k[m] = r[L - m + 1 + m - 1]  BY <1>1, <1>3, <2>3
  <2>6. L - m + 1 + m - 1 = L  BY <1>1
  <2>7. Last(Kept(r)) = r[L]  BY <2>1, <2>4, <2>5, <2>6, Zenon DEF Last
  <2> QED BY <1>1, <2>7
<1> QED BY <1>1, <1>2, <1>3

\* A quotient has the sign of its dividend when that is no fraction of the
\* divisor.
LEMMA QuotientSigns ==
  ASSUME NEW g \in Int, NEW d \in Nat \ {0}
  PROVE  /\ g <= -d => (10 * g) \div d < 0
         /\ g >= d => (10 * g) \div d > 0
<1> DEFINE q == (10 * g) \div d
<1>1. /\ q \in Int /\ d * q <= 10 * g /\ 10 * g < d * q + d
  OBVIOUS
<1> HIDE DEF q
<1>2. ASSUME g <= -d PROVE q < 0
  <2> SUFFICES ASSUME q >= 0 PROVE FALSE  BY <1>1
  <2>1. d * q >= 0  BY <1>1
  <2>2. d * q \in Int  BY <1>1
  <2> QED BY <1>1, <1>2, <2>1, <2>2
<1>3. ASSUME g >= d PROVE q > 0
  <2> SUFFICES ASSUME q <= 0 PROVE FALSE  BY <1>1
  <2>1. d * q <= 0  BY <1>1
  <2>2. d * q \in Int  BY <1>1
  <2> QED BY <1>1, <1>3, <2>1, <2>2
<1> QED BY <1>2, <1>3 DEF q

\* What the recorded outcome says of a trade that was monitored.
LEMMA OutcomeTells ==
  ASSUME Typed, NEW a \in DOMAIN alerts, NEW exit \in Nat, a \in openTrades
  PROVE  /\ DetermineOutcome(a, exit) = "SL_HIT" => ResultInR(a, exit) < 0
         /\ DetermineOutcome(a, exit) = "TP_HIT" => ResultInR(a, exit) > 0
         /\ DetermineOutcome(a, exit) # "MANUAL_CLOSE"
              <=> a \in Triggered(alerts[a].symbol, exit)
<1> DEFINE risk == alerts[a].risk
           d == risk.distance  e == 10000 * risk.entry  x == 10000 * exit
           t == DefaultRR * d
           long == risk.direction = "LONG"
           stopped == IF long THEN x <= e - d ELSE x >= e + d
           reached == IF long THEN x >= e + t ELSE x <= e - t
<1>1. risk \in Plans
  <2>1. alerts[a] \in AlertSet  BY DEF Typed
  <2> QED BY <2>1 DEF AlertSet
<1>2. risk.entry \in Nat /\ d \in Nat \ {0} /\ risk.direction \in Directions
  BY <1>1 DEF Plans
<1>3. e \in Nat /\ x \in Nat /\ t \in Nat /\ t >= d
  <2>1. DefaultRR \in Nat \ {0}  BY SizingAssumption
  <2>2. d * 1 <= d * DefaultRR  BY <1>2, <2>1, ProductGrows
  <2> QED BY <1>2, <2>1, <2>2
<1>4. /\ StopLoss(risk) = IF long THEN e - d ELSE e + d
      /\ TakeProfit1(risk) = IF long THEN e + t ELSE e - t
  <2>1. (-1) * d = -d  BY <1>2
  <2>2. e + (-d) = e - d /\ e - (-d) = e + d  BY <1>2, <1>3
  <2> HIDE DEF d, e
  <2> QED BY <2>1, <2>2 DEF StopLoss, TakeProfit1, Away, d, e
<1>5. Gain(a, exit) = IF long THEN x - e ELSE e - x
  BY <1>2 DEF Gain
<1>6. ResultInR(a, exit) = (10 * Gain(a, exit)) \div d
  BY DEF ResultInR
<1>7. DetermineOutcome(a, exit)
        = CASE a \in openTrades /\ stopped -> "SL_HIT"
            [] a \in openTrades /\ ~stopped /\ reached -> "TP_HIT"
            [] OTHER -> "MANUAL_CLOSE"
  BY <1>4 DEF DetermineOutcome
<1>8. a \in Triggered(alerts[a].symbol, exit) <=> (stopped \/ reached)
  BY <1>4 DEF Triggered
<1> HIDE DEF d, e, x, t, risk
<1>9. (stopped => Gain(a, exit) <= -d) /\ (reached => Gain(a, exit) >= d)
  BY <1>2, <1>3, <1>5
<1>10. Gain(a, exit) \in Int  BY <1>2, <1>3, <1>5
<1>11. (stopped => ResultInR(a, exit) < 0) /\ (reached => ResultInR(a, exit) > 0)
  BY <1>2, <1>6, <1>9, <1>10, QuotientSigns
<1> HIDE DEF stopped, reached
<1> QED BY <1>7, <1>8, <1>11

\* A recorded stop lost and a recorded target gained, and the recorded outcome
\* agrees with what CheckPriceForOutcome says of the price (tracker.go:205 and
\* 245): the two compare the same levels, whichever direction.
THEOREM OutcomesTellWhatHappened == Spec => StopsLoseTargetsGain
<1> DEFINE Told == \A a \in openTrades \ openTrades' : restarts' = restarts =>
                     LET outcome == Last(closedTrades').outcome
                     IN  /\ outcome = "SL_HIT" => resultOf'[a] < 0
                         /\ outcome = "TP_HIT" => resultOf'[a] > 0
                         /\ outcome # "MANUAL_CLOSE" <=>
                              a \in Triggered(alerts[a].symbol,
                                              MarketAt[time][alerts[a].symbol].price)
<1> DEFINE Inv == Typed /\ HistoryInv /\ restarts \in Nat
<1>1. Inv /\ [Next]_scannerVars => [Told]_scannerVars
  <2> SUFFICES ASSUME Inv, Next,
                      NEW a \in openTrades \ openTrades', restarts' = restarts
               PROVE  LET outcome == Last(closedTrades').outcome
                      IN  /\ outcome = "SL_HIT" => resultOf'[a] < 0
                          /\ outcome = "TP_HIT" => resultOf'[a] > 0
                          /\ outcome # "MANUAL_CLOSE" <=>
                               a \in Triggered(alerts[a].symbol,
                                               MarketAt[time][alerts[a].symbol].price)
    OBVIOUS
  <2>1. \E b \in Alerts : b \in DOMAIN alerts /\ RecordOutcome(b)
    <3>1. \/ openTrades \subseteq openTrades'
          \/ Restart
          \/ \E b \in Alerts : b \in DOMAIN alerts /\ RecordOutcome(b)
      BY DEF Next, Scan, NoScan, CheckPreTrade, Decline, OpenTrade, RegisterTrade, ReportResult,
             HaltOrResume, Tick, trackerVars
    <3>2. Restart => restarts' = restarts + 1  BY DEF Restart
    <3>3. restarts' # restarts + 1  OBVIOUS
    <3> QED BY <3>1, <3>2, <3>3
  <2>2. PICK b \in Alerts : b \in DOMAIN alerts /\ RecordOutcome(b)  BY <2>1
  <2> DEFINE exit  == MarketAt[time][alerts[b].symbol].price
             trade == [alert |-> b, outcome |-> DetermineOutcome(b, exit), date |-> Date,
                       counted |-> CountsForTradingDay(b, exit)]
  <2>3. b \in openTrades /\ RecordsOutcome(trade)
    BY <2>2 DEF RecordOutcome, trackerVars
  <2>4. a = b  BY <2>3 DEF RecordsOutcome
  <2>5. exit \in Nat  BY <2>2, ExitTyped
  <2>6. trade \in Trades
    <3>1. DetermineOutcome(b, exit) \in {"SL_HIT", "TP_HIT", "MANUAL_CLOSE"}
      BY DEF DetermineOutcome
    <3>2. CountsForTradingDay(b, exit) \in BOOLEAN  BY DEF CountsForTradingDay
    <3>3. Date \in Nat  BY DateIsNat DEF HistoryInv
    <3> QED BY <3>1, <3>2, <3>3 DEF Trades
  <2>7. closedTrades' = Kept(Append(closedTrades, trade))
    BY <2>3 DEF RecordsOutcome
  <2>8. resultOf' = Put(resultOf, b, ResultInR(b, exit))
    BY <2>2 DEF RecordOutcome
  <2>9. trade.outcome = DetermineOutcome(b, exit)  OBVIOUS
  <2>10. resultOf'[b] = ResultInR(b, exit)  BY <2>8 DEF Put
  <2> HIDE DEF trade
  <2>11. Last(closedTrades') = trade
    <3>1. closedTrades \in Seq(Trades)  BY DEF HistoryInv, PartOf
    <3> QED BY <2>6, <2>7, <3>1, KeptLast
  <2>12. /\ DetermineOutcome(b, exit) = "SL_HIT" => ResultInR(b, exit) < 0
         /\ DetermineOutcome(b, exit) = "TP_HIT" => ResultInR(b, exit) > 0
         /\ DetermineOutcome(b, exit) # "MANUAL_CLOSE"
              <=> b \in Triggered(alerts[b].symbol, exit)
    BY <2>2, <2>3, <2>5, OutcomeTells
  <2> QED BY <2>4, <2>9, <2>10, <2>11, <2>12
<1>2. Init => Inv
  <2>1. Init => restarts \in Nat  BY DEF Init
  <2> QED BY <2>1, InitTyped, InitKeepsHistory
<1>3. Inv /\ [Next]_scannerVars => Inv'
  <2>1. restarts \in Nat /\ [Next]_scannerVars => restarts' \in Nat
    <3>1. [Next]_scannerVars => restarts' = restarts \/ Restart
      BY DEF Next, Scan, NoScan, CheckPreTrade, Decline, OpenTrade, RegisterTrade, RecordOutcome,
             ReportResult, HaltOrResume, Tick, scannerVars
    <3>2. Restart => restarts' = restarts + 1  BY DEF Restart
    <3> QED BY <3>1, <3>2
  <2> QED BY <2>1, NextKeepsTypes, NextKeepsHistory
<1> QED BY <1>1, <1>2, <1>3, PTL DEF Spec, StopsLoseTargetsGain

-----------------------------------------------------------------------------
(* Type correctness.                                                       *)

\* What types and history do not say of it.
Guarded ==
  /\ day \in DayRecords /\ day.date <= Date /\ halted \in BOOLEAN
  /\ DOMAIN alertCooldowns \subseteq DOMAIN alerts /\ DOMAIN openedAt \subseteq DOMAIN alerts
  /\ Len(alerts) <= MaxAlerts /\ restarts \in 0..MaxRestarts

TypeInv == Typed /\ HistoryInv /\ Guarded

\* The day is rolled to that of the clock.
LEMMA DayNowTyped ==
  ASSUME day \in DayRecords, day.date <= Date, time \in Nat
  PROVE  DayNow \in DayRecords /\ DayNow.date = Date
<1>1. Date \in Nat  BY DateIsNat
<1>2. NewDay \in DayRecords /\ NewDay.date = Date  BY <1>1 DEF NewDay, DayRecords
<1> QED BY <1>2 DEF DayNow

\* A step that leaves the guardrails alone but for the day.
LEMMA DayKeepsGuarded ==
  ASSUME Guarded, time \in Nat, alerts' = alerts, restarts' = restarts,
         halted' \in BOOLEAN, alertCooldowns' = alertCooldowns, openedAt' = openedAt,
         \/ day' = day /\ (time' = time \/ time' = time + 1)
         \/ day' = DayNow /\ time' = time
  PROVE  Guarded'
<1>1. Date \in Nat /\ Date' \in Nat /\ Date <= Date'
  BY DatesGrow, DateIsNat, GuardrailAssumption DEF Date
<1>2. day \in DayRecords /\ day.date <= Date /\ day.date \in Nat
  BY DEF Guarded, DayRecords
<1>3. day' \in DayRecords /\ day'.date <= Date'
  <2>1. CASE day' = day  BY <1>1, <1>2, <2>1
  <2>2. CASE day' = DayNow /\ time' = time
    <3>1. Date' = Date  BY <2>2 DEF Date
    <3> QED BY <1>1, <1>2, <2>2, <3>1, DayNowTyped
  <2> QED BY <2>1, <2>2
<1> QED BY <1>3 DEF Guarded

LEMMA ScanKeepsGuarded ==
  ASSUME Guarded, Typed, NEW found \in [ToSet(Symbols) -> Findings], Scan(found)
  PROVE  Guarded'
<1> DEFINE new == Emitted(found)
           names == Len(alerts) + 1 .. Len(alerts) + Len(new)
<1>1. Joined(new)  BY ScanJoins
<1>2. /\ time' = time /\ day' = DayNow /\ halted' = halted /\ openedAt' = openedAt
      /\ restarts' = restarts /\ Len(alerts) + Len(new) <= MaxAlerts
      /\ DOMAIN alertCooldowns' = DOMAIN alertCooldowns \cup names
  BY DEF Scan, RegisterAlertsReceived
<1>3. DOMAIN alerts' = DOMAIN alerts \cup names /\ Len(alerts') = Len(alerts) + Len(new)
  BY <1>1 DEF Joined
<1> HIDE DEF names, new
<1>4. Date \in Nat /\ Date' = Date /\ time \in Nat  BY <1>2, DateIsNat DEF Date, Typed
<1>5. day' \in DayRecords /\ day'.date = Date  BY <1>2, <1>4, DayNowTyped DEF Guarded
<1>6. day'.date <= Date'  BY <1>4, <1>5
<1> QED BY <1>2, <1>3, <1>5, <1>6 DEF Guarded

LEMMA OpeningKeepsGuarded ==
  ASSUME Guarded, Typed, NEW a, OpenTrade(a) PROVE Guarded'
<1>1. /\ time' = time /\ day' = [DayNow EXCEPT !.trades = @ + 1] /\ halted' = halted
      /\ alertCooldowns' = alertCooldowns /\ openedAt' = Put(openedAt, a, time)
      /\ alerts' = alerts /\ restarts' = restarts /\ a \in DOMAIN stage
  BY DEF OpenTrade, RecordTradeOpened, At, engineVars
<1>2. Date \in Nat /\ Date' = Date /\ time \in Nat  BY <1>1, DateIsNat DEF Date, Typed
<1>3. DayNow \in DayRecords /\ DayNow.date = Date  BY <1>2, DayNowTyped DEF Guarded
<1>4. day' \in DayRecords /\ day'.date = Date  BY <1>1, <1>3 DEF DayRecords
<1>5. day'.date <= Date'  BY <1>2, <1>4
<1>6. DOMAIN openedAt' = DOMAIN openedAt \cup {a} /\ a \in DOMAIN alerts
  BY <1>1 DEF Put, Typed
<1> QED BY <1>1, <1>4, <1>5, <1>6 DEF Guarded

LEMMA ReportKeepsGuarded ==
  ASSUME Guarded, Typed, NEW a, ReportResult(a) PROVE Guarded'
<1> PICK r : r = resultOf[a]  OBVIOUS
<1> DEFINE x == DayNow.pnl + r  y == IF r < 0 THEN DayNow.losses + 1 ELSE 0
<1>1. /\ time' = time /\ day' = [DayNow EXCEPT !.pnl = x, !.losses = y] /\ halted' = halted
      /\ alertCooldowns' = Restrict(alertCooldowns, DOMAIN alertCooldowns \ {a})
      /\ openedAt' = Restrict(openedAt, DOMAIN openedAt \ {a})
      /\ alerts' = alerts /\ restarts' = restarts
      /\ a \in DOMAIN stage /\ stage[a] = "settled"
  BY DEF ReportResult, RecordTradeResult, At, engineVars
<1>2. Date \in Nat /\ Date' = Date /\ time \in Nat  BY <1>1, DateIsNat DEF Date, Typed
<1>3. DayNow \in DayRecords /\ DayNow.date = Date  BY <1>2, DayNowTyped DEF Guarded
<1>4. x \in Int /\ y \in Nat  BY <1>1, <1>3 DEF Typed, DayRecords
<1> HIDE DEF x, y
<1>5. day' \in DayRecords /\ day'.date = Date  BY <1>1, <1>3, <1>4 DEF DayRecords
<1>6. day'.date <= Date'  BY <1>2, <1>5
<1>7. /\ DOMAIN alertCooldowns' \subseteq DOMAIN alertCooldowns
      /\ DOMAIN openedAt' \subseteq DOMAIN openedAt
  BY <1>1 DEF Restrict
<1> QED BY <1>1, <1>5, <1>6, <1>7 DEF Guarded

\* The steps of the scanner together.
LEMMA NextKeepsGuarded ==
  ASSUME Guarded, Typed, [Next]_scannerVars PROVE Guarded'
<1>1. time \in Nat /\ halted \in BOOLEAN  BY DEF Typed, Guarded
<1> USE DEF engineVars, guardVars
<1>2. CASE \E found \in [ToSet(Symbols) -> Findings] : Scan(found)  BY <1>2, ScanKeepsGuarded
<1>3. CASE NoScan  BY <1>1, <1>3, DayKeepsGuarded DEF NoScan, ReadDay
<1>4. CASE \E a \in Alerts : CheckPreTrade(a)
  BY <1>1, <1>4, DayKeepsGuarded DEF CheckPreTrade, ReadDay
<1>5. CASE \E a \in Alerts : Decline(a)  BY <1>1, <1>5, DayKeepsGuarded DEF Decline
<1>6. CASE \E a \in Alerts : OpenTrade(a)  BY <1>6, OpeningKeepsGuarded
<1>7. CASE \E a \in Alerts : RegisterTrade(a)
  BY <1>1, <1>7, DayKeepsGuarded DEF RegisterTrade
<1>8. CASE \E a \in Alerts : a \in DOMAIN alerts /\ RecordOutcome(a)
  BY <1>1, <1>8, DayKeepsGuarded DEF RecordOutcome
<1>9. CASE \E a \in Alerts : ReportResult(a)  BY <1>9, ReportKeepsGuarded
<1>10. CASE \E value \in BOOLEAN : HaltOrResume(value)
  BY <1>1, <1>10, DayKeepsGuarded DEF HaltOrResume, SetHalted
<1>11. CASE Restart
  <2>1. /\ time' = time /\ alerts' = alerts /\ day' = NewDay /\ halted' = FALSE
        /\ alertCooldowns' = << >> /\ openedAt' = << >>
        /\ restarts < MaxRestarts /\ restarts' = restarts + 1
    BY <1>11 DEF Restart, NewGuardrails
  <2>2. Date \in Nat /\ Date' = Date  BY <1>1, <2>1, DateIsNat DEF Date
  <2>3. NewDay \in DayRecords /\ NewDay.date = Date  BY <2>2 DEF NewDay, DayRecords
  <2>4. restarts' \in 0..MaxRestarts  BY <2>1, ScannerAssumption DEF Guarded
  <2>5. Len(alerts') <= MaxAlerts  BY <2>1 DEF Guarded
  <2>6. DOMAIN alertCooldowns' = {} /\ DOMAIN openedAt' = {}  BY <2>1
  <2>7. day' \in DayRecords /\ day'.date <= Date'  BY <2>1, <2>2, <2>3
  <2> QED BY <2>1, <2>4, <2>5, <2>6, <2>7 DEF Guarded
<1>12. CASE Tick  BY <1>1, <1>12, DayKeepsGuarded DEF Tick
<1>13. CASE UNCHANGED scannerVars  BY <1>1, <1>13, DayKeepsGuarded DEF scannerVars
<1> QED BY <1>2, <1>3, <1>4, <1>5, <1>6, <1>7, <1>8, <1>9, <1>10, <1>11, <1>12, <1>13 DEF Next

\* There are no more days than trades.
LEMMA DaysAreFew ==
  ASSUME NEW q \in Seq(Trades) PROVE DaysOf(q) \in 0..Len(q)
<1> DEFINE at == [n \in DOMAIN q |-> q[n].date]
           days == {t.date : t \in {u \in ToSet(q) : u.counted}}
<1>1. IsFiniteSet(DOMAIN q) /\ Cardinality(DOMAIN q) = Len(q)
  <2>1. Len(q) \in Nat /\ DOMAIN q = 1..Len(q)  OBVIOUS
  <2>2. Cardinality(1..Len(q)) = Len(q)  BY <2>1, FS_Interval
  <2> QED BY <2>1, <2>2, FS_Interval
<1>2. days \subseteq {at[n] : n \in DOMAIN q}  BY DEF ToSet
<1>3. /\ IsFiniteSet({at[n] : n \in DOMAIN q})
      /\ Cardinality({at[n] : n \in DOMAIN q}) <= Cardinality(DOMAIN q)
  <2> DEFINE T == {at[n] : n \in DOMAIN q}
  <2>1. at \in Surjection(DOMAIN q, T)  BY DEF Surjection
  <2> HIDE DEF T, at
  <2> QED BY <1>1, <2>1, FS_Surjection DEF T
<1> HIDE DEF days, at
<1>4. IsFiniteSet(days) /\ Cardinality(days) <= Len(q) /\ Cardinality(days) \in Nat
  BY <1>1, <1>2, <1>3, FS_Subset, FS_CardinalityType
<1> QED BY <1>4 DEF DaysOf, days

\* Type correctness, for every market, order of calls and restart.
THEOREM TypeCorrect == Spec => []TypeOK
<1>1. Init => Guarded
  <2> SUFFICES ASSUME Init PROVE Guarded  OBVIOUS
  <2>1. /\ time = 0 /\ day = NewDay /\ halted = FALSE /\ alertCooldowns = << >>
        /\ openedAt = << >> /\ alerts = << >> /\ restarts = 0
    BY DEF Init, NewGuardrails
  <2>2. Date \in Nat  BY <2>1, DateIsNat
  <2>3. NewDay \in DayRecords /\ NewDay.date = Date  BY <2>2 DEF NewDay, DayRecords
  <2>4. DOMAIN alertCooldowns = {} /\ DOMAIN openedAt = {}  BY <2>1
  <2>5. Len(alerts) <= MaxAlerts /\ restarts \in 0..MaxRestarts  BY <2>1, ScannerAssumption
  <2>6. day \in DayRecords /\ day.date <= Date  BY <2>1, <2>2, <2>3
  <2> QED BY <2>1, <2>4, <2>5, <2>6 DEF Guarded
<1>2. TypeInv => TypeOK
  <2> SUFFICES ASSUME TypeInv PROVE TypeOK  OBVIOUS
  <2>1. unsaved \in BOOLEAN /\ lost \in BOOLEAN /\ diskFailures \in 0..MaxDiskFailures
    BY DEF TypeInv, HistoryInv
  <2>2. closedTrades \in Seq(Trades) /\ Len(closedTrades) <= MaxHistory
    BY DEF TypeInv, HistoryInv, PartOf
  <2>3. tradingDays \in 0..Len(closedTrades)
    BY <2>2, DaysAreFew DEF TypeInv, HistoryInv
  <2>4. tradingDays \in 0..MaxHistory
    <3>1. Len(closedTrades) \in Nat /\ MaxHistory \in Nat  BY <2>2, ScannerAssumption
    <3> QED BY <2>2, <2>3, <3>1
  <2>5. day \in [trades : Nat, losses : Nat, pnl : Int, date : 0..Date]
    <3>1. day \in DayRecords /\ day.date <= Date  BY DEF TypeInv, Guarded
    <3>2. Date \in Nat  BY DateIsNat DEF TypeInv, HistoryInv
    <3> QED BY <3>1, <3>2 DEF DayRecords
  <2> QED BY <2>1, <2>2, <2>4, <2>5 DEF TypeInv, Typed, Guarded, TypeOK, Stages
<1>3. Init => TypeInv  BY <1>1, InitTyped, InitKeepsHistory DEF TypeInv
<1>4. TypeInv /\ [Next]_scannerVars => TypeInv'
  BY NextKeepsTypes, NextKeepsHistory, NextKeepsGuarded DEF TypeInv
<1> QED BY <1>2, <1>3, <1>4, PTL DEF Spec
=============================================================================
