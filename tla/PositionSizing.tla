---------------------------- MODULE PositionSizing ----------------------------
(***************************************************************************)
(* The sizing of a trade (internal/scanner/risk_manager.go), a pure        *)
(* function of an entry price, a volatility, a structure level, a balance  *)
(* and a score.  Percentages are in basis points, distances in             *)
(* ten-thousandths of the unit of price, amounts of risk in millionths of  *)
(* a dollar; a quotient by the entry price is kept as its numerator, so    *)
(* that nothing is rounded.                                                *)
(***************************************************************************)
EXTENDS Integers

CONSTANTS
  MaxRiskPerTrade,        \* basis points of the balance
  Leverage,               \* DefaultLeverage
  DefaultRR, TP2Multiplier, TP3Multiplier,
  ATRMultiplierSL,        \* in tenths
  MinSLDistance, MaxSLDistance,  \* basis points of the entry price
  MinPositionSize,        \* dollars
  InitialBalance          \* dollars

ASSUME SizingAssumption ==
  /\ MaxRiskPerTrade \in Nat /\ Leverage \in Nat
  /\ DefaultRR \in Nat \ {0} /\ TP2Multiplier \in Nat /\ TP3Multiplier \in Nat
  /\ DefaultRR < TP2Multiplier /\ TP2Multiplier < TP3Multiplier
  /\ ATRMultiplierSL \in Nat
  /\ MinSLDistance \in Nat \ {0} /\ MaxSLDistance \in Nat
  /\ MinSLDistance <= MaxSLDistance /\ MaxSLDistance * TP3Multiplier < 10000
  /\ MinPositionSize \in Nat /\ InitialBalance \in Nat

Directions == {"LONG", "SHORT"}

Larger(a, b)  == IF a > b THEN a ELSE b
Smaller(a, b) == IF a < b THEN a ELSE b

\* The distance to a structure level with a buffer of 0.1% behind it, negative
\* if the level is on the wrong side of the entry.
StructureDistance(direction, entry, level) ==
  10000 * (IF direction = "LONG" THEN entry - level ELSE level - entry) + 10 * entry

\* Mutant: the wider limit is not applied.
Unbounded(distance, entry) == Larger(distance, entry * MinSLDistance)

Bounded(distance, entry) ==
  Smaller(Larger(distance, entry * MinSLDistance), entry * MaxSLDistance)

\* computeSLDistance: structure is preferred if it is there and not much
\* further than volatility, in thousandths, asks for.  Level 0: none.
SLDistance(direction, entry, atr, level) ==
  LET byATR == atr * ATRMultiplierSL
      byStructure == IF level > 0 THEN StructureDistance(direction, entry, level) ELSE 0
  IN  Bounded(IF byStructure > 0 /\ byStructure < 2 * byATR THEN byStructure ELSE byATR,
              entry)

\* Percent of the budget that a score is worth.
ConfidenceScale(score) ==
  CASE score >= 5 -> 100 [] score = 4 -> 90 [] score = 3 -> 80 [] score = 2 -> 65
    [] OTHER -> 50

\* What the position loses at its stop, times the entry price: the budget of the
\* score, less if the position would exceed the leverage.
RiskOfBudget(entry, balance, score) ==
  entry * (balance * MaxRiskPerTrade * ConfidenceScale(score))
RiskOfLeverage(distance, balance) == 100 * distance * (balance * Leverage)
\* At most 3% of the initial balance.
RiskOfCap(entry) == entry * (InitialBalance * 30000)

ActualRisk(entry, distance, balance, score) ==
  Smaller(Smaller(RiskOfBudget(entry, balance, score), RiskOfLeverage(distance, balance)),
          RiskOfCap(entry))

\* The dollars of a position are its risk by (100 times the distance).
LargeEnough(risk, distance) == risk >= MinPositionSize * (100 * distance)

\* ComputeRiskParams, of arguments it does not refuse.
RiskParams(direction, entry, atr, balance, score, level) ==
  LET distance == SLDistance(direction, entry, atr, level)
  IN  [direction |-> direction, entry |-> entry, distance |-> distance,
       risk |-> ActualRisk(entry, distance, balance, score)]

Accepted(params, balance) ==
  params.entry > 0 /\ balance > 0 /\ LargeEnough(params.risk, params.distance)

\* Prices of the stop and of the targets, in ten-thousandths.
Away(params, multiple) ==
  IF params.direction = "LONG"
  THEN 10000 * params.entry + multiple * params.distance
  ELSE 10000 * params.entry - multiple * params.distance

StopLoss(params)   == Away(params, -1)
TakeProfit1(params) == Away(params, DefaultRR)
TakeProfit2(params) == Away(params, TP2Multiplier)
TakeProfit3(params) == Away(params, TP3Multiplier)

-----------------------------------------------------------------------------

Profit(params, price) ==
  IF params.direction = "LONG" THEN price - 10000 * params.entry
  ELSE 10000 * params.entry - price

\* The stop is nearer than the first target and every further target is further
\* away, all at prices that exist, the stop within its limits; and a trade that
\* is closed at its stop loses no more than its share of the balance, of the
\* leverage, or of the initial balance.
WithinRules(params, balance) ==
  /\ Profit(params, StopLoss(params)) < 0 /\ 0 < StopLoss(params)
  /\ 0 < Profit(params, TakeProfit1(params))
  /\ Profit(params, TakeProfit1(params)) < Profit(params, TakeProfit2(params))
  /\ Profit(params, TakeProfit2(params)) < Profit(params, TakeProfit3(params))
  /\ 0 < TakeProfit3(params)
  /\ params.entry * MinSLDistance <= -Profit(params, StopLoss(params))
  /\ -Profit(params, StopLoss(params)) <= params.entry * MaxSLDistance
  /\ params.risk <= params.entry * (balance * MaxRiskPerTrade * 100)
  /\ params.risk <= params.entry * (InitialBalance * 30000)
  /\ params.risk <= 100 * params.distance * (balance * Leverage)
=============================================================================
