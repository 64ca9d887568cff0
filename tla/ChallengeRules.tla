--------------------------- MODULE ChallengeRules ---------------------------
(***************************************************************************)
(* The pure compliance checks of internal/challenge/rules.go and the       *)
(* configuration they read (internal/challenge/config.go).                 *)
(*                                                                         *)
(* Money is an integer number of units.  A percentage is an integer number *)
(* of thousandths, because the shipped configuration has values such as    *)
(* 8.5% and 2.5%; a quotient is compared by multiplying out, which is what *)
(* the decimal arithmetic of the code computes.                            *)
(***************************************************************************)
EXTENDS Integers

CONSTANTS
  Enabled,             \* compliance checks are switched on
  Mode,                \* "phase1", "phase2" or "funded"
  InitialBalance,
  DailySoft, DailyHard, DailyBreach,        \* of the day's high-water mark
  OverallSoft, OverallHard, OverallBreach,  \* of the initial balance
  MaxRiskPerTrade,     \* of the initial balance
  ProfitDistribution,  \* of the total profit
  StopLossDefault,     \* distance of the emergency stop, of the entry price
  MaxMarginExposure,   \* funded accounts only: of the initial balance
  MaxNotionalMultiple, \* funded accounts only: times the live balance
  StopLossDeadline     \* ticks a position may be open without a stop

Whole == 1000          \* one hundred percent

\* What Config.validate accepts, and that percentages are not negative.
ASSUME ConfigAssumption ==
  /\ Enabled \in BOOLEAN
  /\ Mode \in {"phase1", "phase2", "funded"}
  /\ InitialBalance \in Nat \ {0}
  /\ DailySoft \in Nat /\ DailyHard \in Nat /\ DailyBreach \in Nat
  /\ DailySoft < DailyHard /\ DailyHard < DailyBreach
  /\ OverallSoft \in Nat /\ OverallHard \in Nat /\ OverallBreach \in Nat
  /\ OverallSoft < OverallHard /\ OverallHard < OverallBreach
  /\ MaxRiskPerTrade \in Nat /\ ProfitDistribution \in Nat
  /\ StopLossDefault \in Nat /\ MaxMarginExposure \in Nat
  /\ MaxNotionalMultiple \in Nat
  /\ StopLossDeadline \in Nat \ {0}

-----------------------------------------------------------------------------
(* Drawdown levels, in increasing severity.                                *)

Normal == 0
Soft   == 1
Hard   == 2
Breach == 3
Levels == Normal..Breach

\* The share loss/base is at least limit.  A loss set against a negative
\* base is a negative percentage, which reaches no limit.
AtLeast(loss, base, limit) == base > 0 /\ loss * Whole >= limit * base

LevelOf(loss, base, soft, hard, breach) ==
  IF loss <= 0                        THEN Normal
  ELSE IF AtLeast(loss, base, breach) THEN Breach
  ELSE IF AtLeast(loss, base, hard)   THEN Hard
  ELSE IF AtLeast(loss, base, soft)   THEN Soft
  ELSE Normal

\* A mark of zero means no mark has been established; AtLeast covers it.
CheckDailyDrawdown(equity, highWater) ==
  LevelOf(highWater - equity, highWater, DailySoft, DailyHard, DailyBreach)

CheckOverallDrawdown(equity) ==
  LevelOf(InitialBalance - equity, InitialBalance,
          OverallSoft, OverallHard, OverallBreach)

-----------------------------------------------------------------------------
(* The checks of one trade; TRUE means within limits.                      *)

\* stopDistance is in thousandths of a unit.
CheckPerTradeRisk(stopDistance, size) ==
  /\ stopDistance > 0
  /\ size > 0
  /\ stopDistance * size <= InitialBalance * MaxRiskPerTrade

\* Mutant: with no profit so far there is nothing to distribute.
ProfitDistributionFromProfit(pnl, totalProfit) ==
  \/ Mode = "funded"
  \/ pnl <= 0
  \/ totalProfit <= 0
  \/ pnl * Whole <= ProfitDistribution * (totalProfit + pnl)

CheckProfitDistribution(pnl, totalProfit) ==
  \/ Mode = "funded"
  \/ pnl <= 0
  \/ totalProfit + pnl <= 0
  \/ pnl * Whole <= ProfitDistribution * (totalProfit + pnl)

\* Mutant: the percentage is not divided out.
MaxExposureUnscaled(margin) ==
  Mode = "funded" => margin <= InitialBalance * MaxMarginExposure

CheckMaxExposure(margin) ==
  Mode = "funded" => margin * Whole <= InitialBalance * MaxMarginExposure

CheckMaxNotional(notional, balance) ==
  Mode = "funded" => notional <= balance * MaxNotionalMultiple

StopLossDeadlineOf(openTime) == openTime + StopLossDeadline

-----------------------------------------------------------------------------
(* The coordinated stops of a pair: the primary leg is short, so its stop  *)
(* is above entry; the hedge is long, so its stop is below.  Prices here   *)
(* are in thousandths of the unit of entry.                                *)

PrimaryStopPrice(entry) == entry * (Whole + StopLossDefault)
HedgeStopPrice(entry)   == entry * (Whole - StopLossDefault)

Abs(n) == IF n < 0 THEN -n ELSE n

\* A price of zero is accepted unchecked.
ValidateStopLossWidth(entry, stopPrice) ==
  \/ entry = 0
  \/ /\ entry > 0
     /\ Abs(entry * Whole - stopPrice) >= StopLossDefault * entry
=============================================================================
