--------------------------- MODULE ChallengeDaemon ---------------------------
(***************************************************************************)
(* The compliance daemon of internal/challenge/daemon.go: its state, and   *)
(* one action for each public method that changes it.  Every method holds  *)
(* the daemon's mutex from its first to its last statement, so a method is *)
(* one step.  Any caller may call any method at any time; ChallengeLoop    *)
(* adds the process that calls them.                                       *)
(***************************************************************************)
EXTENDS ChallengeRules, Functions, Sequences

CONSTANTS
  Symbols,      \* instruments positions are tracked under
  Intents,      \* trade intents: [symbol, legs, profit]
  Exposures,    \* what TrackPosition may be told: [notional, margin]
  Equities,     \* equity readings the feed may deliver
  PnLs,         \* results a closed trade may have
  DayLength,    \* ticks in a UTC day
  SafetyTime,   \* tick of the day from which a safety trade is due
  MaxTime,      \* bound: last tick explored
  MaxTrades     \* bound: closed trades explored

ASSUME DaemonAssumption ==
  /\ DayLength \in Nat \ {0}
  /\ SafetyTime \in 0..(DayLength - 1)
  /\ MaxTime \in Nat /\ MaxTrades \in Nat
  /\ Equities \subseteq Int /\ PnLs \subseteq Int
  /\ Exposures \subseteq [notional : Nat, margin : Nat]
  /\ \A i \in Intents : /\ i.symbol \in Symbols
                        /\ i.profit \in Int
                        /\ i.legs \in Seq(Nat)

VARIABLES
  now,               \* wall clock, in ticks
  today,             \* UTC date of the wall clock
  currentEquity,
  dailyHighWater,
  lastResetDate,     \* todayDateStr always equals it
  totalProfit,
  totalLoss,
  closedTradeCount,
  positions,         \* symbol -> tracked position
  tradingDays,       \* dates with a recorded trade
  tradedToday,
  halted,
  verdict            \* what the last ValidateIntent returned, until the
                     \* next call to the daemon

(* History, read by no action: what the rules say, kept independently of   *)
(* how the daemon keeps it.                                                *)
VARIABLES
  dayPeak,           \* highest equity known on the date of the last reading
  breached,          \* a reading broke a loss limit since the last Reset
  uncovered          \* symbol -> tick since which its position has been
                     \* open without a stop

clockVars   == <<now, today>>
equityVars  == <<currentEquity, dailyHighWater, lastResetDate>>
tradeVars   == <<totalProfit, totalLoss, closedTradeCount>>
dayVars     == <<tradingDays, tradedToday>>
historyVars == <<dayPeak, breached, uncovered>>
vars == <<clockVars, equityVars, tradeVars, positions, dayVars, halted,
          verdict, historyVars>>

Position == [openTime : Nat, deadline : Nat, hasStopLoss : BOOLEAN,
             notional : Nat, margin : Nat]

TypeOK ==
  /\ now \in Nat /\ today \in Nat
  /\ currentEquity \in Int /\ dailyHighWater \in Int
  /\ lastResetDate \in Nat
  /\ totalProfit \in Nat /\ totalLoss \in Nat /\ closedTradeCount \in Nat
  /\ DOMAIN positions \subseteq Symbols
  /\ positions \in [DOMAIN positions -> Position]
  /\ tradingDays \subseteq Nat
  /\ tradedToday \in BOOLEAN /\ halted \in BOOLEAN
  /\ verdict \in {"none", "approved", "rejected"}
  /\ dayPeak \in [day : Nat, peak : Int]
  /\ breached \in BOOLEAN
  /\ DOMAIN uncovered = DOMAIN positions
  /\ uncovered \in [DOMAIN positions -> Nat]

Init ==
  /\ now = 0 /\ today = 0
  /\ currentEquity = InitialBalance /\ dailyHighWater = InitialBalance
  /\ lastResetDate = 0
  /\ totalProfit = 0 /\ totalLoss = 0 /\ closedTradeCount = 0
  /\ positions = << >>
  /\ tradingDays = {} /\ tradedToday = FALSE
  /\ halted = FALSE /\ verdict = "none"
  /\ dayPeak = [day |-> 0, peak |-> InitialBalance]
  /\ breached = FALSE
  /\ uncovered = << >>

-----------------------------------------------------------------------------
(* Exposure is recomputed after every change of the positions.             *)

TotalMargin   == SumFunction([s \in DOMAIN positions |-> positions[s].margin])
TotalNotional == SumFunction([s \in DOMAIN positions |-> positions[s].notional])

(* The roll to a new UTC day happens on the first locked call that asks    *)
(* for it: the mark a call sees and the flag it sees.                      *)

DayRolled          == today # lastResetDate

\* Mutant: the roll leaves yesterday's mark in place.
HighWaterNotRolled == dailyHighWater
HighWaterAfterRoll == IF DayRolled THEN currentEquity ELSE dailyHighWater

\* Mutants: the flag survives midnight; the flag is cleared by every call.
TradedNotRolled    == tradedToday
TradedAlwaysRolled == FALSE
TradedAfterRoll    == tradedToday /\ ~DayRolled

\* The new day starts from the last equity known.
ResetDailyIfNeeded ==
  /\ dailyHighWater' = HighWaterAfterRoll
  /\ lastResetDate'  = today
  /\ tradedToday'    = TradedAfterRoll

-----------------------------------------------------------------------------
(* Equity feed.                                                            *)

Higher(a, b) == IF a > b THEN a ELSE b

\* The worst a loss may be, stated on the readings alone.
LossLimitBroken(equity, peak) ==
  \/ peak > 0 /\ equity < peak /\ equity * Whole <= (Whole - DailyBreach) * peak
  \/ /\ equity < InitialBalance
     /\ equity * Whole <= (Whole - OverallBreach) * InitialBalance

\* The peak of the day once a reading has arrived: the first reading of a
\* day competes with the equity the day opened with.
PeakWith(equity) ==
  [day  |-> today,
   peak |-> Higher(IF dayPeak.day = today THEN dayPeak.peak ELSE currentEquity,
                   equity)]

\* Mutant: the halt follows the last reading.
HaltedByLastReading(daily, overall) == Breach \in {daily, overall}

\* Nothing but Reset lifts a halt.
HaltedAfter(daily, overall) == halted \/ Breach \in {daily, overall}

UpdateEquity(equity) ==
  LET highWater == Higher(HighWaterAfterRoll, equity)
      daily     == CheckDailyDrawdown(equity, highWater)
      overall   == CheckOverallDrawdown(equity)
  IN  /\ currentEquity'  = equity
      /\ dailyHighWater' = highWater
      /\ lastResetDate'  = today
      /\ tradedToday'    = TradedAfterRoll
      /\ halted' = HaltedAfter(daily, overall)
      /\ verdict' = "none"
      /\ dayPeak' = PeakWith(equity)
      /\ breached' = (breached \/ LossLimitBroken(equity, PeakWith(equity).peak))
      /\ UNCHANGED <<clockVars, tradeVars, positions, tradingDays, uncovered>>

-----------------------------------------------------------------------------
(* Closed trades.  A distribution violation is only logged here.           *)

\* What a trade adds to totalLoss, which is kept positive.
LossSigned(pnl) == IF pnl < 0 THEN pnl ELSE 0   \* mutant: no Abs
LossOf(pnl)     == IF pnl < 0 THEN -pnl ELSE 0

RecordTrade(pnl) ==
  /\ closedTradeCount < MaxTrades
  /\ closedTradeCount' = closedTradeCount + 1
  /\ dailyHighWater' = HighWaterAfterRoll
  /\ lastResetDate' = today
  /\ tradedToday' = TRUE
  /\ tradingDays' = tradingDays \cup {today}
  /\ totalProfit' = IF pnl > 0 THEN totalProfit + pnl ELSE totalProfit
  /\ totalLoss' = totalLoss + LossOf(pnl)
  /\ verdict' = "none"
  /\ UNCHANGED <<clockVars, currentEquity, positions, halted, historyVars>>

-----------------------------------------------------------------------------
(* Open positions.                                                         *)

With(f, s, v) == [x \in DOMAIN f \cup {s} |-> IF x = s THEN v ELSE f[x]]
Without(f, s) == [x \in DOMAIN f \ {s} |-> f[x]]

\* A position that is already tracked under the symbol is replaced.
Tracked(symbol, notional, margin) ==
  With(positions, symbol,
       [openTime |-> now, deadline |-> StopLossDeadlineOf(now),
        hasStopLoss |-> FALSE, notional |-> notional, margin |-> margin])

\* Adding to a position that is already without a stop does not cover it.
UncoveredWith(symbol) ==
  With(uncovered, symbol,
       IF symbol \in DOMAIN positions /\ ~positions[symbol].hasStopLoss
       THEN uncovered[symbol] ELSE now)

TrackPosition(symbol, exposure) ==
  /\ positions' = Tracked(symbol, exposure.notional, exposure.margin)
  /\ uncovered' = UncoveredWith(symbol)
  /\ verdict' = "none"
  /\ UNCHANGED <<clockVars, equityVars, tradeVars, dayVars, halted,
                 dayPeak, breached>>

\* Symbols that are not tracked are ignored.
StopsConfirmed(symbols) ==
  [s \in DOMAIN positions |->
     [positions[s] EXCEPT !.hasStopLoss = @ \/ s \in symbols]]

ConfirmStopLoss(symbol) ==
  /\ positions' = StopsConfirmed({symbol})
  /\ verdict' = "none"
  /\ UNCHANGED <<clockVars, equityVars, tradeVars, dayVars, halted,
                 historyVars>>

ConfirmPairedStopLoss(primary, hedge) ==
  /\ positions' = StopsConfirmed({primary, hedge})
  /\ verdict' = "none"
  /\ UNCHANGED <<clockVars, equityVars, tradeVars, dayVars, halted,
                 historyVars>>

ClosePosition(symbol) ==
  /\ positions' = Without(positions, symbol)
  /\ uncovered' = Without(uncovered, symbol)
  /\ verdict' = "none"
  /\ UNCHANGED <<clockVars, equityVars, tradeVars, dayVars, halted,
                 dayPeak, breached>>

\* Mutant: the deadline itself already counts as passed.
ExpiredAtDeadline(p) == ~p.hasStopLoss /\ now >= p.deadline

Expired(p) == ~p.hasStopLoss /\ now > p.deadline

PositionsWithExpiredStopLoss ==
  {s \in DOMAIN positions : Expired(positions[s])}

-----------------------------------------------------------------------------
(* Intents.                                                                *)

IntentNotional(intent) == SumFunction(intent.legs)

\* Mutant: positions without a stop are not looked at.
CompliesWithoutStops(intent) ==
  LET notional == IntentNotional(intent)
  IN  /\ CheckDailyDrawdown(currentEquity, HighWaterAfterRoll) = Normal
      /\ CheckOverallDrawdown(currentEquity) = Normal
      /\ CheckPerTradeRisk(notional * StopLossDefault, 1)
      /\ intent.profit > 0 => CheckProfitDistribution(intent.profit, totalProfit)
      /\ CheckMaxExposure(TotalMargin + notional)
      /\ CheckMaxNotional(TotalNotional + notional, currentEquity)

\* The checks ValidateIntent makes, after the day has rolled if it must.
Complies(intent) ==
  LET notional == IntentNotional(intent)
  IN  /\ CheckDailyDrawdown(currentEquity, HighWaterAfterRoll) = Normal
      /\ CheckOverallDrawdown(currentEquity) = Normal
      /\ CheckPerTradeRisk(notional * StopLossDefault, 1)
      /\ intent.profit > 0 => CheckProfitDistribution(intent.profit, totalProfit)
      /\ CheckMaxExposure(TotalMargin + notional)
      /\ CheckMaxNotional(TotalNotional + notional, currentEquity)
      /\ PositionsWithExpiredStopLoss = {}

\* Mutant: the halt is not looked at.
AdmitsHalted(intent) == Enabled => Complies(intent)

Admits(intent) == ~halted /\ (Enabled => Complies(intent))

ValidateIntent(intent) ==
  /\ ResetDailyIfNeeded
  /\ verdict' = IF Admits(intent) THEN "approved" ELSE "rejected"
  /\ UNCHANGED <<clockVars, currentEquity, tradeVars, positions, tradingDays,
                 halted, historyVars>>

-----------------------------------------------------------------------------
(* Queries, and the operator's control.                                    *)

TimeOfDay == now % DayLength

\* Takes the read lock: it cannot roll the day, and answers from the flag
\* as it stands.
CheckSafetyTrade == ~tradedToday /\ TimeOfDay >= SafetyTime

Reset ==
  /\ halted' = FALSE
  /\ breached' = FALSE
  /\ verdict' = "none"
  /\ UNCHANGED <<clockVars, equityVars, tradeVars, positions, dayVars,
                 dayPeak, uncovered>>

\* The wall clock, which no call waits for.
Tick ==
  /\ now < MaxTime
  /\ now' = now + 1
  /\ today' = IF now' % DayLength = 0 THEN today + 1 ELSE today
  /\ UNCHANGED <<equityVars, tradeVars, positions, dayVars, halted, verdict, historyVars>>

Next ==
  \/ \E e \in Equities : UpdateEquity(e)
  \/ \E p \in PnLs : RecordTrade(p)
  \/ \E s \in Symbols, x \in Exposures : TrackPosition(s, x)
  \/ \E s \in Symbols : ConfirmStopLoss(s)
  \/ \E p, h \in Symbols : ConfirmPairedStopLoss(p, h)
  \/ \E s \in Symbols : ClosePosition(s)
  \/ \E i \in Intents : ValidateIntent(i)
  \/ Reset
  \/ Tick

Spec == Init /\ [][Next]_vars

-----------------------------------------------------------------------------
(* Properties.                                                             *)

\* The highest equity known on the date the daemon has rolled to.
TruePeak == IF dayPeak.day = lastResetDate THEN dayPeak.peak ELSE currentEquity

\* The mark the daemon measures the daily drawdown from is the highest
\* equity known on that date, however late the day was rolled and whichever
\* call rolled it.
HighWaterIsDayPeak == dailyHighWater = TruePeak

\* The daemon is halted exactly while a reading that broke the daily or the
\* overall loss limit has not been cleared by the operator: recovery of the
\* equity, a new day or a closed trade does not lift the halt.
HaltedIffUnclearedBreach == halted <=> breached

\* An intent is approved only at an equity short of both soft limits,
\* measured from the true peak of the day, and never after a breach.
ApprovedOnlyWithinLimits ==
  verdict = "approved" =>
    /\ ~breached
    /\ Enabled => /\ CheckDailyDrawdown(currentEquity, TruePeak) < Soft
                  /\ CheckOverallDrawdown(currentEquity) < Soft

\* A date is counted as a trading day exactly when the flag is set for it,
\* and dates are never counted ahead of the clock.
TradedTodayMatchesDays ==
  /\ tradedToday <=> lastResetDate \in tradingDays
  /\ lastResetDate <= today
  /\ \A d \in tradingDays : d <= lastResetDate

\* No safety trade is asked for on a date that already has a trade, even
\* when midnight has passed and no call has rolled the day yet.
NoNeedlessSafetyTrade == CheckSafetyTrade => today \notin tradingDays

\* A position reported as overdue really has been open without a stop for
\* longer than the deadline allows.
ReportedPositionsAreOverdue ==
  \A s \in PositionsWithExpiredStopLoss :
    now - uncovered[s] > StopLossDeadline
=============================================================================
