------------------------------ MODULE Scanner ------------------------------
(***************************************************************************)
(* The scanner engine with its risk manager, guardrails and outcome        *)
(* tracker (internal/scanner), used by a trader as the comments of the     *)
(* methods ask.  The scan loop, the market data and the trader are         *)
(* threads; every method holds the mutex of its component, so each call is *)
(* one step; a scan is one too: a trade that is registered while it runs   *)
(* only hides the symbols that come after.  What the detectors find in the *)
(* market is a free choice.                                                *)
(***************************************************************************)
EXTENDS Guardrails, PositionSizing, Sequences, SequencesExt, FiniteSets

CONSTANTS
  Symbols,               \* cfg.Symbols, a list
  MinConfluence,
  CooldownPerSymbol,     \* in ticks
  MaxConcurrentTrades,
  MaxHistory,            \* trades the tracker keeps
  FeeRate,               \* fees of a trade, basis points of its value
  MarketAt, BalanceAt,   \* bounds: time -> symbol -> state, and time -> balance
  Findings,              \* bound: what the detectors may find for a symbol
  MaxAlerts, MaxRestarts,
  MaxDiskFailures        \* bound: saves and loads of the history that fail

States ==
  [price : Nat, candles : [atr : Nat, swings : Seq([isHigh : BOOLEAN, price : Nat])]]

ASSUME ScannerAssumption ==
  /\ Symbols \in Seq(ToSet(Symbols))
  /\ MinConfluence \in Nat /\ CooldownPerSymbol \in Nat
  /\ MaxConcurrentTrades \in Nat /\ MaxHistory \in Nat \ {0} /\ FeeRate \in Nat
  /\ MarketAt \in [1..MaxTime -> [ToSet(Symbols) -> States]]
  /\ BalanceAt \in [1..MaxTime -> Nat]
  /\ Findings \subseteq [Directions -> [score : Nat, strong : BOOLEAN]]
  /\ MaxAlerts \in Nat /\ MaxRestarts \in Nat /\ MaxDiskFailures \in Nat

Alerts == 1..MaxAlerts

VARIABLES
  states,          \* symbol -> [price, candles]; price 0: nothing yet
  accountBalance,
  lastAlert,       \* symbol -> when it last had an alert
  alerts,          \* alert -> [symbol, risk, createdAt]; a name holds the time
                   \* and is never used again
  openTrades,      \* alerts whose trades the tracker monitors
  closedTrades,    \* history: [alert, outcome, date, counted], oldest first
  tradingDays,     \* stats.TradingDaysCompleted
  historyFile      \* what the history on disk parses to; << >>: nothing

marketVars  == <<states, accountBalance>>
engineVars  == <<lastAlert, alerts>>
trackerVars == <<openTrades, closedTrades, tradingDays, historyFile>>

(* The trader, who is between the calls that belong to an alert, and what  *)
(* has happened.                                                           *)
VARIABLES
  stage,           \* alert -> the last call that was made for it
  resultOf,        \* alert -> result of its trade
  openedOn,        \* alert -> date
  outcomes,        \* trades, in the order of RecordOutcome
  results,         \* [result, date], in the order of RecordTradeResult
  unsaved,         \* the last save of the history failed
  lost,            \* a process began without all of the history
  diskFailures,
  restarts

traderVars  == <<stage, resultOf>>
diskVars    == <<unsaved, lost, diskFailures>>
history     == <<openedOn, outcomes, results, diskVars>>
scannerVars == <<time, guardVars, marketVars, engineVars, trackerVars, traderVars, history,
                 restarts>>

NoData == [price |-> 0, candles |-> [atr |-> 0, swings |-> << >>]]

TypeOK ==
  /\ time \in 0..MaxTime
  /\ day \in [trades : Nat, losses : Nat, pnl : Int, date : 0..Date]
  /\ halted \in BOOLEAN
  /\ DOMAIN alertCooldowns \subseteq DOMAIN alerts /\ DOMAIN openedAt \subseteq DOMAIN alerts
  /\ DOMAIN states = ToSet(Symbols) /\ accountBalance \in Nat
  /\ Len(alerts) <= MaxAlerts /\ openTrades \subseteq DOMAIN alerts
  /\ Len(closedTrades) <= MaxHistory /\ tradingDays \in 0..MaxHistory
  /\ stage \in [DOMAIN alerts -> {"alerted", "cleared", "opened", "monitored", "settled", "done"}]
  /\ unsaved \in BOOLEAN /\ lost \in BOOLEAN
  /\ diskFailures \in 0..MaxDiskFailures /\ restarts \in 0..MaxRestarts

Init ==
  /\ time = 0
  /\ day = NewGuardrails.day /\ halted = NewGuardrails.halted
  /\ alertCooldowns = NewGuardrails.alertCooldowns /\ openedAt = NewGuardrails.openedAt
  /\ states = [s \in ToSet(Symbols) |-> NoData] /\ accountBalance = InitialBalance
  /\ lastAlert = << >> /\ alerts = << >>
  /\ openTrades = {} /\ closedTrades = << >> /\ tradingDays = 0 /\ historyFile = << >>
  /\ stage = << >> /\ resultOf = << >> /\ openedOn = << >>
  /\ outcomes = << >> /\ results = << >>
  /\ unsaved = FALSE /\ lost = FALSE /\ diskFailures = 0 /\ restarts = 0

-----------------------------------------------------------------------------
(* The scan loop.                                                          *)

Scannable(symbol) ==
  /\ states[symbol].price # 0
  /\ symbol \in DOMAIN lastAlert => time - lastAlert[symbol] >= CooldownPerSymbol
  /\ Cardinality(openTrades) < MaxConcurrentTrades

\* Thousandths; half a percent of the price while too few candles tell it.
Volatility(state) ==
  IF state.candles.atr = 0 THEN 5 * state.price ELSE 1000 * state.candles.atr

\* The last swing on the side of the stop; 0: none.
StructureLevel(direction, state) ==
  LET swings == state.candles.swings
      behind == {n \in DOMAIN swings :
                   IF direction = "LONG" THEN ~swings[n].isHigh /\ swings[n].price < state.price
                   ELSE swings[n].isHigh /\ swings[n].price > state.price}
  IN  IF behind = {} THEN 0 ELSE swings[Max(behind)].price

Risk(symbol, direction, score) ==
  RiskParams(direction, states[symbol].price, Volatility(states[symbol]), accountBalance, score,
             StructureLevel(direction, states[symbol]))

\* scoreAndBuild, of what the detectors found for a direction: the number of
\* factors, and whether their signals are strong enough on average.
Qualifies(symbol, direction, found) ==
  /\ found.score > 0 /\ found.score >= MinConfluence /\ found.strong
  /\ Accepted(Risk(symbol, direction, found.score), accountBalance)

AlertsOf(symbol, found) ==
  LET of(d) == IF Qualifies(symbol, d, found[d])
               THEN <<[symbol |-> symbol, createdAt |-> time,
                       risk |-> Risk(symbol, d, found[d].score)]>>
               ELSE << >>
  IN  IF Scannable(symbol) THEN of("LONG") \o of("SHORT") ELSE << >>

Emitted(found) == FlattenSeq([n \in DOMAIN Symbols |-> AlertsOf(Symbols[n], found[Symbols[n]])])

Scan(found) ==
  LET new     == Emitted(found)
      names   == Len(alerts) + 1 .. Len(alerts) + Len(new)
      symbols == {new[n].symbol : n \in DOMAIN new}
  IN  /\ CanTrade
      /\ Len(alerts) + Len(new) <= MaxAlerts
      /\ day' = DayNow
      /\ lastAlert' = [s \in DOMAIN lastAlert \cup symbols |->
                        IF s \in symbols THEN time ELSE lastAlert[s]]
      /\ alerts' = alerts \o new
      /\ RegisterAlertsReceived(names)
      /\ stage' = [a \in DOMAIN stage \cup names |-> IF a \in names THEN "alerted" ELSE stage[a]]
      /\ UNCHANGED <<time, halted, openedAt, marketVars, trackerVars, resultOf, history,
                     restarts>>

\* The guardrails block the scan.
NoScan ==
  /\ ~CanTrade
  /\ ReadDay
  /\ UNCHANGED <<time, marketVars, engineVars, trackerVars, traderVars, history, restarts>>

-----------------------------------------------------------------------------
(* The trader.                                                             *)

At(alert, call) == alert \in DOMAIN stage /\ stage[alert] = call
Calls(alert, call) == stage' = [stage EXCEPT ![alert] = call]

\* The answer of CheckPreTrade.
Allowed(alert) == CanTrade /\ Waited(alert)

\* A trader waits for the answer of the gate and acts on it before asking
\* again: between the check and RecordTradeOpened nothing is reserved.
CheckPreTrade(alert) ==
  /\ At(alert, "alerted")
  /\ \A a \in DOMAIN stage : stage[a] # "cleared"
  /\ IF Allowed(alert) THEN Calls(alert, "cleared") ELSE UNCHANGED stage
  /\ ReadDay
  /\ UNCHANGED <<time, marketVars, engineVars, trackerVars, resultOf, history, restarts>>

\* The trader lets a cleared alert pass.
Decline(alert) ==
  /\ At(alert, "cleared") /\ Calls(alert, "done")
  /\ UNCHANGED <<time, guardVars, marketVars, engineVars, trackerVars, resultOf, history,
                 restarts>>

OpenTrade(alert) ==
  /\ At(alert, "cleared") /\ Calls(alert, "opened")
  /\ RecordTradeOpened(alert)
  /\ openedOn' = Put(openedOn, alert, Date)
  /\ UNCHANGED <<time, marketVars, engineVars, trackerVars, resultOf, outcomes, results,
                 diskVars, restarts>>

\* The trade is entered as planned: at the entry of the alert, with its stop
\* and its first target.
RegisterTrade(alert) ==
  /\ At(alert, "opened") /\ Calls(alert, "monitored")
  /\ openTrades' = openTrades \cup {alert}
  /\ UNCHANGED <<time, guardVars, marketVars, engineVars, closedTrades, tradingDays, historyFile,
                 resultOf, history, restarts>>

\* Ten-thousandths of the unit of price that a trade gains at an exit.
Gain(alert, exit) ==
  LET entry == alerts[alert].risk.entry
  IN  10000 * (IF alerts[alert].risk.direction = "LONG" THEN exit - entry ELSE entry - exit)

\* The gain in tenths of R, the distance to the stop.
ResultInR(alert, exit) == (10 * Gain(alert, exit)) \div alerts[alert].risk.distance

\* The profit or loss, after fees, is 1% of the value of the trade.
CountsForTradingDay(alert, exit) ==
  LET entry == alerts[alert].risk.entry
      net   == Gain(alert, exit) - FeeRate * entry
  IN  net >= 100 * entry \/ -net >= 100 * entry

\* Mutant: a stop is compared the same way in both directions.
StopsFromBelow(alert, exit) ==
  LET risk    == alerts[alert].risk
      stopped == 10000 * exit <= StopLoss(risk)
      reached == IF risk.direction = "LONG" THEN 10000 * exit >= TakeProfit1(risk)
                 ELSE 10000 * exit <= TakeProfit1(risk)
  IN  CASE alert \in openTrades /\ stopped -> "SL_HIT"
        [] alert \in openTrades /\ ~stopped /\ reached -> "TP_HIT"
        [] OTHER -> "MANUAL_CLOSE"

DetermineOutcome(alert, exit) ==
  LET risk    == alerts[alert].risk
      stopped == IF risk.direction = "LONG" THEN 10000 * exit <= StopLoss(risk)
                 ELSE 10000 * exit >= StopLoss(risk)
      reached == IF risk.direction = "LONG" THEN 10000 * exit >= TakeProfit1(risk)
                 ELSE 10000 * exit <= TakeProfit1(risk)
  IN  CASE alert \in openTrades /\ stopped -> "SL_HIT"
        [] alert \in openTrades /\ ~stopped /\ reached -> "TP_HIT"
        [] OTHER -> "MANUAL_CLOSE"

\* CheckPriceForOutcome: the trades of the symbol that a price closes.
Triggered(symbol, price) ==
  {a \in openTrades : /\ alerts[a].symbol = symbol
                      /\ LET risk == alerts[a].risk
                         IN  IF risk.direction = "LONG"
                             THEN \/ 10000 * price <= StopLoss(risk)
                                  \/ 10000 * price >= TakeProfit1(risk)
                             ELSE \/ 10000 * price >= StopLoss(risk)
                                  \/ 10000 * price <= TakeProfit1(risk)}

Kept(trades) ==
  IF Len(trades) > MaxHistory
  THEN SubSeq(trades, Len(trades) - MaxHistory + 1, Len(trades)) ELSE trades

\* recomputeStats
DaysOf(trades) == Cardinality({t.date : t \in {u \in ToSet(trades) : u.counted}})

\* One more save or load of the history fails.
DiskFails == diskFailures < MaxDiskFailures /\ diskFailures' = diskFailures + 1

\* Mutant: the file is written before the trade is in the history.
SavesBefore ==
  \/ historyFile' = closedTrades /\ unsaved' = FALSE /\ UNCHANGED diskFailures
  \/ historyFile' \in {historyFile, << >>} /\ unsaved' = TRUE /\ DiskFails

\* saveHistory writes all of the history.  A failure is only logged and leaves
\* the file as it was, or cut short, so that it does not parse.
SaveHistory ==
  \/ historyFile' = closedTrades' /\ unsaved' = FALSE /\ UNCHANGED diskFailures
  \/ historyFile' \in {historyFile, << >>} /\ unsaved' = TRUE /\ DiskFails

RecordsOutcome(trade) ==
  /\ closedTrades' = Kept(Append(closedTrades, trade))
  /\ tradingDays' = DaysOf(closedTrades')
  /\ SaveHistory
  /\ openTrades' = openTrades \ {trade.alert}

\* The trader closes a trade at the price of the market, or learns that the
\* exchange did.  A trade that is not monitored is refused.
RecordOutcome(alert) ==
  LET exit  == MarketAt[time][alerts[alert].symbol].price
      trade == [alert |-> alert, outcome |-> DetermineOutcome(alert, exit), date |-> Date,
                counted |-> CountsForTradingDay(alert, exit)]
  IN  /\ At(alert, "monitored") /\ Calls(alert, "settled")
      /\ IF alert \in openTrades
         THEN RecordsOutcome(trade) /\ outcomes' = Append(outcomes, trade)
         ELSE UNCHANGED <<trackerVars, outcomes, unsaved, diskFailures>>
      /\ resultOf' = Put(resultOf, alert, ResultInR(alert, exit))
      /\ UNCHANGED <<time, guardVars, marketVars, engineVars, openedOn, results, lost,
                     restarts>>

ReportResult(alert) ==
  /\ At(alert, "settled") /\ Calls(alert, "done")
  /\ RecordTradeResult(alert, resultOf[alert])
  /\ results' = Append(results, [result |-> resultOf[alert], date |-> Date])
  /\ UNCHANGED <<time, marketVars, engineVars, trackerVars, resultOf, openedOn, outcomes,
                 diskVars, restarts>>

HaltOrResume(value) ==
  /\ halted # value /\ SetHalted(value)
  /\ UNCHANGED <<time, marketVars, engineVars, trackerVars, traderVars, history, restarts>>

-----------------------------------------------------------------------------

\* loadHistory: a file that cannot be read or parsed leaves an empty history.
LoadHistory ==
  /\ \/ closedTrades' = historyFile /\ lost' = (lost \/ unsaved) /\ UNCHANGED diskFailures
     \/ closedTrades' = << >> /\ lost' = TRUE /\ DiskFails
  /\ tradingDays' = DaysOf(closedTrades')
  /\ unsaved' = FALSE

\* Of all the state only the file of the tracker outlives the process.
Restart ==
  /\ restarts < MaxRestarts /\ restarts' = restarts + 1
  /\ day' = NewGuardrails.day /\ halted' = NewGuardrails.halted
  /\ alertCooldowns' = NewGuardrails.alertCooldowns /\ openedAt' = NewGuardrails.openedAt
  /\ states' = [s \in ToSet(Symbols) |-> NoData] /\ accountBalance' = InitialBalance
  /\ lastAlert' = << >>
  /\ openTrades' = {} /\ LoadHistory
  /\ UNCHANGED <<time, alerts, historyFile, traderVars, openedOn, outcomes, results>>

\* Time passes, and UpdateMarketState, UpdateCandles and UpdateAccountBalance
\* bring what is new.
Tick ==
  /\ time < MaxTime /\ time' = time + 1
  /\ states' = MarketAt[time'] /\ accountBalance' = BalanceAt[time']
  /\ UNCHANGED <<guardVars, engineVars, trackerVars, traderVars, history, restarts>>

Next ==
  \/ \E found \in [ToSet(Symbols) -> Findings] : Scan(found)
  \/ NoScan
  \/ \E a \in Alerts : CheckPreTrade(a)
  \/ \E a \in Alerts : Decline(a)
  \/ \E a \in Alerts : OpenTrade(a)
  \/ \E a \in Alerts : RegisterTrade(a)
  \/ \E a \in Alerts : a \in DOMAIN alerts /\ RecordOutcome(a)
  \/ \E a \in Alerts : ReportResult(a)
  \/ \E value \in BOOLEAN : HaltOrResume(value)
  \/ Restart
  \/ Tick

Spec == Init /\ [][Next]_scannerVars

-----------------------------------------------------------------------------
(* Properties.                                                             *)

OpenedToday == {a \in DOMAIN openedOn : openedOn[a] = Date}
ResultsToday == {n \in DOMAIN results : results[n].date = Date}

\* Of the results with the numbers of a set.
LossesInARow(ns) ==
  Cardinality({n \in ns : \A k \in ns : k >= n => results[k].result < 0})
Total(ns) == SumFunction([n \in ns |-> results[n].result])

WithinLimits(alert) ==
  /\ ~halted
  /\ Cardinality(OpenedToday) < MaxTradesPerDay
  /\ LossesInARow(ResultsToday) < MaxConsecutiveLosses
  /\ Total(ResultsToday) > DailyStopLoss
  /\ time >= alerts[alert].createdAt + CooldownAfterAlert

\* After one of the results of the day the losses reached a limit.
StoppedToday ==
  \E last \in ResultsToday :
    LET until == {n \in ResultsToday : n <= last}
    IN  LossesInARow(until) >= MaxConsecutiveLosses \/ Total(until) <= DailyStopLoss

\* "This is the SINGLE gate" (CheckPreTrade, guardrails.go:94): at any moment
\* an alert is allowed only if what was really opened and reported on the day of
\* the clock is within the limits and the alert is old enough, whichever calls
\* rolled the day, trades of the day before included; and on a day without a
\* stop no alert within the limits is refused.  Whether a stop lasts when a trade
\* that was open is then reported as won is left open.
GateKeepsLimits ==
  restarts = 0 =>
    \A a \in DOMAIN stage : At(a, "alerted") =>
      /\ Allowed(a) => WithinLimits(a)
      /\ WithinLimits(a) /\ ~StoppedToday => Allowed(a)

\* "MaxTradesPerDay is the absolute max directional trades per calendar day"
\* (guardrails.go:13): also when an alert is cleared before midnight and its
\* trade is opened after it.  A restart forgets the count.
TradesPerDay ==
  restarts = 0 =>
    \A date \in 0..Date :
      Cardinality({a \in DOMAIN openedOn : openedOn[a] = date}) <= MaxTradesPerDay

\* Each trade is an outcome that was recorded, and those before it in the
\* history were recorded before it.
InOrder(trades) ==
  \A j \in DOMAIN trades : \E n \in DOMAIN outcomes :
    /\ trades[j] = outcomes[n]
    /\ \A i \in 1 .. j - 1 : \E m \in 1 .. n - 1 : trades[i] = outcomes[m]

CountedDates ==
  {date \in 0..Date : \E n \in DOMAIN outcomes : outcomes[n].counted /\ outcomes[n].date = date}

\* The history is the end of the outcomes that were ever recorded, by whichever
\* process, unless a process ended after a save that failed, with no later one
\* that succeeded, or began with a file it could not read (loadHistory and
\* saveHistory, tracker.go:432-455).  Even then nothing is made up or out of
\* order, and the statistics never report a trading day that was not (RecordOutcome
\* and recomputeStats, tracker.go:143 and 363).
HistorySurvives ==
  /\ ~lost => closedTrades = Kept(outcomes)
  /\ ~lost /\ Len(outcomes) <= MaxHistory => tradingDays = Cardinality(CountedDates)
  /\ InOrder(closedTrades) /\ tradingDays <= Cardinality(CountedDates)

\* A trade that is recorded as stopped lost, one recorded at its target gained,
\* and exactly those were to be closed at the price (DetermineOutcome and
\* CheckPriceForOutcome, tracker.go:205-271, against the levels of
\* risk_manager.go:163).
StopsLoseTargetsGain ==
  [][\A a \in openTrades \ openTrades' : restarts' = restarts =>
       LET outcome == Last(closedTrades').outcome
       IN  /\ outcome = "SL_HIT" => resultOf'[a] < 0
           /\ outcome = "TP_HIT" => resultOf'[a] > 0
           /\ outcome # "MANUAL_CLOSE" <=>
                a \in Triggered(alerts[a].symbol, MarketAt[time][alerts[a].symbol].price)]_scannerVars

\* Every alert carries a plan whose stop and targets lie in order and within
\* their limits and which risks no more than its share of the balance of the
\* moment (ComputeRiskParams, risk_manager.go:96), whatever structure,
\* volatility and score the market gave.
PlansWithinRules ==
  [][\A a \in DOMAIN alerts' \ DOMAIN alerts : WithinRules(alerts'[a].risk, accountBalance)
    ]_scannerVars
=============================================================================
