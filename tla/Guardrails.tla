----------------------------- MODULE Guardrails -----------------------------
(***************************************************************************)
(* The trader's guardrails (internal/scanner/guardrails.go): daily limits  *)
(* on trades, losses in a row and loss, a wait after every alert, a halt.  *)
(* Results are in tenths of R.                                             *)
(***************************************************************************)
EXTENDS Integers, Functions

CONSTANTS
  DayLength,              \* ticks in a day
  MaxTradesPerDay, MaxConsecutiveLosses,
  DailyStopLoss,          \* DailyStopLossR, negative
  CooldownAfterAlert,     \* in ticks
  MaxTime                 \* bound on the clock

ASSUME GuardrailAssumption ==
  /\ DayLength \in Nat \ {0}
  /\ MaxTradesPerDay \in Nat /\ MaxConsecutiveLosses \in Nat
  /\ DailyStopLoss \in Int /\ DailyStopLoss < 0
  /\ CooldownAfterAlert \in Nat /\ MaxTime \in Nat

VARIABLES
  time,
  day,              \* [trades, losses, pnl, date]: the daily state
  halted,
  alertCooldowns,   \* alert -> earliest execution
  openedAt          \* openTradeTimestamps: alert -> when its trade was opened

guardVars == <<day, halted, alertCooldowns, openedAt>>

Date == time \div DayLength

NewDay == [trades |-> 0, losses |-> 0, pnl |-> 0, date |-> Date]

NewGuardrails ==
  [day |-> NewDay, halted |-> FALSE, alertCooldowns |-> << >>, openedAt |-> << >>]

\* Mutant: a row of losses outlives midnight.
LossesRunOn == IF day.date = Date THEN day ELSE [NewDay EXCEPT !.losses = day.losses]

\* maybeResetDaily.  Halts, cooldowns and open trades outlive midnight.
DayNow == IF day.date = Date THEN day ELSE NewDay

CanTrade ==
  /\ ~halted
  /\ DayNow.trades < MaxTradesPerDay
  /\ DayNow.losses < MaxConsecutiveLosses
  /\ DayNow.pnl > DailyStopLoss

Waited(alert) == alert \in DOMAIN alertCooldowns => time >= alertCooldowns[alert]

\* Neither DailyStatus nor CheckPreTrade changes more than the day.
ReadDay == day' = DayNow /\ UNCHANGED <<halted, alertCooldowns, openedAt>>

RegisterAlertsReceived(alerts) ==
  alertCooldowns' = [a \in DOMAIN alertCooldowns \cup alerts |->
                       IF a \in alerts THEN time + CooldownAfterAlert ELSE alertCooldowns[a]]

\* A map with a value for a key.
Put(map, key, value) ==
  [k \in DOMAIN map \cup {key} |-> IF k = key THEN value ELSE map[k]]

\* Mutant: the day is not rolled first.
OpenedOnOldDay(alert) ==
  /\ day' = [day EXCEPT !.trades = @ + 1]
  /\ openedAt' = Put(openedAt, alert, time)
  /\ UNCHANGED <<halted, alertCooldowns>>

RecordTradeOpened(alert) ==
  /\ day' = [DayNow EXCEPT !.trades = @ + 1]
  /\ openedAt' = Put(openedAt, alert, time)
  /\ UNCHANGED <<halted, alertCooldowns>>

RecordTradeResult(alert, result) ==
  /\ day' = [DayNow EXCEPT !.pnl = @ + result,
                           !.losses = IF result < 0 THEN @ + 1 ELSE 0]
  /\ openedAt' = Restrict(openedAt, DOMAIN openedAt \ {alert})
  /\ alertCooldowns' = Restrict(alertCooldowns, DOMAIN alertCooldowns \ {alert})
  /\ UNCHANGED halted

SetHalted(value) == halted' = value /\ UNCHANGED <<day, alertCooldowns, openedAt>>
=============================================================================
