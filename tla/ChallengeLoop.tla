---------------------------- MODULE ChallengeLoop ----------------------------
(***************************************************************************)
(* The challenge-daemon process (cmd/challenge-daemon/main.go): the single *)
(* select loop that drives a ChallengeDaemon, the equity key it polls, and *)
(* restarts of the process.  The loop never calls RecordTrade,             *)
(* ConfirmStopLoss, ConfirmPairedStopLoss, ClosePosition or Reset, so they *)
(* are not part of its next-state relation.                                *)
(***************************************************************************)
EXTENDS ChallengeDaemon

CONSTANTS
  NoReading,        \* the equity key has expired or was never written
  MaxRestarts,      \* bound: restarts of the process
  MaxSafetyTrades   \* bound: safety trades counted per day

ASSUME LoopAssumption ==
  /\ NoReading \notin Equities
  /\ MaxRestarts \in Nat /\ MaxSafetyTrades \in Nat
  /\ \A i \in Intents : Len(i.legs) > 0

VARIABLES
  equityKey,        \* the risk daemon's equity:current, which expires
  safetyTrades,     \* safety trades published today
  restarts

loopVars == <<equityKey, safetyTrades, restarts>>
allVars  == <<vars, loopVars>>

LoopTypeOK ==
  /\ TypeOK
  /\ equityKey \in Equities \cup {NoReading}
  /\ safetyTrades \in 0..MaxSafetyTrades
  /\ restarts \in 0..MaxRestarts

LoopInit ==
  /\ Init
  /\ equityKey = NoReading
  /\ safetyTrades = 0 /\ restarts = 0

-----------------------------------------------------------------------------

\* The margin booked for an approved intent: its notional per leg.
PerLegNotional(intent) == IntentNotional(intent) \div Len(intent.legs)

\* pollTicker, one message: validate, and if approved track the position and
\* publish the intent for execution.  The tickers run on one goroutine, so
\* nothing else reaches the daemon between the two calls.  A publish that fails
\* is only logged: the position stays tracked all the same.
ApproveIntent(intent) ==
  /\ Admits(intent)
  /\ ResetDailyIfNeeded
  /\ verdict' = "approved"
  /\ positions' = Tracked(intent.symbol, IntentNotional(intent),
                          PerLegNotional(intent))
  /\ uncovered' = UncoveredWith(intent.symbol)
  /\ UNCHANGED <<clockVars, currentEquity, tradeVars, tradingDays, halted,
                 dayPeak, breached, equityKey, safetyTrades, restarts>>

RejectIntent(intent) ==
  /\ ~Admits(intent)
  /\ ValidateIntent(intent)
  /\ UNCHANGED loopVars

\* equityTicker: a missing key leaves the daemon with the equity it has.
EquityTick ==
  /\ equityKey # NoReading
  /\ UpdateEquity(equityKey)
  /\ UNCHANGED loopVars

\* safetyTicker: published straight to the approved stream, without
\* ValidateIntent, TrackPosition or a check of the halt.
SafetyTick ==
  /\ CheckSafetyTrade
  /\ safetyTrades < MaxSafetyTrades
  /\ safetyTrades' = safetyTrades + 1
  /\ UNCHANGED <<vars, equityKey, restarts>>

\* The risk daemon writes the key with a time to live.
PublishReading(e) ==
  /\ equityKey # e
  /\ equityKey' = e
  /\ UNCHANGED <<vars, safetyTrades, restarts>>

ReadingExpires ==
  /\ equityKey # NoReading
  /\ equityKey' = NoReading
  /\ UNCHANGED <<vars, safetyTrades, restarts>>

\* The process dies and NewDaemon starts again from the configuration: it
\* keeps nothing.  What is true of the account does not change.
Restart ==
  /\ restarts < MaxRestarts
  /\ restarts' = restarts + 1
  /\ currentEquity' = InitialBalance /\ dailyHighWater' = InitialBalance
  /\ lastResetDate' = today
  /\ totalProfit' = 0 /\ totalLoss' = 0 /\ closedTradeCount' = 0
  /\ positions' = << >> /\ uncovered' = << >>
  /\ tradingDays' = {} /\ tradedToday' = FALSE
  /\ halted' = FALSE /\ verdict' = "none"
  /\ UNCHANGED <<clockVars, dayPeak, breached, equityKey, safetyTrades>>

ClockTick ==
  /\ Tick
  /\ safetyTrades' = IF today' = today THEN safetyTrades ELSE 0
  /\ UNCHANGED <<equityKey, restarts>>

LoopNext ==
  \/ \E i \in Intents : ApproveIntent(i) \/ RejectIntent(i)
  \/ EquityTick
  \/ SafetyTick
  \/ \E e \in Equities : PublishReading(e)
  \/ ReadingExpires
  \/ Restart
  \/ ClockTick

LoopSpec == LoopInit /\ [][LoopNext]_allVars

-----------------------------------------------------------------------------
(* Properties.                                                             *)

\* On a funded account with the checks switched on, the margin tracked for
\* the approved intents never exceeds the cap, although each intent is checked
\* with its full notional and booked per leg, and may replace the position of
\* its symbol.
FundedMarginCapped ==
  Enabled /\ Mode = "funded"
    => TotalMargin * Whole <= InitialBalance * MaxMarginExposure

\* The deployed daemon never confirms a stop, so a position that is overdue
\* stays overdue while the process lives: no approval replaces it, and from
\* then on every intent is rejected.
OverdueForGood ==
  [][Enabled /\ restarts' = restarts =>
       PositionsWithExpiredStopLoss \subseteq PositionsWithExpiredStopLoss']_allVars

\* What the deployed daemon knows of closed trades: nothing.  It counts no
\* trading day and no profit.
NothingRecorded ==
  /\ ~tradedToday /\ tradingDays = {}
  /\ totalProfit = 0 /\ totalLoss = 0 /\ closedTradeCount = 0

\* So in the challenge phases an intent that expects a profit is its own
\* whole total and is never approved, unless one trade may be the whole of
\* the profit.
ProfitableIntentsStarve ==
  [][\A i \in Intents :
       Enabled /\ Mode # "funded" /\ ProfitDistribution < Whole /\ i.profit > 0
         => ~ApproveIntent(i)]_allVars
=============================================================================
