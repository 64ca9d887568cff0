------------------------------- MODULE RiskLoop -------------------------------
(***************************************************************************)
(* The risk-daemon process (cmd/risk-daemon/main.go): the select loop that *)
(* polls the exchange account, drives a RiskDaemon and the margin monitor  *)
(* of internal/risk/margin.go, and publishes the mode that gates the       *)
(* execution router.  The loop never calls RecordFill, and SetMode only on *)
(* margin alerts: there is no operator command.                            *)
(***************************************************************************)
EXTENDS RiskDaemon

CONSTANTS
  MarginCritical, MarginHalt,  \* of the equity
  Margins,                     \* margin in use the account poll may give
  ExchangeBooks,               \* positions as the exchange client reports
                               \* them: <<[side, quantity]>>
  NoKey,                       \* risk:mode has never been written
  MaxRestarts                  \* bound: restarts of the process

ASSUME RiskLoopAssumption ==
  /\ MarginCritical \in Nat /\ MarginHalt \in Nat
  /\ MarginCritical < MarginHalt
  /\ Margins \subseteq Nat
  /\ NoKey \notin Modes
  /\ MaxRestarts \in Nat

VARIABLES
  modeKey,        \* risk:mode, written without a time to live
  restarts

loopVars == <<modeKey, restarts>>
allVars  == <<vars, loopVars>>

LoopTypeOK ==
  /\ TypeOK
  /\ modeKey \in Modes \cup {NoKey}
  /\ restarts \in 0..MaxRestarts

LoopInit ==
  /\ Init
  /\ modeKey = NoKey /\ restarts = 0

-----------------------------------------------------------------------------
(* The margin monitor.  Its WARN level changes no mode.                    *)

MarginRatioAtLeast(used, equity, limit) ==
  equity > 0 /\ used * Whole >= limit * equity

\* Mutant: a critical margin sets the next milder mode.
SafeOnCriticalMargin(current, used, equity) ==
  IF MarginRatioAtLeast(used, equity, MarginHalt)          THEN Halted
  ELSE IF MarginRatioAtLeast(used, equity, MarginCritical) THEN Safe
  ELSE current

\* The mode a margin reading sets, whatever the mode was.
ModeAfterMargin(current, used, equity) ==
  IF MarginRatioAtLeast(used, equity, MarginHalt)          THEN Halted
  ELSE IF MarginRatioAtLeast(used, equity, MarginCritical) THEN Flatten
  ELSE current

\* equityTicker: UpdateEquity, then the margin alerts, then Tick.
EquityPoll(equity, used) ==
  LET peak    == Higher(peakEquity, equity)
      daily   == DailyPeakWith(equity)
      told    == readings \cup {[day |-> today, equity |-> equity]}
      updated == Evaluated(mode, fillEvents, peak, daily, equity)
      set     == ModeAfterMargin(updated, used, equity)
      demand  == RecordDemand(told, today, equity, fills)
      bySet   == MarginRatioAtLeast(used, equity, MarginCritical)
  IN  /\ Cardinality(told) <= MaxReadings
      /\ currentEquity' = equity
      /\ peakEquity' = peak
      /\ dailyPeakEquity' = daily
      /\ lastDailyReset' = today
      /\ fillEvents' = PruneOlderThan(fillEvents)
      /\ mode' = Evaluated(set, fillEvents', peak, daily, equity)
      /\ readings' = told
      /\ setMode' = IF bySet THEN set ELSE setMode
      /\ worst' = IF bySet THEN demand ELSE Higher(worst, demand)
      /\ UNCHANGED <<clockVars, fills, bookVars, loopVars>>

-----------------------------------------------------------------------------
(* positionTicker.                                                         *)

\* The side is passed on as the exchange client names it, the size is the
\* quantity in units of the coin: no side is "Sell", so nothing is netted.
Snapshot(book) ==
  [i \in DOMAIN book |-> [side |-> book[i].side, size |-> book[i].quantity]]

PositionPoll(book) ==
  /\ RecordPositionSnapshot(Snapshot(book))
  /\ UNCHANGED loopVars

\* Mutant: the key is only written when it is missing.
PublishMissingState ==
  /\ modeKey = NoKey
  /\ modeKey' = mode
  /\ UNCHANGED <<vars, restarts>>

\* stateTicker.
PublishState ==
  /\ modeKey' = mode
  /\ UNCHANGED <<vars, restarts>>

\* The process dies and NewDaemon starts again with nothing but the
\* configuration; the key stays.
Restart ==
  /\ restarts < MaxRestarts
  /\ restarts' = restarts + 1
  /\ mode' = Running /\ setMode' = Running /\ worst' = Running
  /\ peakEquity' = 0 /\ currentEquity' = 0 /\ dailyPeakEquity' = 0
  /\ lastDailyReset' = today
  /\ fillEvents' = {} /\ unhedgedSince' = 0 /\ unhedgedRun' = {}
  /\ UNCHANGED <<clockVars, readings, fills, modeKey>>

ClockTick == Tick /\ UNCHANGED loopVars

LoopNext ==
  \/ \E e \in Equities, m \in Margins : EquityPoll(e, m)
  \/ \E b \in ExchangeBooks : PositionPoll(b)
  \/ PublishState
  \/ Restart
  \/ ClockTick

\* The ticker of the state fires every fifteen seconds and select chooses
\* at random among the cases that are ready, so it is served in the end.
LoopSpec == LoopInit /\ [][LoopNext]_allVars /\ WF_allVars(PublishState)

-----------------------------------------------------------------------------
(* Properties.                                                             *)

Blocks(m) == m \in {Flatten, Halted}

\* While the process lives, the router's gate does not reopen once it has
\* seen FLATTEN or HALTED: margin alerts, the only callers of SetMode, may
\* lower the mode but not below FLATTEN.
GateStaysClosed ==
  [][Blocks(modeKey) /\ restarts' = 0 => Blocks(modeKey')]_allVars

\* A mode that must stop the router reaches the key it reads, unless the
\* process dies first.
BlockReachesGate ==
  \A n \in 0..MaxRestarts :
    Blocks(mode) /\ restarts = n ~> Blocks(modeKey) \/ restarts > n

\* "No automatic de-escalation" (types.go, comment on Mode) is not kept: a
\* critical margin lowers HALTED.  Nothing else does, and nothing is lowered
\* further than FLATTEN.
LoweredByMarginOnly ==
  [][restarts' = restarts /\ mode' < mode => mode = Halted /\ mode' = Flatten]_allVars

=============================================================================
