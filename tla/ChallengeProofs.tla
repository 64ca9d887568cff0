--------------------------- MODULE ChallengeProofs ---------------------------
(***************************************************************************)
(* Proofs about ChallengeDaemon and the process around it, ChallengeLoop,  *)
(* for every configuration Config.validate accepts and any set of          *)
(* readings, trades, positions and intents.                                *)
(***************************************************************************)
EXTENDS ChallengeLoop, SumTheorems

-----------------------------------------------------------------------------
(* The classification of a loss.                                           *)

\* A classification is one of the four levels.
LEMMA LevelOfType ==
  ASSUME NEW loss \in Int, NEW base \in Int,
         NEW soft \in Nat, NEW hard \in Nat, NEW breach \in Nat
  PROVE  LevelOf(loss, base, soft, hard, breach) \in Levels
BY DEF LevelOf, Levels, Normal, Soft, Hard, Breach

\* A loss is a breach exactly when it is a loss and reaches the limit.
LEMMA LevelOfBreach ==
  ASSUME NEW loss \in Int, NEW base \in Int,
         NEW soft \in Nat, NEW hard \in Nat, NEW breach \in Nat
  PROVE  LevelOf(loss, base, soft, hard, breach) = Breach
           <=> loss > 0 /\ AtLeast(loss, base, breach)
BY DEF LevelOf, Normal, Soft, Hard, Breach

\* Multiplying out the percentage of a loss, and of what is left, agree.
LEMMA ShareLeft ==
  ASSUME NEW peak \in Int, NEW equity \in Int, NEW limit \in Nat
  PROVE  (peak - equity) * Whole >= limit * peak
           <=> equity * Whole <= (Whole - limit) * peak
BY SMT DEF Whole

\* Each check returns one of the levels, and a breach exactly when the
\* reading breaks the limit.
LEMMA DailyDrawdown ==
  ASSUME NEW equity \in Int, NEW peak \in Int
  PROVE  /\ CheckDailyDrawdown(equity, peak) \in Levels
         /\ CheckDailyDrawdown(equity, peak) = Breach
              <=> /\ peak > 0 /\ equity < peak
                  /\ equity * Whole <= (Whole - DailyBreach) * peak
<1> DEFINE loss == peak - equity
<1>1. /\ loss \in Int
      /\ DailySoft \in Nat /\ DailyHard \in Nat /\ DailyBreach \in Nat
  BY ConfigAssumption
<1>2. loss * Whole >= DailyBreach * peak
        <=> equity * Whole <= (Whole - DailyBreach) * peak
  BY <1>1, ShareLeft
<1>3. loss > 0 <=> equity < peak
  OBVIOUS
<1> HIDE DEF loss
<1>4. /\ LevelOf(loss, peak, DailySoft, DailyHard, DailyBreach) \in Levels
      /\ LevelOf(loss, peak, DailySoft, DailyHard, DailyBreach) = Breach
           <=> loss > 0 /\ AtLeast(loss, peak, DailyBreach)
  BY <1>1, LevelOfType, LevelOfBreach
<1>5. CheckDailyDrawdown(equity, peak)
        = LevelOf(loss, peak, DailySoft, DailyHard, DailyBreach)
  BY DEF CheckDailyDrawdown, loss
<1> QED
  BY <1>2, <1>3, <1>4, <1>5, Zenon DEF AtLeast

\* The same of the overall check.
LEMMA OverallDrawdown ==
  ASSUME NEW equity \in Int
  PROVE  /\ CheckOverallDrawdown(equity) \in Levels
         /\ CheckOverallDrawdown(equity) = Breach
              <=> /\ equity < InitialBalance
                  /\ equity * Whole <= (Whole - OverallBreach) * InitialBalance
<1> DEFINE loss == InitialBalance - equity
<1>1. /\ loss \in Int /\ InitialBalance \in Int /\ InitialBalance > 0
      /\ OverallSoft \in Nat /\ OverallHard \in Nat /\ OverallBreach \in Nat
  BY ConfigAssumption
<1>2. loss * Whole >= OverallBreach * InitialBalance
        <=> equity * Whole <= (Whole - OverallBreach) * InitialBalance
  BY <1>1, ShareLeft
<1>3. loss > 0 <=> equity < InitialBalance
  BY <1>1
<1> HIDE DEF loss
<1>4. /\ LevelOf(loss, InitialBalance, OverallSoft, OverallHard, OverallBreach)
           \in Levels
      /\ LevelOf(loss, InitialBalance, OverallSoft, OverallHard, OverallBreach)
           = Breach
           <=> loss > 0 /\ AtLeast(loss, InitialBalance, OverallBreach)
  BY <1>1, LevelOfType, LevelOfBreach
<1>5. CheckOverallDrawdown(equity)
        = LevelOf(loss, InitialBalance, OverallSoft, OverallHard, OverallBreach)
  BY DEF CheckOverallDrawdown, loss
<1> QED
  BY <1>1, <1>2, <1>3, <1>4, <1>5, Zenon DEF AtLeast

\* The daemon's two checks report a breach exactly when the reading breaks
\* a loss limit.
LEMMA BreachIsLossLimitBroken ==
  ASSUME NEW equity \in Int, NEW peak \in Int
  PROVE  Breach \in {CheckDailyDrawdown(equity, peak), CheckOverallDrawdown(equity)}
           <=> LossLimitBroken(equity, peak)
BY DailyDrawdown, OverallDrawdown, Zenon DEF LossLimitBroken

-----------------------------------------------------------------------------
(* Types.                                                                  *)

\* A daemon starts with every variable of its type.
LEMMA TypeCorrectInit == Init => TypeOK
<1> SUFFICES ASSUME Init PROVE TypeOK
  OBVIOUS
<1>1. DOMAIN positions = {} /\ DOMAIN uncovered = {}
  BY DEF Init
<1>2. positions \in [{} -> Position] /\ uncovered \in [{} -> Nat]
  BY DEF Init
<1>3. InitialBalance \in Int
  BY ConfigAssumption
<1>4. dayPeak \in [day : Nat, peak : Int]
  BY <1>3 DEF Init
<1>5. /\ now = 0 /\ today = 0 /\ lastResetDate = 0
      /\ currentEquity \in Int /\ dailyHighWater \in Int
      /\ totalProfit = 0 /\ totalLoss = 0 /\ closedTradeCount = 0
      /\ tradingDays = {} /\ tradedToday = FALSE /\ halted = FALSE
      /\ verdict = "none" /\ breached = FALSE
  BY <1>3 DEF Init, Levels, Normal, Breach
<1> QED
  BY <1>1, <1>2, <1>4, <1>5 DEF TypeOK

\* Every variable keeps its type, whatever the callers do.
THEOREM TypeCorrect == Spec => []TypeOK
<1>1. Init => TypeOK
  BY TypeCorrectInit
<1>2. TypeOK /\ [Next]_vars => TypeOK'
  <2> SUFFICES ASSUME TypeOK, [Next]_vars
               PROVE  TypeOK'
    OBVIOUS
  <2> USE DEF TypeOK
  <2>1. ASSUME NEW e \in Equities, UpdateEquity(e)
        PROVE  TypeOK'
    <3>1. e \in Int
      BY DaemonAssumption
    <3>2. /\ CheckDailyDrawdown(e, Higher(HighWaterAfterRoll, e)) \in Levels
          /\ CheckOverallDrawdown(e) \in Levels
      <4>1. Higher(HighWaterAfterRoll, e) \in Int
        BY <3>1 DEF Higher, HighWaterAfterRoll
      <4> QED
        BY <3>1, <4>1, DailyDrawdown, OverallDrawdown
    <3>3. /\ tradedToday' \in BOOLEAN /\ halted' \in BOOLEAN
          /\ breached' \in BOOLEAN
      <4>1. TradedAfterRoll \in BOOLEAN
        BY Zenon DEF TradedAfterRoll
      <4> QED
        BY <2>1, <3>2, <4>1, Zenon DEF UpdateEquity, HaltedAfter
    <3> QED
      BY <2>1, <3>1, <3>2, <3>3
      DEF UpdateEquity, clockVars, tradeVars, PeakWith, Higher,
          HighWaterAfterRoll, TradedAfterRoll
  <2>2. ASSUME NEW p \in PnLs, RecordTrade(p)
        PROVE  TypeOK'
    <3>1. p \in Int
      BY DaemonAssumption
    <3>2. totalProfit' \in Nat /\ totalLoss' \in Nat
      BY <2>2, <3>1 DEF RecordTrade, LossOf
    <3> QED
      BY <2>2, <3>2
      DEF RecordTrade, clockVars, historyVars, HighWaterAfterRoll
  <2>3. ASSUME NEW s \in Symbols, NEW x \in Exposures, TrackPosition(s, x)
        PROVE  TypeOK'
    <3> DEFINE p == [openTime |-> now, deadline |-> StopLossDeadlineOf(now),
                     hasStopLoss |-> FALSE, notional |-> x.notional,
                     margin |-> x.margin]
               since == IF s \in DOMAIN positions /\ ~positions[s].hasStopLoss
                        THEN uncovered[s] ELSE now
    <3>1. p \in Position
      <4>1. x \in [notional : Nat, margin : Nat]
        BY DaemonAssumption
      <4>2. StopLossDeadlineOf(now) \in Nat
        BY ConfigAssumption DEF StopLossDeadlineOf
      <4> QED
        BY <4>1, <4>2 DEF Position
    <3>2. since \in Nat
      OBVIOUS
    <3>3. /\ DOMAIN positions' = DOMAIN positions \cup {s}
          /\ positions' \in [DOMAIN positions' -> Position]
      <4>1. positions' = With(positions, s, p)
        BY <2>3 DEF TrackPosition, Tracked
      <4> HIDE DEF p
      <4> QED
        BY <3>1, <4>1 DEF With
    <3>4. /\ DOMAIN uncovered' = DOMAIN uncovered \cup {s}
          /\ uncovered' \in [DOMAIN uncovered' -> Nat]
      <4>1. uncovered' = With(uncovered, s, since)
        BY <2>3 DEF TrackPosition, UncoveredWith
      <4> HIDE DEF since
      <4> QED
        BY <3>2, <4>1 DEF With
    <3> QED
      BY <2>3, <3>3, <3>4
      DEF TrackPosition, clockVars, equityVars, tradeVars, dayVars
  <2>4. ASSUME NEW S, positions' = StopsConfirmed(S), verdict' = "none",
               UNCHANGED <<clockVars, equityVars, tradeVars, dayVars, halted,
                           historyVars>>
        PROVE  TypeOK'
    <3>1. /\ DOMAIN positions' = DOMAIN positions
          /\ positions' \in [DOMAIN positions' -> Position]
      BY <2>4 DEF StopsConfirmed, Position
    <3> QED
      BY <2>4, <3>1
      DEF clockVars, equityVars, tradeVars, dayVars, historyVars
  <2>5. ASSUME NEW s \in Symbols, ClosePosition(s)
        PROVE  TypeOK'
    BY <2>5
    DEF ClosePosition, Without, clockVars, equityVars, tradeVars, dayVars
  <2>6. ASSUME NEW i \in Intents, ValidateIntent(i)
        PROVE  TypeOK'
    BY <2>6
    DEF ValidateIntent, ResetDailyIfNeeded, HighWaterAfterRoll,
        TradedAfterRoll, clockVars, tradeVars, historyVars
  <2>7. CASE Reset
    BY <2>7 DEF Reset, clockVars, equityVars, tradeVars, dayVars
  <2>8. CASE Tick
    BY <2>8 DEF Tick, equityVars, tradeVars, dayVars, historyVars
  <2>9. CASE UNCHANGED vars
    BY <2>9
    DEF vars, clockVars, equityVars, tradeVars, dayVars, historyVars
  <2> QED
    BY <2>1, <2>2, <2>3, <2>4, <2>5, <2>6, <2>7, <2>8, <2>9
    DEF Next, ConfirmStopLoss, ConfirmPairedStopLoss
<1> QED
  BY <1>1, <1>2, PTL DEF Spec

-----------------------------------------------------------------------------
(* The inductive invariant.                                                *)

\* The last reading is never dated after the day the daemon has rolled to.
\* This is what makes a roll start from the last equity known: the reading
\* that set the peak belongs to an earlier day.
PeakNotAhead == dayPeak.day <= lastResetDate

IInv ==
  /\ TypeOK
  /\ PeakNotAhead
  /\ HighWaterIsDayPeak
  /\ HaltedIffUnclearedBreach
  /\ TradedTodayMatchesDays
  /\ ApprovedOnlyWithinLimits

\* Once the day has rolled, the mark is the true peak of today.
LEMMA RolledMark ==
  ASSUME TypeOK, PeakNotAhead, HighWaterIsDayPeak, lastResetDate <= today
  PROVE  HighWaterAfterRoll
           = IF dayPeak.day = today THEN dayPeak.peak ELSE currentEquity
BY DEF TypeOK, PeakNotAhead, HighWaterIsDayPeak, TruePeak,
       HighWaterAfterRoll, DayRolled

\* Rolling the day keeps the flag and the set of trading days in step.
LEMMA RolledFlag ==
  ASSUME TypeOK, TradedTodayMatchesDays
  PROVE  TradedAfterRoll <=> today \in tradingDays
BY DEF TypeOK, TradedTodayMatchesDays, TradedAfterRoll, DayRolled

\* A reading raises the mark and the recorded peak alike, and halts the
\* daemon exactly when it breaks a limit.
LEMMA UpdateEquityKeepsIInv ==
  ASSUME IInv, TypeOK', NEW e \in Equities, UpdateEquity(e)
  PROVE  IInv'
<1>1. e \in Int
  BY DaemonAssumption
<1>2. /\ dailyHighWater' = Higher(HighWaterAfterRoll, e)
      /\ dayPeak' = PeakWith(e)
      /\ lastResetDate' = today /\ today' = today
      /\ tradingDays' = tradingDays /\ tradedToday' = TradedAfterRoll
      /\ verdict' = "none"
  BY DEF UpdateEquity, clockVars
<1>3. lastResetDate <= today
  BY DEF IInv, TradedTodayMatchesDays
<1>4. dailyHighWater' = dayPeak'.peak /\ dayPeak'.day = today
  BY <1>2, <1>3, RolledMark DEF IInv, PeakWith
<1>5. PeakNotAhead' /\ HighWaterIsDayPeak'
  BY <1>2, <1>4 DEF IInv, TypeOK, PeakNotAhead, HighWaterIsDayPeak, TruePeak
<1>6. HaltedIffUnclearedBreach'
  <2>1. dailyHighWater' \in Int
    BY DEF TypeOK
  <2>2. halted' = (halted \/ Breach \in {CheckDailyDrawdown(e, dailyHighWater'),
                                         CheckOverallDrawdown(e)})
    BY <1>2 DEF UpdateEquity, HaltedAfter
  <2>3. breached' = (breached \/ LossLimitBroken(e, dailyHighWater'))
    BY <1>2, <1>4 DEF UpdateEquity
  <2>4. Breach \in {CheckDailyDrawdown(e, dailyHighWater'), CheckOverallDrawdown(e)}
          <=> LossLimitBroken(e, dailyHighWater')
    BY <1>1, <2>1, BreachIsLossLimitBroken
  <2> QED
    BY <2>2, <2>3, <2>4, Zenon DEF IInv, HaltedIffUnclearedBreach
<1>7. TradedTodayMatchesDays'
  BY <1>2, <1>3, RolledFlag DEF IInv, TypeOK, TradedTodayMatchesDays
<1>8. ApprovedOnlyWithinLimits'
  BY <1>2 DEF ApprovedOnlyWithinLimits
<1> QED
  BY <1>5, <1>6, <1>7, <1>8 DEF IInv

\* A closed trade rolls the day and counts it.
LEMMA RecordTradeKeepsIInv ==
  ASSUME IInv, TypeOK', NEW p \in PnLs, RecordTrade(p)
  PROVE  IInv'
<1>1. /\ dailyHighWater' = HighWaterAfterRoll
      /\ lastResetDate' = today /\ today' = today
      /\ tradingDays' = tradingDays \cup {today} /\ tradedToday' = TRUE
      /\ verdict' = "none"
      /\ UNCHANGED <<currentEquity, halted, dayPeak, breached>>
  BY DEF RecordTrade, clockVars, historyVars
<1>2. lastResetDate <= today
  BY DEF IInv, TradedTodayMatchesDays
<1>3. PeakNotAhead' /\ HighWaterIsDayPeak'
  BY <1>1, <1>2, RolledMark
  DEF IInv, TypeOK, PeakNotAhead, HighWaterIsDayPeak, TruePeak
<1>4. HaltedIffUnclearedBreach'
  BY <1>1 DEF IInv, HaltedIffUnclearedBreach
<1>5. TradedTodayMatchesDays'
  BY <1>1, <1>2 DEF IInv, TypeOK, TradedTodayMatchesDays
<1>6. ApprovedOnlyWithinLimits'
  BY <1>1 DEF ApprovedOnlyWithinLimits
<1> QED
  BY <1>3, <1>4, <1>5, <1>6 DEF IInv

\* A validation rolls the day before it measures the drawdown.
LEMMA ValidateIntentKeepsIInv ==
  ASSUME IInv, TypeOK', NEW i \in Intents, ValidateIntent(i)
  PROVE  IInv'
<1>1. /\ dailyHighWater' = HighWaterAfterRoll
      /\ lastResetDate' = today /\ today' = today
      /\ tradingDays' = tradingDays /\ tradedToday' = TradedAfterRoll
      /\ UNCHANGED <<currentEquity, halted, dayPeak, breached>>
  BY DEF ValidateIntent, ResetDailyIfNeeded, clockVars, historyVars
<1>2. lastResetDate <= today
  BY DEF IInv, TradedTodayMatchesDays
<1>3. PeakNotAhead' /\ HighWaterIsDayPeak'
  BY <1>1, <1>2, RolledMark
  DEF IInv, TypeOK, PeakNotAhead, HighWaterIsDayPeak, TruePeak
<1>4. HaltedIffUnclearedBreach'
  BY <1>1 DEF IInv, HaltedIffUnclearedBreach
<1>5. TradedTodayMatchesDays'
  BY <1>1, <1>2, RolledFlag DEF IInv, TypeOK, TradedTodayMatchesDays
<1>6. ApprovedOnlyWithinLimits'
  <2> SUFFICES ASSUME verdict' = "approved"
               PROVE  /\ ~breached'
                      /\ Enabled =>
                           /\ CheckDailyDrawdown(currentEquity', TruePeak') < Soft
                           /\ CheckOverallDrawdown(currentEquity') < Soft
    BY DEF ApprovedOnlyWithinLimits
  <2>1. Admits(i)
    BY DEF ValidateIntent
  <2>2. ~breached'
    BY <1>1, <2>1 DEF Admits, IInv, HaltedIffUnclearedBreach
  <2>3. TruePeak' = HighWaterAfterRoll
    BY <1>1, <1>3 DEF HighWaterIsDayPeak
  <2>4. Enabled => /\ CheckDailyDrawdown(currentEquity, HighWaterAfterRoll) = Normal
                   /\ CheckOverallDrawdown(currentEquity) = Normal
    BY <2>1 DEF Admits, Complies
  <2> QED
    BY <1>1, <2>2, <2>3, <2>4 DEF Normal, Soft
<1> QED
  BY <1>3, <1>4, <1>5, <1>6 DEF IInv

\* The calls on positions disturb nothing the invariant is about.
LEMMA PositionsKeepIInv ==
  ASSUME IInv, TypeOK', verdict' = "none",
         UNCHANGED <<clockVars, equityVars, tradeVars, dayVars, halted,
                     dayPeak, breached>>
  PROVE  IInv'
BY DEF IInv, PeakNotAhead, HighWaterIsDayPeak, TruePeak,
       HaltedIffUnclearedBreach, TradedTodayMatchesDays,
       ApprovedOnlyWithinLimits, clockVars, equityVars, dayVars

\* The operator clears the halt and what it stands for together.
LEMMA ResetKeepsIInv ==
  ASSUME IInv, TypeOK', Reset
  PROVE  IInv'
BY DEF Reset, IInv, PeakNotAhead, HighWaterIsDayPeak, TruePeak,
       HaltedIffUnclearedBreach, TradedTodayMatchesDays,
       ApprovedOnlyWithinLimits, clockVars, equityVars, dayVars

\* The clock moves the date away from the one the daemon has rolled to.
LEMMA TickKeepsIInv ==
  ASSUME IInv, TypeOK', Tick
  PROVE  IInv'
<1>1. today' \in {today, today + 1}
  BY DEF Tick
<1>2. UNCHANGED <<equityVars, dayVars, halted, verdict, dayPeak, breached>>
  BY DEF Tick, historyVars
<1>3. TradedTodayMatchesDays'
  BY <1>1, <1>2 DEF IInv, TypeOK, TradedTodayMatchesDays, equityVars, dayVars
<1> QED
  BY <1>2, <1>3
  DEF IInv, PeakNotAhead, HighWaterIsDayPeak, TruePeak, equityVars,
      HaltedIffUnclearedBreach, ApprovedOnlyWithinLimits

\* The invariant holds of every behaviour of the daemon.
LEMMA InvariantHolds == Spec => []IInv
<1>1. Init => IInv
  <2> SUFFICES ASSUME Init, TypeOK PROVE IInv
    BY TypeCorrectInit
  <2> QED
    BY DEF Init, IInv, PeakNotAhead, HighWaterIsDayPeak, TruePeak,
           HaltedIffUnclearedBreach, TradedTodayMatchesDays,
           ApprovedOnlyWithinLimits
<1>2. IInv /\ TypeOK' /\ [Next]_vars => IInv'
  <2> SUFFICES ASSUME IInv, TypeOK', [Next]_vars
               PROVE  IInv'
    OBVIOUS
  <2>1. CASE \E e \in Equities : UpdateEquity(e)
    BY <2>1, UpdateEquityKeepsIInv
  <2>2. CASE \E p \in PnLs : RecordTrade(p)
    BY <2>2, RecordTradeKeepsIInv
  <2>3. CASE \/ \E s \in Symbols, x \in Exposures : TrackPosition(s, x)
             \/ \E s \in Symbols : ClosePosition(s)
    BY <2>3, PositionsKeepIInv DEF TrackPosition, ClosePosition
  <2>4. CASE \/ \E s \in Symbols : ConfirmStopLoss(s)
             \/ \E p, h \in Symbols : ConfirmPairedStopLoss(p, h)
    BY <2>4, PositionsKeepIInv
    DEF ConfirmStopLoss, ConfirmPairedStopLoss, historyVars
  <2>5. CASE \E i \in Intents : ValidateIntent(i)
    BY <2>5, ValidateIntentKeepsIInv
  <2>6. CASE Reset
    BY <2>6, ResetKeepsIInv
  <2>7. CASE Tick
    BY <2>7, TickKeepsIInv
  <2>8. CASE UNCHANGED vars
    BY <2>8
    DEF vars, IInv, PeakNotAhead, HighWaterIsDayPeak, TruePeak, clockVars,
        equityVars, dayVars, historyVars, HaltedIffUnclearedBreach,
        TradedTodayMatchesDays, ApprovedOnlyWithinLimits
  <2> QED
    BY <2>1, <2>2, <2>3, <2>4, <2>5, <2>6, <2>7, <2>8 DEF Next
<1> QED
  BY <1>1, <1>2, TypeCorrect, PTL DEF Spec

-----------------------------------------------------------------------------
(* What the invariant gives.                                               *)

\* The daily drawdown is always measured from the true peak of the day.
THEOREM MarkIsDayPeak == Spec => []HighWaterIsDayPeak
BY InvariantHolds, PTL DEF IInv

\* Only the operator lifts the halt of a broken loss limit, and nothing
\* else halts the daemon.
THEOREM HaltIsBreach == Spec => []HaltedIffUnclearedBreach
BY InvariantHolds, PTL DEF IInv

\* No intent is approved after a breach or at a soft loss or worse.
THEOREM ApprovalsCompliant == Spec => []ApprovedOnlyWithinLimits
BY InvariantHolds, PTL DEF IInv

\* The daily flag and the set of trading days agree.
THEOREM TradingDaysConsistent == Spec => []TradedTodayMatchesDays
BY InvariantHolds, PTL DEF IInv

\* A safety trade is never asked for on a day that has a trade.
THEOREM SafetyTradesNeeded == Spec => []NoNeedlessSafetyTrade
<1>1. IInv => NoNeedlessSafetyTrade
  BY DEF IInv, TypeOK, TradedTodayMatchesDays, NoNeedlessSafetyTrade,
         CheckSafetyTrade
<1> QED
  BY <1>1, InvariantHolds, PTL

-----------------------------------------------------------------------------
(* Deadlines.                                                              *)

\* While a position has no stop its deadline is a full term after the tick
\* since when it has had none, also when it has been replaced meanwhile.
DeadlinesKept ==
  \A s \in DOMAIN positions :
    /\ uncovered[s] <= now
    /\ ~positions[s].hasStopLoss =>
         positions[s].deadline >= uncovered[s] + StopLossDeadline

\* The deadlines hold throughout.
LEMMA DeadlinesInductive ==
  TypeOK /\ TypeOK' /\ DeadlinesKept /\ [Next]_vars => DeadlinesKept'
<1> SUFFICES ASSUME TypeOK, TypeOK', DeadlinesKept, [Next]_vars
             PROVE  DeadlinesKept'
  OBVIOUS
<1>1. /\ now \in Nat /\ StopLossDeadline \in Nat
      /\ DOMAIN uncovered = DOMAIN positions
      /\ \A s \in DOMAIN positions : uncovered[s] \in Nat /\ positions[s] \in Position
  BY ConfigAssumption DEF TypeOK
<1>2. ASSUME UNCHANGED <<now, positions, uncovered>> PROVE DeadlinesKept'
  BY <1>2 DEF DeadlinesKept
<1>3. ASSUME NEW s \in Symbols, NEW x \in Exposures, TrackPosition(s, x)
      PROVE  DeadlinesKept'
  <2> DEFINE p == [openTime |-> now, deadline |-> StopLossDeadlineOf(now),
                   hasStopLoss |-> FALSE, notional |-> x.notional,
                   margin |-> x.margin]
             since == IF s \in DOMAIN positions /\ ~positions[s].hasStopLoss
                      THEN uncovered[s] ELSE now
  <2>1. now' = now /\ positions' = With(positions, s, p) /\ uncovered' = With(uncovered, s, since)
    BY <1>3 DEF TrackPosition, Tracked, UncoveredWith, clockVars
  <2>2. /\ p.deadline = now + StopLossDeadline /\ since <= now /\ since \in Nat
    BY <1>1 DEF StopLossDeadlineOf, DeadlinesKept
  <2> HIDE DEF p, since
  <2>3. /\ DOMAIN positions' = DOMAIN positions \cup {s}
        /\ positions'[s] = p /\ uncovered'[s] = since
        /\ \A y \in DOMAIN positions :
             y # s => positions'[y] = positions[y] /\ uncovered'[y] = uncovered[y]
    BY <1>1, <2>1 DEF With
  <2> SUFFICES ASSUME NEW y \in DOMAIN positions'
               PROVE  /\ uncovered'[y] <= now'
                      /\ ~positions'[y].hasStopLoss =>
                           positions'[y].deadline >= uncovered'[y] + StopLossDeadline
    BY DEF DeadlinesKept
  <2>4. CASE y = s
    <3>1. p.deadline >= since + StopLossDeadline  BY <1>1, <2>2
    <3> QED BY <2>1, <2>2, <2>3, <2>4, <3>1
  <2>5. CASE y # s
    <3>1. y \in DOMAIN positions  BY <2>3, <2>5
    <3> QED BY <2>1, <2>3, <2>5, <3>1 DEF DeadlinesKept
  <2> QED BY <2>4, <2>5
<1>4. ASSUME NEW S, positions' = StopsConfirmed(S), UNCHANGED <<now, uncovered>>
      PROVE  DeadlinesKept'
  <2>1. /\ DOMAIN positions' = DOMAIN positions
        /\ \A s \in DOMAIN positions :
             /\ positions'[s].deadline = positions[s].deadline
             /\ positions[s].hasStopLoss => positions'[s].hasStopLoss
    BY <1>1, <1>4 DEF StopsConfirmed, Position
  <2> QED BY <1>4, <2>1 DEF DeadlinesKept
<1>5. ASSUME NEW s \in Symbols, ClosePosition(s) PROVE DeadlinesKept'
  <2>1. /\ now' = now /\ positions' = Without(positions, s)
        /\ uncovered' = Without(uncovered, s)
    BY <1>5 DEF ClosePosition, clockVars
  <2>2. /\ DOMAIN positions' \subseteq DOMAIN positions
        /\ \A y \in DOMAIN positions' :
             positions'[y] = positions[y] /\ uncovered'[y] = uncovered[y]
    BY <1>1, <2>1 DEF Without
  <2> QED BY <2>1, <2>2 DEF DeadlinesKept
<1>6. CASE Tick
  <2>1. now' = now + 1 /\ positions' = positions /\ uncovered' = uncovered
    BY <1>6 DEF Tick, historyVars
  <2> QED BY <1>1, <2>1 DEF DeadlinesKept
<1>7. ASSUME NEW e \in Equities, UpdateEquity(e) PROVE DeadlinesKept'
  BY <1>2, <1>7 DEF UpdateEquity, clockVars
<1>8. ASSUME NEW p \in PnLs, RecordTrade(p) PROVE DeadlinesKept'
  BY <1>2, <1>8 DEF RecordTrade, clockVars, historyVars
<1>9. ASSUME NEW i \in Intents, ValidateIntent(i) PROVE DeadlinesKept'
  BY <1>2, <1>9 DEF ValidateIntent, clockVars, historyVars
<1>10. CASE Reset  BY <1>2, <1>10 DEF Reset, clockVars
<1>11. CASE UNCHANGED vars  BY <1>2, <1>11 DEF vars, clockVars, historyVars
<1>12. ASSUME NEW s \in Symbols, ConfirmStopLoss(s) PROVE DeadlinesKept'
  BY <1>4, <1>12 DEF ConfirmStopLoss, clockVars, historyVars
<1>13. ASSUME NEW p \in Symbols, NEW h \in Symbols, ConfirmPairedStopLoss(p, h)
       PROVE  DeadlinesKept'
  BY <1>4, <1>13 DEF ConfirmPairedStopLoss, clockVars, historyVars
<1> QED
  BY <1>3, <1>5, <1>6, <1>7, <1>8, <1>9, <1>10, <1>11, <1>12, <1>13 DEF Next

\* No position is reported before it has been without a stop for a full
\* term, however it was replaced, covered and closed before.
THEOREM NoneReportedEarly == Spec => []ReportedPositionsAreOverdue
<1>1. Init => DeadlinesKept
  BY DEF Init, DeadlinesKept
<1>2. TypeOK /\ DeadlinesKept => ReportedPositionsAreOverdue
  <2> SUFFICES ASSUME TypeOK, DeadlinesKept, NEW s \in PositionsWithExpiredStopLoss
               PROVE  now - uncovered[s] > StopLossDeadline
    BY DEF ReportedPositionsAreOverdue
  <2>1. s \in DOMAIN positions /\ Expired(positions[s])
    BY DEF PositionsWithExpiredStopLoss
  <2>2. /\ now > positions[s].deadline
        /\ positions[s].deadline >= uncovered[s] + StopLossDeadline
    BY <2>1 DEF Expired, DeadlinesKept
  <2>3. /\ now \in Nat /\ positions[s].deadline \in Nat /\ uncovered[s] \in Nat
        /\ StopLossDeadline \in Nat
    BY <2>1, ConfigAssumption DEF TypeOK, Position
  <2> QED BY <2>2, <2>3
<1> QED
  BY <1>1, <1>2, DeadlinesInductive, TypeCorrect, PTL DEF Spec
-----------------------------------------------------------------------------
(* Closed trades.                                                          *)

\* The process starts without a recorded trade.
LEMMA NothingRecordedInit == LoopInit => NothingRecorded
BY Zenon DEF LoopInit, Init, NothingRecorded

\* No step of the process records a trade: RecordTrade is not called, and the
\* roll to a new day can only clear the flag.
LEMMA NothingRecordedStep ==
  NothingRecorded /\ [LoopNext]_allVars => NothingRecorded'
<1> SUFFICES ASSUME NothingRecorded, [LoopNext]_allVars PROVE NothingRecorded'
  OBVIOUS
<1> USE DEF NothingRecorded
<1>1. ASSUME NEW i \in Intents, ApproveIntent(i) PROVE NothingRecorded'
  BY <1>1, Zenon DEF ApproveIntent, ResetDailyIfNeeded, TradedAfterRoll, tradeVars
<1>2. ASSUME NEW i \in Intents, RejectIntent(i) PROVE NothingRecorded'
  BY <1>2, Zenon DEF RejectIntent, ValidateIntent, ResetDailyIfNeeded,
                     TradedAfterRoll, tradeVars
<1>3. CASE EquityTick
  BY <1>3, Zenon DEF EquityTick, UpdateEquity, TradedAfterRoll, tradeVars
<1>4. CASE SafetyTick
  BY <1>4, Zenon DEF SafetyTick, vars, tradeVars, dayVars
<1>5. ASSUME NEW e \in Equities, PublishReading(e) PROVE NothingRecorded'
  BY <1>5, Zenon DEF PublishReading, vars, tradeVars, dayVars
<1>6. CASE ReadingExpires
  BY <1>6, Zenon DEF ReadingExpires, vars, tradeVars, dayVars
<1>7. CASE Restart
  BY <1>7, Zenon DEF Restart
<1>8. CASE ClockTick
  BY <1>8, Zenon DEF ClockTick, Tick, tradeVars, dayVars
<1>9. CASE UNCHANGED allVars
  BY <1>9, Zenon DEF allVars, vars, tradeVars, dayVars
<1> QED
  BY <1>1, <1>2, <1>3, <1>4, <1>5, <1>6, <1>7, <1>8, <1>9, Zenon DEF LoopNext

\* The deployed daemon knows of no closed trade, whatever was executed: the
\* fills never reach RecordTrade.
THEOREM DeployedRecordsNothing == LoopSpec => []NothingRecorded
<1>1. LoopInit => NothingRecorded
  BY NothingRecordedInit
<1>2. NothingRecorded /\ [LoopNext]_allVars => NothingRecorded'
  BY NothingRecordedStep
<1> QED
  BY <1>1, <1>2, PTL DEF LoopSpec

\* A part of less than the whole of a profit is less than the profit.
LEMMA PartBelowWhole ==
  ASSUME NEW profit \in Int, NEW part \in Nat, profit > 0, part < Whole
  PROVE  ~(profit * Whole <= part * profit)
<1>1. part + 1 <= Whole
  BY DEF Whole
<1>2. part * profit + profit = (part + 1) * profit
  OBVIOUS
<1>3. (part + 1) * profit <= Whole * profit
  BY <1>1 DEF Whole
<1> QED
  BY <1>2, <1>3 DEF Whole

\* An intent that expects a profit is never approved in a challenge phase:
\* its profit is the whole of the profit the daemon knows of.
THEOREM DeployedStarvesProfit == LoopSpec => ProfitableIntentsStarve
<1>1. ASSUME NothingRecorded, NEW i \in Intents,
             Enabled, Mode # "funded", ProfitDistribution < Whole, i.profit > 0
      PROVE  ~ApproveIntent(i)
  <2> SUFFICES ASSUME ApproveIntent(i) PROVE FALSE
    OBVIOUS
  <2>1. i.profit \in Int /\ ProfitDistribution \in Nat
    BY DaemonAssumption, ConfigAssumption
  <2>2. totalProfit = 0
    BY <1>1 DEF NothingRecorded
  <2>3. CheckProfitDistribution(i.profit, totalProfit)
    BY <1>1, Zenon DEF ApproveIntent, Admits, Complies
  <2>4. CheckProfitDistribution(i.profit, 0)
    BY <2>2, <2>3
  <2>5. i.profit * Whole <= ProfitDistribution * i.profit
    BY <1>1, <2>1, <2>4 DEF CheckProfitDistribution
  <2> QED
    BY <1>1, <2>1, <2>5, PartBelowWhole
<1>2. NothingRecorded
        => [\A i \in Intents :
              Enabled /\ Mode # "funded" /\ ProfitDistribution < Whole
                /\ i.profit > 0 => ~ApproveIntent(i)]_allVars
  BY <1>1, Zenon
<1> QED
  BY <1>2, DeployedRecordsNothing, PTL DEF ProfitableIntentsStarve

-----------------------------------------------------------------------------
(* Stops.                                                                  *)

\* The times the stops are judged by.
TimesTyped ==
  /\ now \in Nat
  /\ \A s \in DOMAIN positions : positions[s].deadline \in Nat

\* The process starts with nothing tracked.
LEMMA TimesTypedInit == LoopInit => TimesTyped
<1> SUFFICES ASSUME LoopInit PROVE TimesTyped
  OBVIOUS
<1>1. now = 0 /\ DOMAIN positions = {}
  BY DEF LoopInit, Init
<1> QED
  BY <1>1 DEF TimesTyped

\* Every step keeps them typed.
LEMMA TimesTypedStep == TimesTyped /\ [LoopNext]_allVars => TimesTyped'
<1> SUFFICES ASSUME TimesTyped, [LoopNext]_allVars PROVE TimesTyped'
  OBVIOUS
<1>1. ASSUME NEW i \in Intents, ApproveIntent(i) PROVE TimesTyped'
  <2> DEFINE next == Tracked(i.symbol, IntentNotional(i), PerLegNotional(i))
  <2>1. positions' = next /\ now' = now
    BY <1>1 DEF ApproveIntent, clockVars
  <2>2. StopLossDeadlineOf(now) \in Nat
    BY ConfigAssumption DEF StopLossDeadlineOf, TimesTyped
  <2>3. DOMAIN next = DOMAIN positions \cup {i.symbol}
    BY DEF Tracked, With
  <2>4. \A s \in DOMAIN positions \ {i.symbol} : next[s] = positions[s]
    BY DEF Tracked, With
  <2>5. next[i.symbol].deadline = StopLossDeadlineOf(now)
    BY DEF Tracked, With
  <2> HIDE DEF next
  <2>6. \A s \in DOMAIN next : next[s].deadline \in Nat
    BY <2>2, <2>3, <2>4, <2>5 DEF TimesTyped
  <2> QED
    BY <2>1, <2>6 DEF TimesTyped
<1>2. CASE Restart
  <2>1. DOMAIN positions' = {} /\ now' = now
    BY <1>2 DEF Restart, clockVars
  <2> QED
    BY <2>1 DEF TimesTyped
<1>3. CASE ClockTick
  BY <1>3 DEF ClockTick, Tick, TimesTyped
<1>4. CASE \/ \E i \in Intents : RejectIntent(i)
           \/ EquityTick \/ SafetyTick \/ ReadingExpires
           \/ \E e \in Equities : PublishReading(e)
           \/ UNCHANGED allVars
  <2>1. UNCHANGED <<now, positions>>
    BY <1>4, Zenon DEF RejectIntent, ValidateIntent, EquityTick, UpdateEquity,
      SafetyTick, ReadingExpires, PublishReading, allVars, vars, clockVars
  <2> QED
    BY <2>1 DEF TimesTyped
<1> QED
  BY <1>1, <1>2, <1>3, <1>4, Zenon DEF LoopNext

\* Nothing but the end of the process takes a position off the list of the
\* overdue: no approval replaces one, because none is given while the list is
\* not empty, and the loop never confirms a stop or closes a position.
LEMMA OverdueStep ==
  ASSUME TimesTyped, [LoopNext]_allVars, Enabled, restarts' = restarts,
         restarts \in Nat,
         NEW s \in PositionsWithExpiredStopLoss
  PROVE  s \in PositionsWithExpiredStopLoss'
<1>1. ASSUME NEW i \in Intents, ApproveIntent(i) PROVE FALSE
  BY <1>1, Zenon DEF ApproveIntent, Admits, Complies
<1>2. CASE Restart
  BY <1>2 DEF Restart
<1>3. CASE ClockTick
  BY <1>3 DEF ClockTick, Tick, TimesTyped, PositionsWithExpiredStopLoss, Expired
<1>4. CASE \/ \E i \in Intents : RejectIntent(i)
           \/ EquityTick \/ SafetyTick \/ ReadingExpires
           \/ \E e \in Equities : PublishReading(e)
           \/ UNCHANGED allVars
  <2>1. UNCHANGED <<now, positions>>
    BY <1>4, Zenon DEF RejectIntent, ValidateIntent, EquityTick, UpdateEquity,
      SafetyTick, ReadingExpires, PublishReading, allVars, vars, clockVars
  <2> QED
    BY <2>1 DEF PositionsWithExpiredStopLoss, Expired
<1> QED
  BY <1>1, <1>2, <1>3, <1>4, Zenon DEF LoopNext

RestartsCounted == restarts \in Nat

\* The number of restarts is a number.
LEMMA RestartsTyped == LoopSpec => []RestartsCounted
<1>1. LoopInit => RestartsCounted
  BY DEF LoopInit, RestartsCounted
<1>2. RestartsCounted /\ [LoopNext]_allVars => RestartsCounted'
  BY DEF RestartsCounted, LoopNext, ApproveIntent, RejectIntent, EquityTick, SafetyTick,
    PublishReading, ReadingExpires, Restart, ClockTick, allVars, loopVars
<1> QED
  BY <1>1, <1>2, PTL DEF LoopSpec

\* A position that is overdue stays overdue while the process lives.
THEOREM OverdueStays == LoopSpec => OverdueForGood
<1>1. LoopSpec => []TimesTyped
  BY TimesTypedInit, TimesTypedStep, PTL DEF LoopSpec
<1>2. TimesTyped /\ RestartsCounted /\ [LoopNext]_allVars
        => [Enabled /\ restarts' = restarts =>
              PositionsWithExpiredStopLoss \subseteq
                PositionsWithExpiredStopLoss']_allVars
  BY OverdueStep, Zenon DEF RestartsCounted
<1> QED
  BY <1>1, <1>2, RestartsTyped, PTL DEF LoopSpec, OverdueForGood

-----------------------------------------------------------------------------
(* The margin of a funded account.                                         *)

\* The tracked positions are finitely many, and their margins are amounts.
MarginsTyped ==
  /\ IsFiniteSet(DOMAIN positions)
  /\ \A s \in DOMAIN positions : positions[s].margin \in Nat

\* A quotient of an amount is not negative.
LEMMA ShareNonNegative ==
  ASSUME NEW m \in Nat, NEW n \in Nat, NEW d \in Int, n > 0, m < n * (d + 1)
  PROVE  d >= 0
<1> SUFFICES ASSUME d + 1 <= 0 PROVE FALSE
  OBVIOUS
<1>1. n * (d + 1) <= 0
  OBVIOUS
<1> QED
  BY <1>1

\* An equal share of an amount is at most the amount.
LEMMA ShareWithin ==
  ASSUME NEW m \in Nat, NEW n \in Nat, n > 0
  PROVE  m \div n \in Nat /\ m \div n <= m
<1> DEFINE d == m \div n
<1>1. d \in Int /\ n * d <= m /\ m < n * (d + 1)
  OBVIOUS
<1>2. d >= 0
  BY <1>1, ShareNonNegative
<1> HIDE DEF d
<1>3. d <= n * d
  BY <1>1, <1>2
<1>4. d \in Nat /\ d <= m
  BY <1>1, <1>2, <1>3
<1> QED
  BY <1>4 DEF d

\* What an intent adds up to is an amount, and what is booked for it is at most
\* that.
LEMMA BookedWithinNotional ==
  ASSUME NEW i \in Intents
  PROVE  /\ IntentNotional(i) \in Nat /\ PerLegNotional(i) \in Nat
         /\ PerLegNotional(i) <= IntentNotional(i)
<1> DEFINE legs == i.legs
<1>1. legs \in Seq(Nat) /\ Len(legs) > 0 /\ Len(legs) \in Nat
  BY DaemonAssumption, LoopAssumption
<1> HIDE DEF legs
<1>2. DOMAIN legs = 1..Len(legs) /\ \A n \in DOMAIN legs : legs[n] \in Nat
  BY <1>1
<1>3. Summable(legs) /\ \A n \in DOMAIN legs : legs[n] >= 0
  <2>1. IsFiniteSet(1..Len(legs))
    BY <1>1, FS_Interval
  <2>2. IsFiniteSet(DOMAIN legs)
    BY <1>2, <2>1, Zenon
  <2> QED
    BY <1>2, <2>2 DEF Summable
<1>4. SumFunction(legs) \in Nat
  BY <1>3, SumFunctionInt, SumFunctionNonNegative
<1>5. /\ SumFunction(legs) \div Len(legs) \in Nat
      /\ SumFunction(legs) \div Len(legs) <= SumFunction(legs)
  BY <1>1, <1>4, ShareWithin
<1> QED
  BY <1>4, <1>5 DEF IntentNotional, PerLegNotional, legs

\* Tracking a position adds at most its margin to the total: a position it
\* replaces only takes its own margin away.
LEMMA TrackedMargin ==
  ASSUME MarginsTyped, NEW symbol, NEW p, p.margin \in Nat
  PROVE  LET next == With(positions, symbol, p)
             sum  == SumFunction([s \in DOMAIN next |-> next[s].margin])
         IN  /\ IsFiniteSet(DOMAIN next)
             /\ \A s \in DOMAIN next : next[s].margin \in Nat
             /\ sum \in Int /\ TotalMargin \in Nat
             /\ sum <= TotalMargin + p.margin
<1> DEFINE next == With(positions, symbol, p)
           old  == [s \in DOMAIN positions |-> positions[s].margin]
           new  == [s \in DOMAIN next |-> next[s].margin]
<1>1. /\ DOMAIN next = DOMAIN positions \cup {symbol}
      /\ next[symbol] = p
      /\ \A s \in DOMAIN positions : s # symbol => next[s] = positions[s]
  BY DEF With
<1> HIDE DEF next
<1>2. /\ DOMAIN old = DOMAIN positions
      /\ \A s \in DOMAIN old : old[s] \in Nat
      /\ IsFiniteSet(DOMAIN old)
      /\ TotalMargin = SumFunction(old)
  BY DEF MarginsTyped, TotalMargin
<1>3. /\ DOMAIN new = DOMAIN old \cup {symbol} /\ new[symbol] = p.margin
      /\ \A s \in DOMAIN old : s # symbol => new[s] = old[s]
  BY <1>1
<1>4. IsFiniteSet(DOMAIN next) /\ \A s \in DOMAIN next : next[s].margin \in Nat
  <2>1. IsFiniteSet(DOMAIN next)
    BY <1>1, FS_AddElement DEF MarginsTyped
  <2> QED
    BY <1>1, <2>1 DEF MarginsTyped
<1> HIDE DEF old, new
<1>5. Summable(old) /\ SumFunction(old) \in Int /\ SumFunction(old) >= 0
  <2>1. Summable(old) /\ \A s \in DOMAIN old : old[s] >= 0
    BY <1>2 DEF Summable
  <2> QED
    BY <2>1, SumFunctionInt, SumFunctionNonNegative
<1>6. CASE symbol \in DOMAIN old
  <2>1. DOMAIN new = DOMAIN old
    BY <1>3, <1>6
  <2>2. SumFunction(new) = SumFunction(old) - old[symbol] + new[symbol]
    BY <1>3, <1>5, <1>6, <2>1, SumFunctionChanged
  <2>3. old[symbol] \in Nat
    BY <1>2, <1>6
  <2>4. SumFunction(new) \in Int /\ SumFunction(new) <= SumFunction(old) + p.margin
    BY <1>3, <1>5, <2>2, <2>3
  <2> QED
    BY <1>2, <1>4, <1>5, <2>4 DEF next, new
<1>7. CASE symbol \notin DOMAIN old
  <2>1. \A s \in DOMAIN old : new[s] = old[s]
    BY <1>3, <1>7
  <2>2. SumFunction(new) = SumFunction(old) + new[symbol]
    BY <1>3, <1>5, <1>7, <2>1, SumFunctionExtended
  <2>3. SumFunction(new) \in Int /\ SumFunction(new) <= SumFunction(old) + p.margin
    BY <1>3, <1>5, <2>2
  <2> QED
    BY <1>2, <1>4, <1>5, <2>3 DEF next, new
<1> QED
  BY <1>6, <1>7

\* The part of the invariant that the approval of an intent must establish.
MarginInv == MarginsTyped /\ FundedMarginCapped

\* An approved intent is checked with its full notional on top of everything
\* tracked, which is no less than what the booking leaves.
LEMMA MarginApprove ==
  ASSUME MarginInv, NEW i \in Intents, ApproveIntent(i)
  PROVE  MarginInv'
<1> DEFINE p    == [openTime |-> now, deadline |-> StopLossDeadlineOf(now),
                    hasStopLoss |-> FALSE, notional |-> IntentNotional(i),
                    margin |-> PerLegNotional(i)]
           next == With(positions, i.symbol, p)
           sum  == SumFunction([s \in DOMAIN next |-> next[s].margin])
<1>1. positions' = next
  BY DEF ApproveIntent, Tracked
<1>2. Enabled => CheckMaxExposure(TotalMargin + IntentNotional(i))
  BY Zenon DEF ApproveIntent, Admits, Complies
<1>3. p.margin = PerLegNotional(i)
  OBVIOUS
<1>4. /\ IntentNotional(i) \in Nat /\ PerLegNotional(i) \in Nat
      /\ PerLegNotional(i) <= IntentNotional(i)
  BY BookedWithinNotional
<1> HIDE DEF p
<1>5. /\ IsFiniteSet(DOMAIN next)
      /\ \A s \in DOMAIN next : next[s].margin \in Nat
      /\ sum \in Int /\ TotalMargin \in Nat
      /\ sum <= TotalMargin + p.margin
  BY <1>3, <1>4, TrackedMargin DEF MarginInv
<1>6. TotalMargin' = sum
  BY <1>1 DEF TotalMargin
<1>7. MarginsTyped'
  BY <1>1, <1>5 DEF MarginsTyped
<1>8. ASSUME Enabled, Mode = "funded"
      PROVE  sum * Whole <= InitialBalance * MaxMarginExposure
  <2> DEFINE full == TotalMargin + IntentNotional(i)
  <2>1. full * Whole <= InitialBalance * MaxMarginExposure
    BY <1>2, <1>8 DEF CheckMaxExposure
  <2>2. full \in Int /\ sum <= full
    BY <1>3, <1>4, <1>5
  <2>3. InitialBalance * MaxMarginExposure \in Int
    BY ConfigAssumption
  <2> HIDE DEF full, sum
  <2> QED
    BY <1>5, <2>1, <2>2, <2>3 DEF Whole
<1>9. FundedMarginCapped'
  <2>1. UNCHANGED <<Enabled, Mode, InitialBalance, MaxMarginExposure>>
    OBVIOUS
  <2> QED
    BY <1>6, <1>8 DEF FundedMarginCapped
<1> QED
  BY <1>7, <1>9 DEF MarginInv

\* The cap is not negative.
LEMMA CapNonNegative == InitialBalance * MaxMarginExposure >= 0
<1>1. \A m, n \in Nat : m * n >= 0
  OBVIOUS
<1> QED
  BY <1>1, ConfigAssumption

\* With nothing tracked the total is zero.
LEMMA MarginEmpty ==
  ASSUME DOMAIN positions = {}
  PROVE  MarginInv
<1>1. IsFiniteSet(DOMAIN positions)
  BY FS_EmptySet
<1>2. TotalMargin = 0
  BY SumFunctionEmpty DEF TotalMargin
<1>3. InitialBalance * MaxMarginExposure >= 0
  BY CapNonNegative
<1> QED
  BY <1>1, <1>2, <1>3 DEF MarginInv, MarginsTyped, FundedMarginCapped, Whole

\* Every step keeps the margin within the cap.
LEMMA MarginStep == MarginInv /\ [LoopNext]_allVars => MarginInv'
<1> SUFFICES ASSUME MarginInv, [LoopNext]_allVars PROVE MarginInv'
  OBVIOUS
<1>1. ASSUME NEW i \in Intents, ApproveIntent(i) PROVE MarginInv'
  BY <1>1, MarginApprove
<1>2. CASE Restart
  <2>1. DOMAIN positions' = {}
    BY <1>2 DEF Restart
  <2>2. IsFiniteSet(DOMAIN positions')
    BY <2>1, FS_EmptySet
  <2>3. TotalMargin' = 0
    BY <2>1, SumFunctionEmpty DEF TotalMargin
  <2>4. InitialBalance * MaxMarginExposure >= 0
    BY CapNonNegative
  <2>5. MarginsTyped'
    BY <2>1, <2>2 DEF MarginsTyped
  <2>6. FundedMarginCapped'
    BY <2>3, <2>4 DEF FundedMarginCapped, Whole
  <2> QED
    BY <2>5, <2>6 DEF MarginInv
<1>3. CASE \/ \E i \in Intents : RejectIntent(i)
           \/ EquityTick \/ SafetyTick \/ ReadingExpires \/ ClockTick
           \/ \E e \in Equities : PublishReading(e)
           \/ UNCHANGED allVars
  <2>1. positions' = positions
    BY <1>3, Zenon DEF RejectIntent, ValidateIntent, EquityTick, UpdateEquity,
      SafetyTick, ReadingExpires, ClockTick, Tick, PublishReading, allVars, vars,
      clockVars
  <2> QED
    BY <2>1 DEF MarginInv, MarginsTyped, FundedMarginCapped, TotalMargin
<1> QED
  BY <1>1, <1>2, <1>3, Zenon DEF LoopNext

\* On a funded account the margin tracked never exceeds the cap.
THEOREM FundedMarginStays == LoopSpec => []FundedMarginCapped
<1>1. LoopInit => MarginInv
  <2>1. LoopInit => DOMAIN positions = {}
    BY DEF LoopInit, Init
  <2> QED
    BY <2>1, MarginEmpty
<1>2. MarginInv /\ [LoopNext]_allVars => MarginInv'
  BY MarginStep
<1>3. MarginInv => FundedMarginCapped
  BY DEF MarginInv
<1> QED
  BY <1>1, <1>2, <1>3, PTL DEF LoopSpec
==============================================================================
