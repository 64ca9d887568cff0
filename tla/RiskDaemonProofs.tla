-------------------------- MODULE RiskDaemonProofs --------------------------
(***************************************************************************)
(* The mode of the risk engine is exactly the gravest demand of the full   *)
(* record, for all limits, windows, readings and books.  The invariant     *)
(* ties what the daemon keeps to the record it has seen: the peaks to the  *)
(* readings, the pruned fills to all fills, the timer to the snapshots.    *)
(* It holds of the engine alone, and of the process that polls the account *)
(* and keeps the gate of the router, until the process dies.               *)
(***************************************************************************)
EXTENDS RiskLoop, FiniteSetTheorems, TLAPS

ReadingsKnown == \A r \in readings : r.day <= lastDailyReset

FillsInWindow ==
  /\ fillEvents \subseteq fills
  /\ \A f \in fills : f.at >= now - ErrorWindow => f \in fillEvents

\* The fills of the record that an error rate is of.
WindowOf(all) == {f \in all : now - f.at <= ErrorWindow}

TimerIsOldest ==
  /\ unhedgedSince = 0 => unhedgedRun = {}
  /\ unhedgedSince # 0 => unhedgedSince \in unhedgedRun
  /\ \A t \in unhedgedRun : unhedgedSince <= t

IInv ==
  /\ TypeOK /\ PeaksAreReadings /\ ReadingsKnown /\ FillsInWindow /\ TimerIsOldest
  /\ ModeIsGravestDemand

-----------------------------------------------------------------------------
(* Drawdowns.                                                              *)

\* A loss from one level is a loss from every higher one.
LEMMA DrawdownGrows ==
  ASSUME NEW p \in Int, NEW q \in Int, NEW e \in Int, NEW limit \in Nat,
         p <= q, DrawdownAtLeast(p, e, limit)
  PROVE  DrawdownAtLeast(q, e, limit)
<1>1. p > 0 /\ e > 0 /\ q > 0 /\ (p - e) * 1000 >= limit * p
  BY DEF DrawdownAtLeast, Whole
<1>2. limit <= 1000
  <2>1. SUFFICES ASSUME limit >= 1001 PROVE FALSE  OBVIOUS
  <2>2. limit * p >= 1001 * p  BY <1>1, <2>1
  <2> QED BY <1>1, <2>2
<1>3. (1000 - limit) * (q - p) >= 0  BY <1>2
<1>4. (1000 - limit) * (q - p) = 1000 * q - 1000 * p - limit * q + limit * p  OBVIOUS
<1>5. (q - e) * 1000 >= limit * q
  <2> DEFINE a == limit * p  b == limit * q
  <2>1. a \in Int /\ b \in Int  OBVIOUS
  <2>2. (p - e) * 1000 >= a  BY <1>1
  <2>3. 1000 * q - 1000 * p - b + a >= 0  BY <1>3, <1>4
  <2> HIDE DEF a, b
  <2>4. (q - e) * 1000 >= b  BY <2>1, <2>2, <2>3
  <2> QED BY <2>4 DEF b
<1> QED BY <1>1, <1>5 DEF DrawdownAtLeast, Whole

\* The loss from some reading is the loss from their peak.
LEMMA LossIsFromPeak ==
  ASSUME NEW record, NEW peak \in Int, NEW e \in Int, NEW limit \in Nat,
         \A r \in record : r.equity \in Int /\ r.equity <= peak,
         peak > 0 => \E r \in record : r.equity = peak
  PROVE  LossFromAny(record, e, limit) <=> DrawdownAtLeast(peak, e, limit)
<1>1. ASSUME NEW r \in record, DrawdownAtLeast(r.equity, e, limit)
      PROVE  DrawdownAtLeast(peak, e, limit)
  BY <1>1, DrawdownGrows
<1>2. ASSUME DrawdownAtLeast(peak, e, limit)
      PROVE  \E r \in record : DrawdownAtLeast(r.equity, e, limit)
  <2>1. peak > 0  BY <1>2 DEF DrawdownAtLeast
  <2>2. PICK r \in record : r.equity = peak  BY <2>1
  <2> QED BY <1>2, <2>2
<1> QED BY <1>1, <1>2 DEF LossFromAny

\* Hence the demand of the record is the gravest of the three checks.
LEMMA DemandOfRecord ==
  ASSUME RiskConfigAssumption,
         NEW record, NEW date, NEW e, NEW all, NEW kept, NEW peak, NEW daily,
         WindowOf(all) = kept,
         \A limit \in Nat : LossFromAny(record, e, limit) <=> DrawdownAtLeast(peak, e, limit),
         \A limit \in Nat :
           LossFromAny(On(record, date), e, limit) <=> DrawdownAtLeast(daily, e, limit)
  PROVE  RecordDemand(record, date, e, all)
           = Higher(Higher(ErrorDemand(kept), OverallDemand(peak, e)), DailyDemand(daily, e))
<1> DEFINE R(m) == RecordDemands(m, record, date, e, all)
           D == Higher(Higher(ErrorDemand(kept), OverallDemand(peak, e)), DailyDemand(daily, e))
<1>1. /\ SafeModeDrawdown \in Nat /\ MaxDrawdown \in Nat
      /\ DailySoftHalt \in Nat /\ DailyHardHalt \in Nat
  BY DEF RiskConfigAssumption
<1>2. /\ R(Running)
      /\ R(Paused) <=> ErrorRateExceeded(kept)
      /\ R(Safe) <=> DrawdownAtLeast(peak, e, SafeModeDrawdown)
      /\ R(Flatten) <=> DrawdownAtLeast(daily, e, DailySoftHalt)
      /\ R(Halted) <=> \/ DrawdownAtLeast(peak, e, MaxDrawdown)
                       \/ DrawdownAtLeast(daily, e, DailyHardHalt)
  <2> USE DEF RecordDemands, Running, Paused, Safe, Flatten, Halted
  <2>1. R(Running)  OBVIOUS
  <2>2. R(Paused) <=> ErrorRateExceeded(kept)
    <3>1. R(Paused) <=> ErrorRateExceeded({f \in all : now - f.at <= ErrorWindow})  BY SMT
    <3> QED BY <3>1, Zenon DEF WindowOf
  <2>3. R(Safe) <=> DrawdownAtLeast(peak, e, SafeModeDrawdown)  BY <1>1
  <2>4. R(Flatten) <=> DrawdownAtLeast(daily, e, DailySoftHalt)  BY <1>1
  <2>5. R(Halted) <=> \/ DrawdownAtLeast(peak, e, MaxDrawdown)
                      \/ DrawdownAtLeast(daily, e, DailyHardHalt)
    BY <1>1
  <2> QED BY <2>1, <2>2, <2>3, <2>4, <2>5
<1> HIDE DEF R
<1>3. Modes = {Running, Paused, Safe, Flatten, Halted}
  BY DEF Modes, Running, Paused, Safe, Flatten, Halted
<1>4. /\ ErrorDemand(kept) = IF R(Paused) THEN Paused ELSE Running
      /\ OverallDemand(peak, e) \in {Running, Safe, Halted}
      /\ DailyDemand(daily, e) \in {Running, Flatten, Halted}
      /\ OverallDemand(peak, e) = Safe => R(Safe)
      /\ OverallDemand(peak, e) = Halted => R(Halted)
      /\ DailyDemand(daily, e) = Flatten => R(Flatten)
      /\ DailyDemand(daily, e) = Halted => R(Halted)
      /\ R(Safe) => OverallDemand(peak, e) \in {Safe, Halted}
      /\ R(Flatten) => DailyDemand(daily, e) \in {Flatten, Halted}
      /\ R(Halted) => OverallDemand(peak, e) = Halted \/ DailyDemand(daily, e) = Halted
  BY <1>2 DEF ErrorDemand, OverallDemand, DailyDemand, Running, Paused, Safe, Flatten, Halted
<1>5. D \in {m \in Modes : R(m)}
  BY <1>2, <1>3, <1>4 DEF Higher, Running, Paused, Safe, Flatten, Halted
<1>6. \A m \in {n \in Modes : R(n)} : m <= D
  BY <1>2, <1>3, <1>4 DEF Higher, Running, Paused, Safe, Flatten, Halted
<1>7. \A m \in {n \in Modes : R(n)} : (\A n \in {k \in Modes : R(k)} : n <= m) => m = D
  BY <1>3, <1>5, <1>6 DEF Running, Paused, Safe, Flatten, Halted
<1>8. GravestOf({m \in Modes : R(m)}) = D
  BY <1>5, <1>6, <1>7 DEF GravestOf
<1> QED BY <1>8 DEF R, RecordDemand

\* What an evaluation demands is a mode.
LEMMA DemandsAreModes ==
  ASSUME NEW events, NEW peak, NEW daily, NEW e
  PROVE  /\ ErrorDemand(events) \in Modes /\ OverallDemand(peak, e) \in Modes
         /\ DailyDemand(daily, e) \in Modes
BY DEF ErrorDemand, OverallDemand, DailyDemand, Modes, Running, Paused, Safe, Flatten, Halted

\* An evaluation raises the mode as the record demands.
LEMMA EvaluationMatches ==
  ASSUME RiskConfigAssumption,
         NEW current, NEW set \in Modes, NEW w \in Modes, current = Higher(set, w),
         NEW record, NEW date, NEW e \in Int, NEW all, NEW events,
         NEW peak \in Int, NEW daily \in Int,
         WindowOf(all) = PruneOlderThan(events),
         \A r \in record : r.equity \in Int /\ r.equity <= peak,
         peak > 0 => \E r \in record : r.equity = peak,
         \A r \in On(record, date) : r.equity <= daily,
         daily > 0 => \E r \in On(record, date) : r.equity = daily
  PROVE  /\ RecordDemand(record, date, e, all) \in Modes
         /\ Higher(w, RecordDemand(record, date, e, all)) \in Modes
         /\ Evaluated(current, events, peak, daily, e)
              = Higher(set, Higher(w, RecordDemand(record, date, e, all)))
         /\ Evaluated(current, events, peak, daily, e) \in Modes
<1> DEFINE E == ErrorDemand(PruneOlderThan(events))
           O == OverallDemand(peak, e)
           D == DailyDemand(daily, e)
<1>1. \A limit \in Nat : LossFromAny(record, e, limit) <=> DrawdownAtLeast(peak, e, limit)
  BY LossIsFromPeak
<1>2. \A r \in On(record, date) : r.equity \in Int /\ r.equity <= daily
  BY DEF On
<1>3. \A limit \in Nat :
        LossFromAny(On(record, date), e, limit) <=> DrawdownAtLeast(daily, e, limit)
  BY <1>2, LossIsFromPeak
<1>4. RecordDemand(record, date, e, all) = Higher(Higher(E, O), D)
  BY <1>1, <1>3, DemandOfRecord
<1>5. E \in Modes /\ O \in Modes /\ D \in Modes
  BY DemandsAreModes
<1>6. Evaluated(current, events, peak, daily, e) = Higher(Higher(Higher(current, E), O), D)
  BY DEF Evaluated, EscalateTo
<1> HIDE DEF E, O, D
<1>7. Modes \subseteq Int
  BY DEF Modes, Running, Halted
<1> QED BY <1>4, <1>5, <1>6, <1>7 DEF Higher

\* The pruned window holds what is recent of all the fills.
LEMMA WindowIsKept ==
  ASSUME RiskConfigAssumption, now \in Nat,
         NEW all, NEW events, events \subseteq all, \A f \in all : f.at \in Nat,
         \A f \in all : f.at >= now - ErrorWindow => f \in events
  PROVE  WindowOf(all) = PruneOlderThan(events)
<1>1. ErrorWindow \in Nat  BY DEF RiskConfigAssumption
<1>2. \A f \in all : now - f.at <= ErrorWindow <=> f.at >= now - ErrorWindow
  BY <1>1
<1> QED BY <1>2 DEF PruneOlderThan, WindowOf

\* Pruning keeps the window of every later moment.
LEMMA PruningKeeps ==
  ASSUME NEW all, NEW events, events \subseteq all,
         \A f \in all : f.at >= now - ErrorWindow => f \in events
  PROVE  /\ PruneOlderThan(events) \subseteq all
         /\ \A f \in all : f.at >= now - ErrorWindow => f \in PruneOlderThan(events)
BY DEF PruneOlderThan

-----------------------------------------------------------------------------
(* The operations.                                                         *)

\* What a reading adds to the record.
ToldWith(e) == readings \cup {[day |-> today, equity |-> e]}

\* The peaks a reading leaves are readings of the record it leaves, and none
\* that they cover was higher.
PeaksOf(told, date, peak, daily) ==
  /\ \A r \in told : r.equity \in Int /\ r.equity <= peak
  /\ peak > 0 => \E r \in told : r.equity = peak
  /\ \A r \in On(told, date) : r.equity <= daily
  /\ daily # 0 => \E r \in On(told, date) : r.equity = daily

\* A reading is recorded with its peaks, over every midnight.
LEMMA ReadingRecorded ==
  ASSUME RiskConfigAssumption, IInv, NEW e \in Int
  PROVE  /\ Higher(peakEquity, e) \in Nat /\ DailyPeakWith(e) \in Int
         /\ ToldWith(e) \subseteq [day : Nat, equity : Int]
         /\ \A r \in ToldWith(e) : r.day <= today
         /\ PeaksOf(ToldWith(e), today, Higher(peakEquity, e), DailyPeakWith(e))
<1> DEFINE peak  == Higher(peakEquity, e)
           daily == DailyPeakWith(e)
           told  == readings \cup {[day |-> today, equity |-> e]}
<1> USE DEF IInv
<1>1. e \in Int  OBVIOUS
<1>3. /\ today \in Nat /\ lastDailyReset \in 0..today
      /\ peakEquity \in Nat /\ dailyPeakEquity \in Int
      /\ readings \subseteq [day : Nat, equity : Int]
  BY DEF TypeOK
<1>4. peak \in Nat /\ daily \in Int
  BY <1>1, <1>3 DEF Higher, DailyPeakWith
<1>5. told \subseteq [day : Nat, equity : Int]
  BY <1>1, <1>3
<1>6. /\ \A r \in told : r.equity \in Int /\ r.equity <= peak
      /\ peak > 0 => \E r \in told : r.equity = peak
  <2>1. \A r \in readings : r.equity \in Int /\ r.equity <= peakEquity
    BY <1>3 DEF PeaksAreReadings
  <2>2. peakEquity > 0 => \E r \in readings : r.equity = peakEquity
    BY DEF PeaksAreReadings
  <2>3. [day |-> today, equity |-> e].equity = e  OBVIOUS
  <2>4. \A r \in told : r.equity \in Int /\ r.equity <= peak
    BY <2>1, <2>3, <1>1, <1>3 DEF Higher
  <2>5. \E r \in told : r.equity = e  BY <2>3
  <2>6. peakEquity > 0 => \E r \in told : r.equity = peakEquity  BY <2>2
  <2>7. peak = e \/ peak = peakEquity  BY DEF Higher
  <2> HIDE DEF peak, told
  <2> QED BY <2>4, <2>5, <2>6, <2>7
<1>7. /\ \A r \in On(told, today) : r.equity <= daily
      /\ daily # 0 => \E r \in On(told, today) : r.equity = daily
  <2>1. [day |-> today, equity |-> e] \in On(told, today)
    BY DEF On
  <2>2. CASE today > lastDailyReset
    <3>1. \A r \in readings : r.day # today
      BY <1>3, <2>2 DEF ReadingsKnown
    <3>2. On(told, today) = {[day |-> today, equity |-> e]}
      BY <3>1 DEF On
    <3>3. daily = e  BY <2>2 DEF DailyPeakWith
    <3>4. [day |-> today, equity |-> e].equity = e  OBVIOUS
    <3> HIDE DEF daily, told
    <3> QED BY <1>1, <3>2, <3>3, <3>4
  <2>3. CASE today = lastDailyReset
    <3>1. On(told, today) = On(readings, lastDailyReset) \cup {[day |-> today, equity |-> e]}
      BY <2>3 DEF On
    <3>2. daily = Higher(dailyPeakEquity, e)
      BY <1>3, <2>3 DEF DailyPeakWith
    <3>3. \A r \in On(readings, lastDailyReset) : r.equity \in Int /\ r.equity <= dailyPeakEquity
      BY <1>3 DEF On, PeaksAreReadings
    <3>4. dailyPeakEquity # 0 => \E r \in On(readings, lastDailyReset) : r.equity = dailyPeakEquity
      BY DEF PeaksAreReadings
    <3>5. \A r \in On(told, today) : r.equity <= daily
      BY <1>1, <1>3, <3>1, <3>2, <3>3 DEF Higher
    <3>6. CASE daily = e  BY <2>1, <3>5, <3>6
    <3>7. CASE daily = dailyPeakEquity  BY <3>1, <3>4, <3>5, <3>7
    <3> QED BY <3>2, <3>6, <3>7 DEF Higher
  <2>4. today > lastDailyReset \/ today = lastDailyReset  BY <1>3
  <2> HIDE DEF daily, told
  <2> QED BY <2>2, <2>3, <2>4
<1>8. \A r \in told : r.day <= today
  <2>1. \A r \in readings : r.day <= today
    BY <1>3 DEF ReadingsKnown
  <2> QED BY <1>3, <2>1
<1>9. told = ToldWith(e)  BY DEF ToldWith
<1> HIDE DEF peak, daily, told, IInv
<1>10. PeaksOf(told, today, peak, daily)  BY <1>6, <1>7 DEF PeaksOf
<1> QED BY <1>4, <1>5, <1>8, <1>9, <1>10 DEF peak, daily

\* An evaluation of a reading raises whatever mode was set by the demand of
\* the record with the reading.
LEMMA ReadingEvaluated ==
  ASSUME RiskConfigAssumption, IInv, NEW e \in Int,
         NEW set \in Modes, NEW w \in Modes, NEW current, current = Higher(set, w),
         NEW events, events \in {fillEvents, PruneOlderThan(fillEvents)}
  PROVE  /\ RecordDemand(ToldWith(e), today, e, fills) \in Modes
         /\ Higher(w, RecordDemand(ToldWith(e), today, e, fills)) \in Modes
         /\ Evaluated(current, events, Higher(peakEquity, e), DailyPeakWith(e), e)
              = Higher(set, Higher(w, RecordDemand(ToldWith(e), today, e, fills)))
         /\ Evaluated(current, events, Higher(peakEquity, e), DailyPeakWith(e), e) \in Modes
<1> DEFINE peak  == Higher(peakEquity, e)
           daily == DailyPeakWith(e)
           told  == ToldWith(e)
<1>1. peak \in Int /\ daily \in Int /\ PeaksOf(told, today, peak, daily)
  BY ReadingRecorded
<1>2. WindowOf(fills) = PruneOlderThan(fillEvents)
  <2>1. /\ now \in Nat /\ \A f \in fills : f.at \in Nat
        /\ fillEvents \subseteq fills
        /\ \A f \in fills : f.at >= now - ErrorWindow => f \in fillEvents
    BY DEF IInv, TypeOK, Fill, FillsInWindow
  <2> QED BY <2>1, WindowIsKept
<1>3. PruneOlderThan(events) = PruneOlderThan(fillEvents)
  BY DEF PruneOlderThan
<1>4. WindowOf(fills) = PruneOlderThan(events)  BY <1>2, <1>3
<1> HIDE DEF peak, daily, told
<1>5. /\ \A r \in told : r.equity \in Int /\ r.equity <= peak
      /\ peak > 0 => \E r \in told : r.equity = peak
      /\ \A r \in On(told, today) : r.equity <= daily
      /\ daily > 0 => \E r \in On(told, today) : r.equity = daily
  BY <1>1 DEF PeaksOf
<1>6. /\ RecordDemand(told, today, e, fills) \in Modes
      /\ Higher(w, RecordDemand(told, today, e, fills)) \in Modes
      /\ Evaluated(current, events, peak, daily, e)
           = Higher(set, Higher(w, RecordDemand(told, today, e, fills)))
      /\ Evaluated(current, events, peak, daily, e) \in Modes
  BY <1>1, <1>4, <1>5, EvaluationMatches
<1> QED BY <1>6 DEF peak, daily, told

\* A reading recorded and a mode that is what was set or demanded keep the
\* invariant.
LEMMA RecordingKeeps ==
  ASSUME RiskConfigAssumption, IInv, NEW e \in Int,
         currentEquity' = e, peakEquity' = Higher(peakEquity, e),
         dailyPeakEquity' = DailyPeakWith(e), lastDailyReset' = today,
         readings' = ToldWith(e), fillEvents' = PruneOlderThan(fillEvents),
         UNCHANGED <<clockVars, fills, bookVars>>,
         setMode' \in Modes, worst' \in Modes, mode' \in Modes,
         mode' = Higher(setMode', worst')
  PROVE  IInv'
<1> DEFINE peak  == Higher(peakEquity, e)
           daily == DailyPeakWith(e)
           told  == ToldWith(e)
<1>1. /\ peak \in Nat /\ daily \in Int
      /\ told \subseteq [day : Nat, equity : Int] /\ \A r \in told : r.day <= today
      /\ PeaksOf(told, today, peak, daily)
  BY ReadingRecorded
<1>2. /\ currentEquity' = e /\ peakEquity' = peak /\ dailyPeakEquity' = daily
      /\ lastDailyReset' = today /\ readings' = told
      /\ fillEvents' = PruneOlderThan(fillEvents)
      /\ now' = now /\ today' = today /\ fills' = fills
      /\ unhedgedSince' = unhedgedSince /\ unhedgedRun' = unhedgedRun
  BY DEF clockVars, bookVars
<1> HIDE DEF peak, daily, told
<1>3. TypeOK'
  <2>1. now' \in Nat \ {0} /\ today' \in Nat /\ lastDailyReset' \in 0..today'
    BY <1>2 DEF IInv, TypeOK
  <2>2. peakEquity' \in Nat /\ currentEquity' \in Int /\ dailyPeakEquity' \in Int
    BY <1>1, <1>2
  <2>3. fillEvents' \subseteq Fill /\ fills' \subseteq Fill /\ IsFiniteSet(fills')
    BY <1>2 DEF IInv, TypeOK, PruneOlderThan
  <2>4. unhedgedSince' \in 0..now' /\ unhedgedRun' \subseteq 1..now'
    BY <1>2 DEF IInv, TypeOK
  <2>5. readings' \subseteq [day : Nat, equity : Int]  BY <1>1, <1>2
  <2> QED BY <2>1, <2>2, <2>3, <2>4, <2>5 DEF TypeOK
<1>4. PeaksAreReadings'
  BY <1>1, <1>2 DEF PeaksAreReadings, PeaksOf
<1>5. ReadingsKnown'
  BY <1>1, <1>2 DEF ReadingsKnown
<1>6. FillsInWindow'
  BY <1>2, PruningKeeps DEF IInv, FillsInWindow
<1>7. TimerIsOldest'
  BY <1>2 DEF IInv, TimerIsOldest
<1>8. ModeIsGravestDemand'  BY DEF ModeIsGravestDemand
<1> QED BY <1>3, <1>4, <1>5, <1>6, <1>7, <1>8 DEF IInv

\* So a reading of the equity keeps the invariant.
LEMMA UpdateEquityKeeps ==
  ASSUME RiskConfigAssumption, IInv, NEW e \in Equities, UpdateEquity(e)
  PROVE  IInv'
<1>1. e \in Int  BY DEF RiskConfigAssumption
<1>2. /\ currentEquity' = e /\ peakEquity' = Higher(peakEquity, e)
      /\ dailyPeakEquity' = DailyPeakWith(e) /\ lastDailyReset' = today
      /\ readings' = ToldWith(e) /\ fillEvents' = PruneOlderThan(fillEvents)
      /\ mode' = Evaluated(mode, fillEvents, Higher(peakEquity, e), DailyPeakWith(e), e)
      /\ worst' = Higher(worst, RecordDemand(ToldWith(e), today, e, fills))
      /\ setMode' = setMode
      /\ UNCHANGED <<clockVars, fills, bookVars>>
  BY DEF UpdateEquity, ToldWith
<1>3. mode = Higher(setMode, worst) /\ setMode \in Modes /\ worst \in Modes
  BY DEF IInv, ModeIsGravestDemand, TypeOK
<1>4. /\ Higher(worst, RecordDemand(ToldWith(e), today, e, fills)) \in Modes
      /\ Evaluated(mode, fillEvents, Higher(peakEquity, e), DailyPeakWith(e), e)
           = Higher(setMode, Higher(worst, RecordDemand(ToldWith(e), today, e, fills)))
      /\ Evaluated(mode, fillEvents, Higher(peakEquity, e), DailyPeakWith(e), e) \in Modes
  BY <1>1, <1>3, ReadingEvaluated
<1>5. setMode' \in Modes /\ worst' \in Modes /\ mode' \in Modes
      /\ mode' = Higher(setMode', worst')
  BY <1>2, <1>3, <1>4
<1> QED BY <1>1, <1>2, <1>5, RecordingKeeps

\* An evaluation of the fills so far, with or without a new one, by the last
\* reading.
LEMMA EvaluationKeeps ==
  ASSUME RiskConfigAssumption, IInv, NEW all, NEW events,
         events \subseteq all, all \subseteq Fill, IsFiniteSet(all),
         \A f \in all : f.at >= now - ErrorWindow => f \in events,
         fillEvents' = PruneOlderThan(events), fills' = all,
         mode' = Evaluated(mode, events, peakEquity, dailyPeakEquity, currentEquity),
         worst' = Higher(worst, RecordDemand(readings, lastDailyReset, currentEquity, all)),
         UNCHANGED <<clockVars, equityVars, bookVars, setMode>>
  PROVE  IInv'
<1> USE DEF IInv
<1>1. /\ now' = now /\ today' = today
      /\ peakEquity' = peakEquity /\ currentEquity' = currentEquity
      /\ dailyPeakEquity' = dailyPeakEquity /\ lastDailyReset' = lastDailyReset
      /\ readings' = readings /\ setMode' = setMode
      /\ unhedgedSince' = unhedgedSince /\ unhedgedRun' = unhedgedRun
  BY DEF clockVars, equityVars, bookVars
<1>2. /\ now \in Nat /\ currentEquity \in Int /\ peakEquity \in Int /\ dailyPeakEquity \in Int
      /\ mode = Higher(setMode, worst) /\ setMode \in Modes /\ worst \in Modes
      /\ \A f \in all : f.at \in Nat
  BY DEF TypeOK, ModeIsGravestDemand, Fill
<1>3. WindowOf(all) = PruneOlderThan(events)
  BY <1>2, WindowIsKept
<1>4. /\ \A r \in readings : r.equity \in Int /\ r.equity <= peakEquity
      /\ peakEquity > 0 => \E r \in readings : r.equity = peakEquity
      /\ \A r \in On(readings, lastDailyReset) : r.equity <= dailyPeakEquity
      /\ dailyPeakEquity > 0 =>
           \E r \in On(readings, lastDailyReset) : r.equity = dailyPeakEquity
  <2>1. \A r \in readings : r.equity \in Int  BY DEF TypeOK
  <2> QED BY <1>2, <2>1 DEF PeaksAreReadings
<1>5. /\ worst' \in Modes /\ mode' \in Modes /\ mode' = Higher(setMode, worst')
  <2> HIDE DEF IInv
  <2> DEFINE d == RecordDemand(readings, lastDailyReset, currentEquity, all)
             v == Evaluated(mode, events, peakEquity, dailyPeakEquity, currentEquity)
  <2>1. Higher(worst, d) \in Modes /\ v = Higher(setMode, Higher(worst, d)) /\ v \in Modes
    BY <1>2, <1>3, <1>4, EvaluationMatches
  <2>2. mode' = v /\ worst' = Higher(worst, d)  OBVIOUS
  <2> HIDE DEF d, v
  <2> QED BY <2>1, <2>2
<1>6. TypeOK'
  <2>1. fillEvents' \subseteq Fill  BY DEF PruneOlderThan
  <2> QED BY <1>1, <1>5, <2>1 DEF TypeOK
<1>7. PeaksAreReadings'  BY <1>1 DEF PeaksAreReadings
<1>8. ReadingsKnown'  BY <1>1 DEF ReadingsKnown
<1>9. FillsInWindow'  BY <1>1, PruningKeeps DEF FillsInWindow
<1>10. TimerIsOldest'  BY <1>1 DEF TimerIsOldest
<1> QED BY <1>1, <1>5, <1>6, <1>7, <1>8, <1>9, <1>10 DEF ModeIsGravestDemand

\* So does a fill,
LEMMA RecordFillKeeps ==
  ASSUME RiskConfigAssumption, IInv, NEW error \in BOOLEAN, RecordFill(error)
  PROVE  IInv'
<1> DEFINE fill   == [at |-> now, n |-> Cardinality(fills), error |-> error]
           all    == fills \cup {fill}
           events == fillEvents \cup {fill}
<1>1. fill \in Fill
  <2>1. Cardinality(fills) \in Nat  BY FS_CardinalityType DEF IInv, TypeOK
  <2> QED BY <2>1 DEF IInv, TypeOK, Fill
<1>2. events \subseteq all /\ all \subseteq Fill /\ IsFiniteSet(all)
  <2>1. IsFiniteSet(fills) /\ fills \subseteq Fill /\ fillEvents \subseteq fills
    BY DEF IInv, TypeOK, FillsInWindow
  <2> QED BY <1>1, <2>1, FS_AddElement
<1>3. \A f \in all : f.at >= now - ErrorWindow => f \in events
  BY DEF IInv, FillsInWindow
<1>4. /\ fillEvents' = PruneOlderThan(events) /\ fills' = all
      /\ mode' = Evaluated(mode, events, peakEquity, dailyPeakEquity, currentEquity)
      /\ worst' = Higher(worst, RecordDemand(readings, lastDailyReset, currentEquity, all))
      /\ UNCHANGED <<clockVars, equityVars, bookVars, setMode>>
  BY DEF RecordFill
<1> HIDE DEF fill, all, events
<1> QED BY <1>2, <1>3, <1>4, EvaluationKeeps

\* and an evaluation of its own.
LEMMA ReevaluateKeeps ==
  ASSUME RiskConfigAssumption, IInv, Reevaluate
  PROVE  IInv'
<1>1. /\ fillEvents \subseteq fills /\ fills \subseteq Fill /\ IsFiniteSet(fills)
      /\ \A f \in fills : f.at >= now - ErrorWindow => f \in fillEvents
  BY DEF IInv, TypeOK, FillsInWindow
<1>2. /\ fillEvents' = PruneOlderThan(fillEvents) /\ fills' = fills
      /\ mode' = Evaluated(mode, fillEvents, peakEquity, dailyPeakEquity, currentEquity)
      /\ worst' = Higher(worst, RecordDemand(readings, lastDailyReset, currentEquity, fills))
      /\ UNCHANGED <<clockVars, equityVars, bookVars, setMode>>
  BY DEF Reevaluate
<1> QED BY <1>1, <1>2, EvaluationKeeps

\* What began earlier has lasted longer.
LEMMA OlderIsLonger ==
  ASSUME NEW n \in Int, NEW a \in Int, NEW b \in Int, NEW limit \in Int,
         a <= b, n - b >= limit
  PROVE  n - a >= limit
OBVIOUS

\* A snapshot of the positions keeps the invariant.
LEMMA SnapshotKeeps ==
  ASSUME RiskConfigAssumption, IInv, NEW book, RecordPositionSnapshot(book)
  PROVE  IInv'
<1> USE DEF IInv
<1>1. /\ unhedgedSince' = UnhedgedSinceWith(book)
      /\ unhedgedRun' = IF Unhedged(book) THEN unhedgedRun \cup {now} ELSE {}
      /\ mode' = EscalateTo(mode, IF Unhedged(book) /\ now - unhedgedSince' >= LegMismatchClose
                                  THEN Flatten ELSE Running)
      /\ worst' = Higher(worst, IF \E t \in unhedgedRun' : now - t >= LegMismatchClose
                                THEN Flatten ELSE Running)
      /\ now' = now /\ today' = today
      /\ peakEquity' = peakEquity /\ currentEquity' = currentEquity
      /\ dailyPeakEquity' = dailyPeakEquity /\ lastDailyReset' = lastDailyReset
      /\ readings' = readings /\ fillEvents' = fillEvents /\ fills' = fills
      /\ setMode' = setMode
  BY DEF RecordPositionSnapshot, clockVars, equityVars, fillVars
<1>2. /\ now \in Nat \ {0} /\ unhedgedSince \in 0..now /\ unhedgedRun \subseteq 1..now
      /\ mode = Higher(setMode, worst) /\ setMode \in Modes /\ worst \in Modes
      /\ LegMismatchClose \in Nat
  BY DEF TypeOK, ModeIsGravestDemand, RiskConfigAssumption
<1>3. /\ unhedgedSince' \in 0..now /\ unhedgedRun' \subseteq 1..now
  BY <1>1, <1>2 DEF UnhedgedSinceWith
<1>4. TimerIsOldest'
  BY <1>1, <1>2 DEF TimerIsOldest, UnhedgedSinceWith
<1>5. Unhedged(book) /\ now - unhedgedSince' >= LegMismatchClose
        <=> \E t \in unhedgedRun' : now - t >= LegMismatchClose
  <2>1. CASE ~Unhedged(book)
    BY <1>1, <2>1
  <2>2. CASE Unhedged(book)
    <3>1. unhedgedSince' \in unhedgedRun'
      BY <1>1, <1>2, <2>2 DEF TimerIsOldest, UnhedgedSinceWith
    <3>2. \A t \in unhedgedRun' : t \in Int /\ unhedgedSince' <= t
      BY <1>3, <1>4 DEF TimerIsOldest
    <3>3. ASSUME NEW t \in unhedgedRun', now - t >= LegMismatchClose
          PROVE  now - unhedgedSince' >= LegMismatchClose
      <4> HIDE DEF IInv
      <4>1. t \in Int /\ unhedgedSince' <= t /\ unhedgedSince' \in Int  BY <1>3, <3>2
      <4>2. now \in Int /\ LegMismatchClose \in Int  BY <1>2
      <4> QED BY <3>3, <4>1, <4>2, OlderIsLonger, Zenon
    <3> QED BY <2>2, <3>1, <3>3
  <2> QED BY <2>1, <2>2
<1>6. mode' \in Modes /\ worst' \in Modes /\ mode' = Higher(setMode, worst')
  <2> DEFINE d == IF \E t \in unhedgedRun' : now - t >= LegMismatchClose THEN Flatten ELSE Running
  <2>1. mode' = Higher(mode, d) /\ worst' = Higher(worst, d)
    BY <1>1, <1>5 DEF EscalateTo
  <2>2. d \in Modes /\ Modes \subseteq Int
    BY DEF Modes, Running, Flatten, Halted
  <2> HIDE DEF d
  <2> QED BY <1>2, <2>1, <2>2 DEF Higher
<1>7. TypeOK'
  BY <1>1, <1>3, <1>6 DEF TypeOK
<1>8. PeaksAreReadings' /\ ReadingsKnown' /\ FillsInWindow'
  BY <1>1 DEF PeaksAreReadings, ReadingsKnown, FillsInWindow
<1> QED BY <1>1, <1>4, <1>6, <1>7, <1>8 DEF ModeIsGravestDemand

\* So does a mode that is set,
LEMMA SetModeKeeps ==
  ASSUME IInv, NEW m \in Modes, SetMode(m)
  PROVE  IInv'
<1> USE DEF IInv, SetMode, clockVars, equityVars, fillVars, bookVars
<1>1. Running \in Modes /\ m \in Int /\ Running <= m
  BY DEF Modes, Running, Halted
<1>2. TypeOK'  BY <1>1 DEF TypeOK
<1>3. PeaksAreReadings' /\ ReadingsKnown' /\ FillsInWindow' /\ TimerIsOldest'
  BY DEF PeaksAreReadings, ReadingsKnown, FillsInWindow, TimerIsOldest
<1>4. ModeIsGravestDemand'
  BY <1>1 DEF ModeIsGravestDemand, Higher, Running
<1> QED BY <1>2, <1>3, <1>4

\* and the clock.
LEMMA TickKeeps ==
  ASSUME RiskConfigAssumption, IInv, Tick
  PROVE  IInv'
<1> USE DEF IInv, Tick, equityVars, fillVars, bookVars, modeVars
<1>1. now \in Nat \ {0} /\ today \in Nat /\ now' = now + 1 /\ today' \in {today, today + 1}
  BY DEF TypeOK
<1>2. TypeOK'
  <2>1. now' \in Nat \ {0} /\ today' \in Nat /\ lastDailyReset' \in 0..today'
    BY <1>1 DEF TypeOK
  <2>2. unhedgedSince' \in 0..now' /\ unhedgedRun' \subseteq 1..now'
    BY <1>1 DEF TypeOK
  <2> QED BY <2>1, <2>2 DEF TypeOK
<1>3. PeaksAreReadings' /\ ReadingsKnown' /\ TimerIsOldest' /\ ModeIsGravestDemand'
  BY DEF PeaksAreReadings, ReadingsKnown, TimerIsOldest, ModeIsGravestDemand
<1>4. FillsInWindow'
  <2>1. \A f \in fills : f.at \in Nat  BY DEF TypeOK, Fill
  <2>2. ErrorWindow \in Nat  BY DEF RiskConfigAssumption
  <2>3. \A f \in fills : f.at >= now' - ErrorWindow => f.at >= now - ErrorWindow
    BY <1>1, <2>1, <2>2
  <2> QED BY <2>3 DEF FillsInWindow
<1> QED BY <1>2, <1>3, <1>4

-----------------------------------------------------------------------------

\* The invariant holds at the start,
LEMMA InitiallyIInv ==
  ASSUME Init
  PROVE  IInv
<1>1. TypeOK
  BY FS_EmptySet DEF Init, TypeOK, Modes, Running, Halted
<1> QED BY <1>1 DEF Init, IInv, PeaksAreReadings, ReadingsKnown, FillsInWindow,
                    TimerIsOldest, ModeIsGravestDemand, Higher, On

\* and while nothing changes.
LEMMA StutterKeeps ==
  ASSUME IInv, UNCHANGED vars
  PROVE  IInv'
BY DEF vars, clockVars, equityVars, fillVars, bookVars, modeVars, IInv, TypeOK,
       PeaksAreReadings, ReadingsKnown, FillsInWindow, TimerIsOldest, ModeIsGravestDemand

\* So the invariant holds throughout.
LEMMA InductiveInvariant == Spec => []IInv
<1>1. Init => IInv  BY InitiallyIInv
<1>2. IInv /\ [Next]_vars => IInv'
  <2> SUFFICES ASSUME IInv, [Next]_vars PROVE IInv'  OBVIOUS
  <2>1. ASSUME NEW e \in Equities, UpdateEquity(e) PROVE IInv'
    BY <2>1, UpdateEquityKeeps, RiskConfigAssumption
  <2>2. ASSUME NEW error \in BOOLEAN, RecordFill(error) PROVE IInv'
    BY <2>2, RecordFillKeeps, RiskConfigAssumption
  <2>3. CASE Reevaluate  BY <2>3, ReevaluateKeeps, RiskConfigAssumption
  <2>4. ASSUME NEW b \in Books, RecordPositionSnapshot(b) PROVE IInv'
    BY <2>4, SnapshotKeeps, RiskConfigAssumption
  <2>5. ASSUME NEW m \in Modes, SetMode(m) PROVE IInv'
    BY <2>5, SetModeKeeps
  <2>6. CASE Tick  BY <2>6, TickKeeps, RiskConfigAssumption
  <2>7. CASE UNCHANGED vars
    BY <2>7, StutterKeeps
  <2> QED BY <2>1, <2>2, <2>3, <2>4, <2>5, <2>6, <2>7 DEF Next
<1> QED BY <1>1, <1>2, PTL DEF Spec

\* Every variable of the risk engine keeps its type, under any readings, fills,
\* snapshots and commands (daemon.go:54-372).
THEOREM TypeCorrect == Spec => []TypeOK
<1>1. IInv => TypeOK  BY DEF IInv
<1> QED BY <1>1, InductiveInvariant, PTL

\* The peaks the engine judges by are readings it was given, and none that they
\* cover was higher: the daily one over every midnight (UpdateEquity).
THEOREM PeaksFromReadings == Spec => []PeaksAreReadings
<1>1. IInv => PeaksAreReadings  BY DEF IInv
<1> QED BY <1>1, InductiveInvariant, PTL

\* The mode is the gravest demand of the whole record since it was last set:
\* neither resetting a peak nor pruning a fill loses or invents one (evaluate).
THEOREM ModeFollowsRecord == Spec => []ModeIsGravestDemand
<1>1. IInv => ModeIsGravestDemand  BY DEF IInv
<1> QED BY <1>1, InductiveInvariant, PTL

-----------------------------------------------------------------------------
(* The process.  Nothing the record proves outlives a restart, which keeps *)
(* the record and forgets what was made of it.                             *)

LoopTyped ==
  /\ mode \in Modes /\ modeKey \in Modes \cup {NoKey} /\ restarts \in 0..MaxRestarts

\* A closed gate has seen a mode that closes it.
GateFollows == Blocks(modeKey) => Blocks(mode)

LoopIInv ==
  /\ LoopTyped
  /\ restarts = 0 => IInv /\ GateFollows

\* A graver mode than one that closes the gate closes it.
LEMMA BlocksUpwards ==
  ASSUME NEW m \in Modes, NEW n \in Modes, m <= n, Blocks(m)
  PROVE  Blocks(n)
BY DEF Blocks, Modes, Running, Flatten, Halted

\* An evaluation never lowers a mode.
LEMMA EvaluationRaises ==
  ASSUME NEW current \in Modes, NEW events, NEW peak, NEW daily, NEW e
  PROVE  /\ Evaluated(current, events, peak, daily, e) \in Modes
         /\ current <= Evaluated(current, events, peak, daily, e)
<1> DEFINE E == ErrorDemand(PruneOlderThan(events))
           O == OverallDemand(peak, e)
           D == DailyDemand(daily, e)
<1>1. E \in Modes /\ O \in Modes /\ D \in Modes
  BY DemandsAreModes
<1>2. Evaluated(current, events, peak, daily, e) = Higher(Higher(Higher(current, E), O), D)
  BY DEF Evaluated, EscalateTo
<1> HIDE DEF E, O, D
<1>3. Modes \subseteq Int
  BY DEF Modes, Running, Halted
<1> QED BY <1>1, <1>2, <1>3 DEF Higher

\* A margin reading lowers nothing but HALTED, and that to FLATTEN.
LEMMA MarginLowersHaltOnly ==
  ASSUME NEW current \in Modes, NEW used, NEW equity
  PROVE  /\ ModeAfterMargin(current, used, equity) \in Modes
         /\ \/ current <= ModeAfterMargin(current, used, equity)
            \/ current = Halted /\ ModeAfterMargin(current, used, equity) = Flatten
BY DEF ModeAfterMargin, Modes, Running, Flatten, Halted

\* A margin that halts is critical.
LEMMA HaltIsCritical ==
  ASSUME NEW used \in Int, NEW equity \in Int, NEW low \in Nat, NEW high \in Nat,
         low < high, MarginRatioAtLeast(used, equity, high)
  PROVE  MarginRatioAtLeast(used, equity, low)
<1>1. equity > 0 /\ used * 1000 >= high * equity
  BY DEF MarginRatioAtLeast, Whole
<1>2. (high - low) * equity >= 0  BY <1>1
<1>3. (high - low) * equity = high * equity - low * equity  OBVIOUS
<1>4. used * 1000 >= low * equity
  <2> DEFINE h == high * equity  l == low * equity
  <2>1. h \in Int /\ l \in Int /\ h - l >= 0 /\ used * 1000 >= h  BY <1>1, <1>2, <1>3
  <2> HIDE DEF h, l
  <2>2. used * 1000 >= l  BY <2>1
  <2> QED BY <2>2 DEF l
<1> QED BY <1>1, <1>4 DEF MarginRatioAtLeast, Whole

\* The modes of a poll: after the reading, after its margin, and when it ends.
LEMMA PollModes ==
  ASSUME RiskLoopAssumption, NEW e, NEW used, EquityPoll(e, used), mode \in Modes
  PROVE  \E updated \in Modes, set \in Modes :
           /\ mode <= updated /\ set <= mode' /\ mode' \in Modes
           /\ \/ updated <= set
              \/ updated = Halted /\ set = Flatten
<1> DEFINE peak    == Higher(peakEquity, e)
           daily   == DailyPeakWith(e)
           updated == Evaluated(mode, fillEvents, peak, daily, e)
           set     == ModeAfterMargin(updated, used, e)
<1>1. updated \in Modes /\ mode <= updated
  BY EvaluationRaises
<1>2. set \in Modes /\ (updated <= set \/ (updated = Halted /\ set = Flatten))
  <2> HIDE DEF updated
  <2> QED BY <1>1, MarginLowersHaltOnly
<1>3. mode' = Evaluated(set, fillEvents', peak, daily, e)
  BY DEF EquityPoll
<1>4. mode' \in Modes /\ set <= mode'
  <2> HIDE DEF set, peak, daily
  <2> QED BY <1>2, <1>3, EvaluationRaises
<1> HIDE DEF updated, set
<1> QED BY <1>1, <1>2, <1>4

\* A poll keeps the invariant of the engine.
LEMMA EquityPollKeeps ==
  ASSUME RiskConfigAssumption, RiskLoopAssumption, IInv,
         NEW e \in Equities, NEW used \in Margins, EquityPoll(e, used)
  PROVE  IInv'
<1> DEFINE peak    == Higher(peakEquity, e)
           daily   == DailyPeakWith(e)
           demand  == RecordDemand(ToldWith(e), today, e, fills)
           updated == Evaluated(mode, fillEvents, peak, daily, e)
           set     == ModeAfterMargin(updated, used, e)
           bySet   == MarginRatioAtLeast(used, e, MarginCritical)
           pruned  == PruneOlderThan(fillEvents)
<1>1. e \in Int  BY DEF RiskConfigAssumption
<1>2. /\ currentEquity' = e /\ peakEquity' = peak
      /\ dailyPeakEquity' = daily /\ lastDailyReset' = today
      /\ readings' = ToldWith(e) /\ fillEvents' = pruned
      /\ mode' = Evaluated(set, pruned, peak, daily, e)
      /\ setMode' = IF bySet THEN set ELSE setMode
      /\ worst' = IF bySet THEN demand ELSE Higher(worst, demand)
      /\ UNCHANGED <<clockVars, fills, bookVars>>
  BY DEF EquityPoll, ToldWith
<1>3. mode = Higher(setMode, worst) /\ setMode \in Modes /\ worst \in Modes
  BY DEF IInv, ModeIsGravestDemand, TypeOK
<1>4. /\ Running \in Modes /\ Modes \subseteq Int /\ \A m \in Modes : Higher(m, Running) = m
      /\ \A m \in Modes : Higher(Running, m) = m
  BY DEF Modes, Running, Halted, Higher
<1>5. \A s, w \in Modes : \A events \in {fillEvents, pruned} :
        /\ demand \in Modes /\ Higher(w, demand) \in Modes
        /\ Evaluated(Higher(s, w), events, peak, daily, e) = Higher(s, Higher(w, demand))
        /\ Evaluated(Higher(s, w), events, peak, daily, e) \in Modes
  <2> TAKE s \in Modes, w \in Modes
  <2> TAKE events \in {fillEvents, pruned}
  <2> QED BY <1>1, ReadingEvaluated
<1>6. /\ updated = Higher(setMode, Higher(worst, demand)) /\ updated \in Modes
      /\ Higher(worst, demand) \in Modes
  BY <1>3, <1>5
<1> HIDE DEF peak, daily, pruned
<1>7. demand \in Modes  BY <1>4, <1>5
<1>8. set \in Modes /\ (~bySet => set = updated)
  <2> HIDE DEF updated
  <2>1. set \in Modes  BY <1>6, MarginLowersHaltOnly
  <2>2. ~bySet => set = updated
    <3>1. MarginRatioAtLeast(used, e, MarginHalt) => bySet
      <4>1. /\ used \in Int /\ MarginHalt \in Nat /\ MarginCritical \in Nat
            /\ MarginCritical < MarginHalt
        BY DEF RiskLoopAssumption
      <4> QED BY <1>1, <4>1, HaltIsCritical
    <3> QED BY <3>1 DEF ModeAfterMargin
  <2> QED BY <2>1, <2>2
<1> HIDE DEF demand, updated, set, bySet
<1>9. setMode' \in Modes /\ worst' \in Modes /\ mode' \in Modes
      /\ mode' = Higher(setMode', worst')
  <2>1. CASE bySet
    <3>1. Higher(set, Running) = set  BY <1>4, <1>8
    <3>2. /\ Higher(Running, demand) = demand
          /\ Evaluated(set, pruned, peak, daily, e) = Higher(set, Higher(Running, demand))
          /\ Evaluated(set, pruned, peak, daily, e) \in Modes
      BY <1>4, <1>5, <1>7, <1>8, <3>1
    <3> QED BY <1>2, <1>7, <1>8, <2>1, <3>2
  <2>2. CASE ~bySet
    <3>1. /\ Evaluated(updated, pruned, peak, daily, e)
               = Higher(setMode, Higher(Higher(worst, demand), demand))
          /\ Evaluated(updated, pruned, peak, daily, e) \in Modes
      BY <1>3, <1>5, <1>6
    <3>2. Higher(Higher(worst, demand), demand) = Higher(worst, demand)
      BY <1>3, <1>4, <1>7 DEF Higher
    <3>3. set = updated  BY <1>8, <2>2
    <3> QED BY <1>2, <1>3, <1>6, <2>2, <3>1, <3>2, <3>3
  <2> QED BY <2>1, <2>2
<1> QED BY <1>1, <1>2, <1>9, RecordingKeeps DEF peak, daily, pruned

\* A snapshot of the positions escalates at most.
LEMMA PositionPollRaises ==
  ASSUME NEW book, PositionPoll(book), mode \in Modes
  PROVE  mode' \in Modes /\ mode <= mode' /\ UNCHANGED loopVars
<1> DEFINE d == IF /\ Unhedged(Snapshot(book))
                   /\ now - unhedgedSince' >= LegMismatchClose
                THEN Flatten ELSE Running
<1>1. mode' = Higher(mode, d) /\ UNCHANGED loopVars
  BY DEF PositionPoll, RecordPositionSnapshot, EscalateTo
<1>2. d \in Modes /\ Modes \subseteq Int
  BY DEF Modes, Running, Flatten, Halted
<1> HIDE DEF d
<1> QED BY <1>1, <1>2 DEF Higher

\* The invariant of the process.
LEMMA LoopInductive == LoopSpec => []LoopIInv
<1>1. LoopInit => LoopIInv
  <2> SUFFICES ASSUME LoopInit PROVE LoopIInv  OBVIOUS
  <2>1. Init /\ modeKey = NoKey /\ restarts = 0  BY DEF LoopInit
  <2>2. IInv  BY <2>1, InitiallyIInv
  <2>3. LoopTyped
    BY <2>1, <2>2, RiskLoopAssumption DEF LoopTyped, IInv, TypeOK, RiskLoopAssumption
  <2>4. GateFollows
    BY <2>1, RiskLoopAssumption
       DEF GateFollows, Blocks, RiskLoopAssumption, Modes, Running, Flatten, Halted
  <2> QED BY <2>2, <2>3, <2>4 DEF LoopIInv
<1>2. LoopIInv /\ [LoopNext]_allVars => LoopIInv'
  <2> SUFFICES ASSUME LoopIInv, [LoopNext]_allVars PROVE LoopIInv'  OBVIOUS
  <2>0. LoopTyped /\ (restarts = 0 => IInv /\ GateFollows) /\ mode \in Modes
    BY DEF LoopIInv, LoopTyped
  <2>1. ASSUME NEW e \in Equities, NEW used \in Margins, EquityPoll(e, used)
        PROVE  LoopIInv'
    <3>1. modeKey' = modeKey /\ restarts' = restarts
      BY <2>1 DEF EquityPoll, loopVars
    <3>2. PICK updated \in Modes, set \in Modes :
            /\ mode <= updated /\ set <= mode' /\ mode' \in Modes
            /\ \/ updated <= set
               \/ updated = Halted /\ set = Flatten
      BY <2>0, <2>1, PollModes, RiskLoopAssumption
    <3>3. Blocks(mode) => Blocks(mode')
      <4> SUFFICES ASSUME Blocks(mode) PROVE Blocks(mode')  OBVIOUS
      <4>1. Blocks(updated)  BY <2>0, <3>2, BlocksUpwards
      <4>2. Blocks(set)
        BY <3>2, <4>1, BlocksUpwards DEF Blocks
      <4> QED BY <3>2, <4>2, BlocksUpwards
    <3>4. restarts' = 0 => IInv'
      BY <2>0, <2>1, <3>1, EquityPollKeeps, RiskConfigAssumption, RiskLoopAssumption
    <3> QED BY <2>0, <3>1, <3>2, <3>3, <3>4 DEF LoopIInv, LoopTyped, GateFollows, Blocks
  <2>2. ASSUME NEW b \in ExchangeBooks, PositionPoll(b)
        PROVE  LoopIInv'
    <3>1. modeKey' = modeKey /\ restarts' = restarts /\ mode' \in Modes /\ mode <= mode'
      BY <2>0, <2>2, PositionPollRaises DEF loopVars
    <3>2. Blocks(mode) => Blocks(mode')  BY <2>0, <3>1, BlocksUpwards
    <3>3. restarts' = 0 => IInv'
      BY <2>0, <2>2, <3>1, SnapshotKeeps, RiskConfigAssumption DEF PositionPoll
    <3> QED BY <2>0, <3>1, <3>2, <3>3 DEF LoopIInv, LoopTyped, GateFollows, Blocks
  <2>3. CASE PublishState
    <3>1. modeKey' = mode /\ restarts' = restarts /\ UNCHANGED vars
      BY <2>3 DEF PublishState
    <3>2. mode' = mode  BY <3>1 DEF vars, modeVars
    <3>3. restarts' = 0 => IInv'  BY <2>0, <3>1, StutterKeeps
    <3> QED BY <2>0, <3>1, <3>2, <3>3 DEF LoopIInv, LoopTyped, GateFollows, Blocks
  <2>4. CASE Restart
    <3>1. /\ restarts' = restarts + 1 /\ restarts < MaxRestarts
          /\ mode' = Running /\ modeKey' = modeKey
      BY <2>4 DEF Restart
    <3>2. restarts \in 0..MaxRestarts /\ MaxRestarts \in Nat
      BY <2>0, RiskLoopAssumption DEF LoopTyped, RiskLoopAssumption
    <3>3. restarts' \in 0..MaxRestarts /\ restarts' # 0  BY <3>1, <3>2
    <3>4. Running \in Modes  BY DEF Modes, Running, Halted
    <3> QED BY <2>0, <3>1, <3>3, <3>4 DEF LoopIInv, LoopTyped
  <2>5. CASE ClockTick
    <3>1. modeKey' = modeKey /\ restarts' = restarts /\ mode' = mode
      BY <2>5 DEF ClockTick, Tick, loopVars, modeVars
    <3>2. restarts' = 0 => IInv'
      BY <2>0, <2>5, <3>1, TickKeeps, RiskConfigAssumption DEF ClockTick
    <3> QED BY <2>0, <3>1, <3>2 DEF LoopIInv, LoopTyped, GateFollows, Blocks
  <2>6. CASE UNCHANGED allVars
    <3>1. modeKey' = modeKey /\ restarts' = restarts /\ UNCHANGED vars
      BY <2>6 DEF allVars, loopVars
    <3>2. mode' = mode  BY <3>1 DEF vars, modeVars
    <3>3. restarts' = 0 => IInv'  BY <2>0, <3>1, StutterKeeps
    <3> QED BY <2>0, <3>1, <3>2, <3>3 DEF LoopIInv, LoopTyped, GateFollows, Blocks
  <2> QED BY <2>1, <2>2, <2>3, <2>4, <2>5, <2>6 DEF LoopNext
<1> QED BY <1>1, <1>2, PTL DEF LoopSpec

\* Until it dies, the process's mode is the gravest demand of everything it
\* polled since the last margin alert: neither the second evaluation of a poll
\* nor an alert between the two adds or loses a demand (main.go:75-135).
THEOREM LoopFollowsRecord == LoopSpec => [](restarts = 0 => ModeIsGravestDemand)
<1>1. LoopIInv => (restarts = 0 => ModeIsGravestDemand)  BY DEF LoopIInv, IInv
<1> QED BY <1>1, LoopInductive, PTL

\* Nothing lowers the mode of a running process but a critical margin, and
\* that only from HALTED to FLATTEN (margin.go, main.go).
THEOREM OnlyMarginLowers == LoopSpec => LoweredByMarginOnly
<1>1. LoopIInv /\ [LoopNext]_allVars =>
        [restarts' = restarts /\ mode' < mode => mode = Halted /\ mode' = Flatten]_allVars
  <2> SUFFICES ASSUME LoopIInv, LoopNext, restarts' = restarts, mode' < mode
               PROVE  mode = Halted /\ mode' = Flatten
    OBVIOUS
  <2>0. mode \in Modes /\ restarts \in Int /\ \A m \in Modes : ~(m < m)
    BY RiskLoopAssumption DEF LoopIInv, LoopTyped, Modes, Running, Halted
  <2>1. ASSUME NEW e \in Equities, NEW used \in Margins, EquityPoll(e, used)
        PROVE  mode = Halted /\ mode' = Flatten
    <3>1. PICK updated \in Modes, set \in Modes :
            /\ mode <= updated /\ set <= mode' /\ mode' \in Modes
            /\ \/ updated <= set
               \/ updated = Halted /\ set = Flatten
      BY <2>0, <2>1, PollModes, RiskLoopAssumption
    <3> QED BY <2>0, <3>1 DEF Modes, Running, Flatten, Halted
  <2>2. ASSUME NEW b \in ExchangeBooks, PositionPoll(b) PROVE FALSE
    <3>1. mode' \in Modes /\ mode <= mode'  BY <2>0, <2>2, PositionPollRaises
    <3> QED BY <2>0, <3>1 DEF Modes, Running, Halted
  <2>3. ~PublishState /\ ~ClockTick
    BY <2>0 DEF PublishState, ClockTick, Tick, vars, modeVars
  <2>4. ~Restart
    BY <2>0 DEF Restart
  <2> QED BY <2>1, <2>2, <2>3, <2>4 DEF LoopNext
<1> QED BY <1>1, LoopInductive, PTL DEF LoopSpec, LoweredByMarginOnly

\* While the process lives, a key that stops the router is never overwritten
\* by one that lets it go on, whatever is polled in between (main.go:101-135).
THEOREM GateNotReopened == LoopSpec => GateStaysClosed
<1>1. LoopIInv /\ [LoopNext]_allVars =>
        [Blocks(modeKey) /\ restarts' = 0 => Blocks(modeKey')]_allVars
  <2> SUFFICES ASSUME LoopIInv, LoopNext, Blocks(modeKey), restarts' = 0
               PROVE  Blocks(modeKey')
    OBVIOUS
  <2>1. CASE PublishState
    <3>1. modeKey' = mode /\ restarts = 0  BY <2>1 DEF PublishState
    <3>2. Blocks(mode)  BY <3>1 DEF LoopIInv, GateFollows
    <3> QED BY <3>1, <3>2
  <2>2. CASE ~PublishState
    <3>1. modeKey' = modeKey
      BY <2>2 DEF LoopNext, EquityPoll, PositionPoll, Restart, ClockTick, loopVars
    <3> QED BY <3>1
  <2> QED BY <2>1, <2>2
<1> QED BY <1>1, LoopInductive, PTL DEF LoopSpec, GateStaysClosed
=============================================================================
