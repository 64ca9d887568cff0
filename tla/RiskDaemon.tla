------------------------------ MODULE RiskDaemon ------------------------------
(***************************************************************************)
(* The risk engine of internal/risk/daemon.go: a mode that drawdown, error *)
(* rate and unhedged exposure escalate, and that only SetMode lowers.      *)
(* Every public method holds the mutex throughout, so a method is a step.  *)
(*                                                                         *)
(* Percentages are integers in thousandths, as in ChallengeRules.  A Unix  *)
(* time is never zero, which the code relies on, so the clock starts at 1. *)
(***************************************************************************)
EXTENDS Integers, FiniteSets, Functions, Sequences

CONSTANTS
  SafeModeDrawdown, MaxDrawdown,     \* of the peak equity
  DailySoftHalt, DailyHardHalt,      \* of the day's peak equity
  MaxErrorRate,                      \* of the fills in the error window
  ErrorWindow,                       \* ticks in five minutes
  LegMismatchClose,                  \* ticks a book may stay unhedged
  DayLength,                         \* ticks in a UTC day
  Equities,                          \* readings the account poll may give
  Books,                             \* position snapshots: <<[side, size]>>
  MaxTime,                           \* bound: last tick explored
  MaxReadings,                       \* bound: different readings explored
  MaxFills                           \* bound: fills explored

Whole == 1000

\* What Config.validate accepts.
ASSUME RiskConfigAssumption ==
  /\ SafeModeDrawdown \in Nat \ {0} /\ MaxDrawdown \in 1..Whole
  /\ SafeModeDrawdown < MaxDrawdown
  /\ DailySoftHalt \in Nat \ {0} /\ DailyHardHalt \in Nat
  /\ DailySoftHalt < DailyHardHalt
  /\ MaxErrorRate \in 1..Whole
  /\ ErrorWindow \in Nat /\ LegMismatchClose \in Nat
  /\ DayLength \in Nat \ {0}
  /\ Equities \subseteq Int
  /\ MaxTime \in Nat /\ MaxReadings \in Nat /\ MaxFills \in Nat

(* Modes, in increasing severity.                                          *)
Running == 0
Paused  == 1
Safe    == 2
Flatten == 3
Halted  == 4
Modes   == Running..Halted

VARIABLES
  now,              \* wall clock, in ticks
  today,            \* UTC date of the wall clock
  mode,
  peakEquity,       \* zero until a positive reading
  currentEquity,
  dailyPeakEquity,
  lastDailyReset,
  fillEvents,       \* fills not yet pruned: [at, n, error]; errorEvents are
                    \* those with the flag, pruned by the same rule
  unhedgedSince     \* 0: no unhedged exposure

(* History, read by no action: what the daemon has been told.              *)
VARIABLES
  setMode,          \* mode at start, or last set
  worst,            \* gravest mode demanded since
  readings,         \* every equity reading: [day, equity]
  fills,            \* every fill
  unhedgedRun       \* times of the snapshots since the last hedged one

clockVars  == <<now, today>>
equityVars == <<peakEquity, currentEquity, dailyPeakEquity, lastDailyReset, readings>>
fillVars   == <<fillEvents, fills>>
bookVars   == <<unhedgedSince, unhedgedRun>>
modeVars   == <<mode, setMode, worst>>
vars == <<clockVars, equityVars, fillVars, bookVars, modeVars>>

Fill == [at : Nat, n : Nat, error : BOOLEAN]

TypeOK ==
  /\ now \in Nat \ {0} /\ today \in Nat
  /\ mode \in Modes /\ setMode \in Modes /\ worst \in Modes
  /\ peakEquity \in Nat /\ currentEquity \in Int /\ dailyPeakEquity \in Int
  /\ lastDailyReset \in 0..today
  /\ readings \subseteq [day : Nat, equity : Int]
  /\ fillEvents \subseteq Fill /\ fills \subseteq Fill
  /\ IsFiniteSet(fills)
  /\ unhedgedSince \in 0..now
  /\ unhedgedRun \subseteq 1..now

Init ==
  /\ now = 1 /\ today = 0
  /\ mode = Running /\ setMode = Running /\ worst = Running
  /\ peakEquity = 0 /\ currentEquity = 0 /\ dailyPeakEquity = 0
  /\ lastDailyReset = 0 /\ readings = {}
  /\ fillEvents = {} /\ fills = {}
  /\ unhedgedSince = 0 /\ unhedgedRun = {}

-----------------------------------------------------------------------------
(* Evaluation.                                                             *)

Higher(a, b) == IF a > b THEN a ELSE b

\* Mutant: the last demand wins, whatever it is.
EscalateToLast(current, target) == IF target = Running THEN current ELSE target

\* Only a graver mode replaces the current one.
EscalateTo(current, target) == Higher(current, target)

\* The drawdown from peak is at least limit.  A peak or an equity that is
\* not positive is not evaluated.
DrawdownAtLeast(peak, equity, limit) ==
  peak > 0 /\ equity > 0 /\ (peak - equity) * Whole >= limit * peak

OverallDemand(peak, equity) ==
  IF DrawdownAtLeast(peak, equity, MaxDrawdown)           THEN Halted
  ELSE IF DrawdownAtLeast(peak, equity, SafeModeDrawdown) THEN Safe
  ELSE Running

DailyDemand(dailyPeak, equity) ==
  IF DrawdownAtLeast(dailyPeak, equity, DailyHardHalt)      THEN Halted
  ELSE IF DrawdownAtLeast(dailyPeak, equity, DailySoftHalt) THEN Flatten
  ELSE Running

\* Mutant: an event as old as the window is pruned.
PrunedAtCutoff(events) == {e \in events : e.at > now - ErrorWindow}

PruneOlderThan(events) == {e \in events : e.at >= now - ErrorWindow}

\* The share of errors among the events exceeds the limit.
ErrorRateExceeded(events) ==
  Cardinality({e \in events : e.error}) * Whole
    > MaxErrorRate * Cardinality(events)

ErrorDemand(events) == IF ErrorRateExceeded(events) THEN Paused ELSE Running

\* evaluate: the mode after the three checks, in the order the code makes
\* them.  It prunes the events it is given.
Evaluated(current, events, peak, dailyPeak, equity) ==
  EscalateTo(
    EscalateTo(
      EscalateTo(current, ErrorDemand(PruneOlderThan(events))),
      OverallDemand(peak, equity)),
    DailyDemand(dailyPeak, equity))

-----------------------------------------------------------------------------
(* What the record of readings and fills demands, without peaks, marks or  *)
(* pruning: the loss from some reading is at least a limit.                *)

LossFromAny(record, equity, limit) ==
  \E r \in record : DrawdownAtLeast(r.equity, equity, limit)

On(record, day) == {r \in record : r.day = day}

GravestOf(S) == CHOOSE m \in S : \A n \in S : n <= m

RecordDemands(m, record, day, equity, allFills) ==
  \/ m = Running
  \/ m = Paused /\ ErrorRateExceeded({f \in allFills : now - f.at <= ErrorWindow})
  \/ m = Safe /\ LossFromAny(record, equity, SafeModeDrawdown)
  \/ m = Flatten /\ LossFromAny(On(record, day), equity, DailySoftHalt)
  \/ m = Halted /\ \/ LossFromAny(record, equity, MaxDrawdown)
                   \/ LossFromAny(On(record, day), equity, DailyHardHalt)

RecordDemand(record, day, equity, allFills) ==
  GravestOf({m \in Modes : RecordDemands(m, record, day, equity, allFills)})

-----------------------------------------------------------------------------
(* Operations.                                                             *)

\* Mutant: the peak of the day outlives midnight.
DailyPeakNotReset(equity) == Higher(dailyPeakEquity, equity)

\* A new day starts from its first reading.
DailyPeakWith(equity) ==
  IF today > lastDailyReset THEN equity ELSE Higher(dailyPeakEquity, equity)

UpdateEquity(equity) ==
  LET peak  == Higher(peakEquity, equity)
      daily == DailyPeakWith(equity)
      told  == readings \cup {[day |-> today, equity |-> equity]}
  IN  /\ Cardinality(told) <= MaxReadings
      /\ currentEquity' = equity
      /\ peakEquity' = peak
      /\ dailyPeakEquity' = daily
      /\ lastDailyReset' = today
      /\ fillEvents' = PruneOlderThan(fillEvents)
      /\ mode' = Evaluated(mode, fillEvents, peak, daily, equity)
      /\ readings' = told
      /\ worst' = Higher(worst, RecordDemand(told, today, equity, fills))
      /\ UNCHANGED <<clockVars, fills, bookVars, setMode>>

RecordFill(error) ==
  LET fill == [at |-> now, n |-> Cardinality(fills), error |-> error]
  IN  /\ Cardinality(fills) < MaxFills
      /\ fillEvents' = PruneOlderThan(fillEvents \cup {fill})
      /\ mode' = Evaluated(mode, fillEvents \cup {fill},
                           peakEquity, dailyPeakEquity, currentEquity)
      /\ fills' = fills \cup {fill}
      /\ worst' = Higher(worst, RecordDemand(readings, lastDailyReset,
                                             currentEquity, fills \cup {fill}))
      /\ UNCHANGED <<clockVars, equityVars, bookVars, setMode>>

\* Tick: evaluate again without news.
Reevaluate ==
  /\ fillEvents' = PruneOlderThan(fillEvents)
  /\ mode' = Evaluated(mode, fillEvents, peakEquity, dailyPeakEquity, currentEquity)
  /\ worst' = Higher(worst, RecordDemand(readings, lastDailyReset,
                                         currentEquity, fills))
  /\ UNCHANGED <<clockVars, equityVars, fills, bookVars, setMode>>

Abs(n) == IF n < 0 THEN -n ELSE n

TotalSize(book)   == SumFunction([i \in DOMAIN book |-> book[i].size])
NetExposure(book) ==
  SumFunction([i \in DOMAIN book |->
                 IF book[i].side = "Sell" THEN -book[i].size ELSE book[i].size])

\* More than a twentieth of the book is not matched by the other side.
Unhedged(book) ==
  Abs(NetExposure(book)) * 20 > TotalSize(book) /\ TotalSize(book) > 0

\* Mutant: the timer restarts with every unhedged snapshot.
SinceLastSnapshot(book) == IF Unhedged(book) THEN now ELSE 0

\* Mutant: the end of the tolerated time is kept, not its begin.
CloseDue(book) ==
  IF ~Unhedged(book) THEN 0
  ELSE IF unhedgedSince = 0 THEN now + LegMismatchClose ELSE unhedgedSince

UnhedgedSinceWith(book) ==
  IF ~Unhedged(book) THEN 0
  ELSE IF unhedgedSince = 0 THEN now ELSE unhedgedSince

RecordPositionSnapshot(book) ==
  /\ unhedgedSince' = UnhedgedSinceWith(book)
  /\ mode' = EscalateTo(mode, IF /\ Unhedged(book)
                                 /\ now - unhedgedSince' >= LegMismatchClose
                              THEN Flatten ELSE Running)
  /\ unhedgedRun' = IF Unhedged(book) THEN unhedgedRun \cup {now} ELSE {}
  /\ worst' = Higher(worst, IF \E t \in unhedgedRun' : now - t >= LegMismatchClose
                            THEN Flatten ELSE Running)
  /\ UNCHANGED <<clockVars, equityVars, fillVars, setMode>>

SetMode(m) ==
  /\ mode' = m /\ setMode' = m /\ worst' = Running
  /\ UNCHANGED <<clockVars, equityVars, fillVars, bookVars>>

Tick ==
  /\ now < MaxTime
  /\ now' = now + 1
  /\ today' = IF now' % DayLength = 0 THEN today + 1 ELSE today
  /\ UNCHANGED <<equityVars, fillVars, bookVars, modeVars>>

Next ==
  \/ \E e \in Equities : UpdateEquity(e)
  \/ \E error \in BOOLEAN : RecordFill(error)
  \/ Reevaluate
  \/ \E b \in Books : RecordPositionSnapshot(b)
  \/ \E m \in Modes : SetMode(m)
  \/ Tick

Spec == Init /\ [][Next]_vars

-----------------------------------------------------------------------------
(* Properties.                                                             *)

\* The mode is exactly the gravest of what was last set and of what every
\* evaluation and snapshot since then demanded, judged on the full record of
\* readings, fills and snapshots: no demand is lost to a peak that was reset
\* or an event that was pruned too early, none is invented, and recovery,
\* midnight or time alone lowers nothing.
ModeIsGravestDemand == mode = Higher(setMode, worst)

\* The state that a restart or a late evaluation would judge by agrees with
\* the record: the peaks are readings and no reading they cover is higher.
PeaksAreReadings ==
  /\ \A r \in readings : r.equity <= peakEquity
  /\ peakEquity > 0 => \E r \in readings : r.equity = peakEquity
  /\ \A r \in On(readings, lastDailyReset) : r.equity <= dailyPeakEquity
  /\ dailyPeakEquity # 0 =>
       \E r \in On(readings, lastDailyReset) : r.equity = dailyPeakEquity
=============================================================================
