--------------------------- MODULE StrategySelector ---------------------------
(***************************************************************************)
(* The selector of internal/strategy/selector.go: its book of positions    *)
(* and cooldowns, the evaluation that asks for exits and entries, and the  *)
(* confirmations that change the book.                                     *)
(*                                                                         *)
(* Units: correlations in percent, funding differentials and betas in      *)
(* tenths, z-scores in tenths, deviations in bps, equity in dollars; an    *)
(* allocation is in dollars times 100, so that percentages are exact.      *)
(* Times are relative: a cooldown is what is left of it, a position has an *)
(* age.                                                                    *)
(***************************************************************************)
EXTENDS Integers, Sequences, SequencesExt

CONSTANTS
  PairList,            \* the configured pairs, in the order of evaluation
  MinCorrelation,
  MinFundingDiff, MinFundingAnnual, FundingExitThreshold,
  FundingNegativeExitCycles,
  BasisEntryZScore, BasisExitZScore, MinSpreadEdge, RoundTripCost,
  BasisHoldingMax,     \* ticks
  MaxConcurrentPositions,
  MaxAllocationPct, TotalMaxAllocationPct,
  MinNotional,         \* dollars
  Cooldown             \* ticks

Pairs == ToSet(PairList)

ASSUME SelectorAssumption ==
  /\ PairList \in Seq(Pairs) /\ Len(PairList) = Cardinality(Pairs)
  /\ {MinFundingDiff, MinFundingAnnual, FundingExitThreshold, BasisEntryZScore,
      BasisExitZScore, MinSpreadEdge, RoundTripCost, BasisHoldingMax,
      MaxAllocationPct, TotalMaxAllocationPct, MinNotional, Cooldown} \subseteq Nat
  /\ {FundingNegativeExitCycles, MaxConcurrentPositions} \subseteq Nat \ {0}

VARIABLES
  positions,   \* key -> position, for the keys in the book
  cooldowns    \* pair -> ticks left; those of other keys are never read

\* The book is keyed by two symbols.  <<p, 1>> is the pair p; <<p, 2>> is what
\* the hedge symbol of p gives when it is taken for a primary symbol.
Keys == Pairs \X {1, 2}

Strategies == {"FUNDING_CARRY", "BASIS_REVERSION"}
Regimes    == {"BULLISH", "NEUTRAL", "BEARISH", "PERSISTENT"}

Position  == [strategy : Strategies, notional : Nat, beta : Int,
              entrySpread : {-1, 0, 1}, age : 0..(BasisHoldingMax + 1),
              negativeCycles : 0..FundingNegativeExitCycles]
Condition == [corr : Int, diff : Int, regime : Regimes, z : Int, sd : Nat,
              beta : Int]
\* buys says that the primary leg is bought; amounts are not followed further.
Intent    == [pair : Pairs, strategy : Strategies, exit : BOOLEAN, buys : BOOLEAN]

SelectorTypeOK ==
  /\ DOMAIN positions \subseteq Keys
  /\ positions \in [DOMAIN positions -> Position]
  /\ cooldowns \in [Pairs -> 0..Cooldown]

SelectorInit ==
  /\ positions = << >>
  /\ cooldowns = [p \in Pairs |-> 0]

Lowest(a, b) == IF a < b THEN a ELSE b
Highest(a, b) == IF a < b THEN b ELSE a
Abs(x) == IF x < 0 THEN -x ELSE x
Sign(x) == CASE x < 0 -> -1 [] x = 0 -> 0 [] x > 0 -> 1

-----------------------------------------------------------------------------
(* Exits.                                                                  *)

Uncorrelated(c) == c.corr < MinCorrelation

LowDifferential(c) == c.diff >= 0 /\ c.diff < FundingExitThreshold

\* Mutant: the count starts again with every low reading.
CyclesRestarted(pos, c) ==
  IF pos.strategy = "FUNDING_CARRY" /\ LowDifferential(c) THEN 1 ELSE 0

\* The count of low readings after this one.  A reading that ends the position
\* at once leaves the count as it is.  Bound: it stays at the value that exits.
CyclesAfter(pos, c) ==
  IF pos.strategy # "FUNDING_CARRY" \/ Uncorrelated(c) \/ c.diff < 0
  THEN pos.negativeCycles
  ELSE IF LowDifferential(c)
       THEN Lowest(pos.negativeCycles + 1, FundingNegativeExitCycles)
       ELSE 0

FundingEnds(pos, c) ==
  \/ c.diff < 0
  \/ LowDifferential(c) /\ CyclesAfter(pos, c) >= FundingNegativeExitCycles
  \/ c.regime \in {"BEARISH", "PERSISTENT"}

Adverse(pos, c) ==
  \/ c.z < -BasisEntryZScore /\ pos.entrySpread > 0
  \/ c.z > BasisEntryZScore /\ pos.entrySpread < 0

\* Mutant: only a position seen at the very tick is timed out.
TimedOutAtTick(pos) == pos.age = BasisHoldingMax

TimedOut(pos) == pos.age > BasisHoldingMax

SpreadEnds(pos, c) ==
  \/ Abs(c.z) <= BasisExitZScore
  \/ Adverse(pos, c)
  \/ TimedOut(pos)

ShouldExit(pos, c) ==
  \/ Uncorrelated(c)
  \/ pos.strategy = "FUNDING_CARRY" /\ FundingEnds(pos, c)
  \/ pos.strategy = "BASIS_REVERSION" /\ SpreadEnds(pos, c)

\* The pairs whose positions an evaluation under conds asks to exit.  A key
\* that is not a configured pair has no condition.
ExitsOf(conds) ==
  {p \in Pairs : <<p, 1>> \in DOMAIN positions
                 /\ ShouldExit(positions[<<p, 1>>], conds[p])}

\* The primary is always bought back.
ExitIntent(p) ==
  [pair |-> p, strategy |-> positions[<<p, 1>>].strategy, exit |-> TRUE,
   buys |-> TRUE]

-----------------------------------------------------------------------------
(* Entries.                                                                *)

\* Primary and hedge leg of every position, in dollars times 100.
Allocated ==
  SumFunction([k \in DOMAIN positions |->
    LET pos == positions[k]
    IN  100 * (pos.notional + (10 * pos.notional) \div Highest(pos.beta, 1))])

\* tenths of bps, 1095 funding periods a year: percent of the year.
PaysFunding(c) ==
  /\ c.diff > 0 /\ c.diff >= MinFundingDiff
  /\ c.diff * 1095 >= MinFundingAnnual * 1000
  /\ c.regime \in {"BULLISH", "NEUTRAL"}

SpreadPays(c) ==
  /\ Abs(c.z) >= BasisEntryZScore
  /\ Abs(c.z) * c.sd - 10 * RoundTripCost >= 10 * MinSpreadEdge

AllocationPct(c) ==
  Lowest(MaxAllocationPct,
         CASE ~PaysFunding(c)  -> 20
           [] PaysFunding(c) /\ c.diff >= 300 -> 30
           [] PaysFunding(c) /\ c.diff >= 100 /\ c.diff < 300 -> 20
           [] OTHER -> 15)

\* Mutant: what is already allocated does not limit the next entry.
GrantWhole(c, equity, allocated) == AllocationPct(c) * equity

Grant(c, equity, allocated) ==
  Lowest(AllocationPct(c) * equity, TotalMaxAllocationPct * equity - allocated)

EntryIntent(p, c) ==
  [pair |-> p,
   strategy |-> IF PaysFunding(c) THEN "FUNDING_CARRY" ELSE "BASIS_REVERSION",
   exit |-> FALSE, buys |-> ~PaysFunding(c) /\ c.z < 0]

\* Mutant: the book is not looked at.
NeverOpen(p) == FALSE

Open(p) == <<p, 1>> \in DOMAIN positions

MayEnter(p, c, equity, allocated) ==
  /\ ~Open(p)
  /\ cooldowns[p] = 0
  /\ Cardinality(DOMAIN positions) < MaxConcurrentPositions
  /\ equity > 0 /\ allocated < TotalMaxAllocationPct * equity
  /\ ~Uncorrelated(c)
  /\ PaysFunding(c) \/ SpreadPays(c)
  /\ Grant(c, equity, allocated) >= 100 * MinNotional

\* The entries of an evaluation, and what is allocated after them.
EntriesOf(conds, equity) ==
  LET after[n \in 0..Len(PairList)] ==
        IF n = 0 THEN [allocated |-> Allocated, intents |-> << >>]
        ELSE LET before == after[n - 1]
                 p == PairList[n]
             IN  IF MayEnter(p, conds[p], equity, before.allocated)
                 THEN [allocated |-> before.allocated
                                     + Grant(conds[p], equity, before.allocated),
                       intents |-> Append(before.intents, EntryIntent(p, conds[p]))]
                 ELSE before
  IN  after[Len(PairList)]

\* The book keeps its positions until they are confirmed closed.
CountCycles(conds) ==
  positions' = [k \in DOMAIN positions |->
                  IF k[2] = 1
                  THEN [positions[k] EXCEPT !.negativeCycles =
                          CyclesAfter(positions[k], conds[k[1]])]
                  ELSE positions[k]]

-----------------------------------------------------------------------------
(* Confirmations, and the passage of time.                                 *)

\* The selector as a value, for the confirmations of one batch in a row.
Selector == [positions |-> positions, cooldowns |-> cooldowns]

CooldownStarted(s, k) ==
  IF k[2] = 1 THEN [s.cooldowns EXCEPT ![k[1]] = Cooldown] ELSE s.cooldowns

\* What is read again: of a spread position its entry spread and age, and of a
\* key that is not a configured pair only that it is there and its notional.
IsSpread(k, strategy) == k[2] = 1 /\ strategy = "BASIS_REVERSION"

ConfirmEntry(s, k, strategy, notional, c) ==
  [positions |-> [j \in DOMAIN s.positions \cup {k} |->
     IF j = k
     THEN [strategy |-> strategy, notional |-> notional, beta |-> c.beta,
           entrySpread |-> IF IsSpread(k, strategy) THEN Sign(c.z) ELSE 0,
           age |-> 0, negativeCycles |-> 0]
     ELSE s.positions[j]],
   cooldowns |-> CooldownStarted(s, k)]

\* Mutant: a closed pair may be entered again at once.
ConfirmExitNoCooldown(s, k) ==
  [positions |-> [j \in DOMAIN s.positions \ {k} |-> s.positions[j]],
   cooldowns |-> s.cooldowns]

ConfirmExit(s, k) ==
  [positions |-> [j \in DOMAIN s.positions \ {k} |-> s.positions[j]],
   cooldowns |-> CooldownStarted(s, k)]

\* Bound: a position that is timed out grows no older.
Elapse ==
  /\ positions' = [k \in DOMAIN positions |->
       IF IsSpread(k, positions[k].strategy)
       THEN [positions[k] EXCEPT !.age = Lowest(@ + 1, BasisHoldingMax + 1)]
       ELSE positions[k]]
  /\ cooldowns' = [p \in Pairs |-> Highest(cooldowns[p] - 1, 0)]
=============================================================================
