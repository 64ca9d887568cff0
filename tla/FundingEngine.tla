---------------------------- MODULE FundingEngine ----------------------------
(***************************************************************************)
(* The funding engine and its process (internal/funding, cmd/funding-      *)
(* engine): short the perpetual with the higher funding rate, long the     *)
(* other, while a regime detector scales the entries.  Rates are in tenths *)
(* of a basis point.  The process never calls UpdateBeta: both legs have   *)
(* the notional of the primary one.                                        *)
(***************************************************************************)
EXTENDS Integers, Sequences, SequencesExt, FiniteSets

CONSTANTS
  CarryPairs,            \* cfg.Pairs: a sequence of [primary, hedge]
  Symbols,
  Rates, NoRate,         \* bound: rates that are quoted; no quote yet
  MinAnnualYield,        \* MinAnnualYieldPct, in thousandths of a percent
  ExitThresholdDiff, NegativeExitCycles,
  MaxAllocation,         \* MaxAllocationPct
  AllocationByDiff,      \* tiers [min, max, pct]
  MinNotional,           \* less is not traded (10 USD)
  CarryCooldown,         \* CooldownS, in evaluations
  LookbackPeriods, NegativeThreshold, ReducePosition, ExitAllOnPersistent,
  PersistentPeriods

ASSUME FundingAssumption ==
  /\ CarryPairs \in Seq([primary : Symbols, hedge : Symbols])
  /\ Rates \subseteq Int /\ NoRate \notin Rates
  /\ ExitThresholdDiff \in Nat /\ NegativeExitCycles \in Nat \ {0}
  /\ MaxAllocation \in Nat /\ ReducePosition \in Nat
  /\ AllocationByDiff \in Seq([min : Int, max : Int, pct : Nat])
  /\ CarryCooldown \in Nat /\ MinNotional \in Nat \ {0}
  /\ LookbackPeriods \in Nat /\ PersistentPeriods \in Nat

PairSet     == ToSet(CarryPairs)
SymbolsOf(p) == {p.primary, p.hedge}
NoPosition  == << >>

VARIABLES
  quotes,        \* symbol -> latest funding rate
  samples,       \* symbol -> signs of the recorded rates, oldest first
  carry,         \* pair -> NoPosition or <<[notional, cycles]>>
  carryCooling   \* pair -> evaluations until its cooldown is over

fundingVars == <<quotes, samples, carry, carryCooling>>

FundingTypeOK ==
  /\ quotes \in [Symbols -> Rates \cup {NoRate}]
  /\ \A s \in Symbols : samples[s] \in Seq({-1, 1}) /\ Len(samples[s]) <= LookbackPeriods
  /\ \A p \in PairSet : carry[p] # NoPosition => carry[p][1].notional >= MinNotional
                                                 /\ carry[p][1].cycles \in Nat
  /\ carryCooling \in [PairSet -> 0..CarryCooldown]

FundingInit ==
  /\ quotes = [s \in Symbols |-> NoRate]
  /\ samples = [s \in Symbols |-> << >>]
  /\ carry = [p \in PairSet |-> NoPosition]
  /\ carryCooling = [p \in PairSet |-> 0]

-----------------------------------------------------------------------------
(* The regime of a symbol, from the signs of its recorded rates.           *)

LastOf(q, n) == IF Len(q) > n THEN SubSeq(q, Len(q) - n + 1, Len(q)) ELSE q

\* RecordRate; the process leaves out rates of zero.
Recorded(q, rate) ==
  IF rate \in {NoRate, 0} THEN q ELSE LastOf(Append(q, IF rate < 0 THEN -1 ELSE 1), LookbackPeriods)

AllNegative(q) == \A n \in DOMAIN q : q[n] = -1
Negatives(q)   == Cardinality({n \in DOMAIN q : q[n] = -1})

DetectRegime(q) ==
  CASE Len(q) < 3 -> "NEUTRAL"
    [] AllNegative(LastOf(q, PersistentPeriods)) /\ Len(q) >= PersistentPeriods -> "PERSISTENT"
    [] Negatives(q) * 100 >= NegativeThreshold * Len(q) -> "BEARISH"
    [] (Len(q) - Negatives(q)) * 100 >= NegativeThreshold * Len(q) -> "BULLISH"
    [] OTHER -> "NEUTRAL"

PositionScale(q) ==
  CASE DetectRegime(q) = "BULLISH" -> 100
    [] DetectRegime(q) = "NEUTRAL" -> 75
    [] DetectRegime(q) = "PERSISTENT" /\ ExitAllOnPersistent -> 0
    [] OTHER -> ReducePosition

ShouldExitAll(q) == DetectRegime(q) = "PERSISTENT" /\ ExitAllOnPersistent

-----------------------------------------------------------------------------
(* Entries and exits, from quotes q and samples t.                         *)

Quoted(q, p) == \A s \in SymbolsOf(p) : q[s] # NoRate
Diff(q, p)   == q[p.primary] - q[p.hedge]

AllocationPctForDiff(diff) ==
  LET fits == {n \in DOMAIN AllocationByDiff :
                 AllocationByDiff[n].min <= diff /\ diff < AllocationByDiff[n].max}
  IN  CASE fits # {} -> AllocationByDiff[CHOOSE n \in fits : \A m \in fits : n <= m].pct
        [] fits = {} /\ AllocationByDiff # << >> /\ diff >= AllocationByDiff[1].min
             -> AllocationByDiff[1].pct
        [] OTHER -> 20

WorstScale(t) ==
  LET scales == {100} \cup {PositionScale(t[s]) : s \in UNION {SymbolsOf(p) : p \in PairSet}}
  IN  CHOOSE x \in scales : \A y \in scales : x <= y

EntryNotional(q, t, p, equity) ==
  LET pct == AllocationPctForDiff(Diff(q, p))
  IN  (equity * WorstScale(t) * (IF pct > MaxAllocation THEN MaxAllocation ELSE pct))
        \div 10000

\* 1095 funding periods a year.
Enters(q, t, p, equity) ==
  /\ carry[p] = NoPosition /\ carryCooling[p] = 0
  /\ Quoted(q, p) /\ Diff(q, p) > 0
  /\ Diff(q, p) * 1095 >= MinAnnualYield
  /\ EntryNotional(q, t, p, equity) >= MinNotional

\* The symbols whose regime forces a call of EvaluateExits, in the order of
\* the configuration; a last call closes the evaluation.
Forced(t) ==
  LET of(s) == IF ShouldExitAll(t[s]) THEN <<s>> ELSE << >>
  IN  FlattenSeq([n \in DOMAIN CarryPairs |-> of(CarryPairs[n].primary) \o of(CarryPairs[n].hedge)])
Calls(t) == Len(Forced(t)) + 1

Reversed(q, p) == Quoted(q, p) /\ Diff(q, p) < 0
IsLow(q, p)    == Quoted(q, p) /\ Diff(q, p) \in 0..ExitThresholdDiff - 1

\* Above NegativeExitCycles every count asks for the exit.
UpTo(cycles) == IF cycles > NegativeExitCycles THEN NegativeExitCycles ELSE cycles

\* Mutant: a low reading that does not reverse the differential starts the
\* count again.
OnlyReversedCounts(q, p, cycles, calls) ==
  IF Reversed(q, p) THEN UpTo(cycles + calls) ELSE 0

\* NegativeCycles after some calls of EvaluateExits, each of which counts.
CyclesAfter(q, p, cycles, calls) ==
  CASE ~Quoted(q, p) \/ Reversed(q, p) -> cycles
    [] IsLow(q, p) -> UpTo(cycles + calls)
    [] OTHER -> 0

\* The call asks to close the pair.
ExitAt(q, p, call) ==
  /\ carry[p] # NoPosition
  /\ \/ Reversed(q, p)
     \/ IsLow(q, p) /\ CyclesAfter(q, p, carry[p][1].cycles, call) >= NegativeExitCycles

\* A forced call publishes only the exits of pairs with its symbol.
ExitPublished(q, t, p, call) ==
  ExitAt(q, p, call) /\ (call < Calls(t) => Forced(t)[call] \in SymbolsOf(p))

\* Any call starts the cooldown, published or not.
Exiting(q, t, p) == \E n \in 1..Calls(t) : ExitAt(q, p, n)

-----------------------------------------------------------------------------
(* The operations.                                                         *)

QuotesWith(read) == [s \in Symbols |-> IF read[s] = NoRate THEN quotes[s] ELSE read[s]]
SamplesWith(read) == [s \in Symbols |-> Recorded(samples[s], read[s])]

\* One tick of evalTicker with the quotes it has read: forced exits, entries
\* with the scaled equity, exits.
FundingEvaluation(read) ==
  /\ quotes' = QuotesWith(read)
  /\ samples' = SamplesWith(read)
  /\ carry' = [p \in PairSet |->
       IF carry[p] = NoPosition THEN NoPosition
       ELSE << [carry[p][1] EXCEPT
                  !.cycles = CyclesAfter(quotes', p, @, Calls(samples'))] >>]
  /\ carryCooling' = [p \in PairSet |->
       IF Exiting(quotes', samples', p) THEN CarryCooldown ELSE carryCooling[p]]

ConfirmEntry(p, notional) ==
  /\ carry' = [carry EXCEPT ![p] = << [notional |-> notional, cycles |-> 0] >>]
  /\ carryCooling' = [carryCooling EXCEPT ![p] = CarryCooldown]
  /\ UNCHANGED <<quotes, samples>>

ConfirmExit(p) ==
  /\ carry' = [carry EXCEPT ![p] = NoPosition]
  /\ UNCHANGED <<quotes, samples, carryCooling>>
=============================================================================
