---------------------------- MODULE CarryTrading ----------------------------
(***************************************************************************)
(* The funding engine, the arbitrage engine and the capital allocator, as  *)
(* their processes wire them: what an engine publishes on trade:intents    *)
(* the allocator reserves capital for and passes on.                       *)
(*                                                                         *)
(* No process calls ConfirmEntry and ConfirmExit of the engines, nor       *)
(* ReleaseNotional and UpdateEquity of the allocator.  An instance is      *)
(* either deployed, without these calls, or attended: its owner makes them *)
(* as their comments ask, when an order is filled, when a position is      *)
(* closed and when there is a reading.                                     *)
(***************************************************************************)
EXTENDS CapitalAllocator, FundingEngine, ArbEngine

CONSTANTS
  Reads,       \* bound: new rates of one evaluation, symbol -> rate or NoRate
  Equities,    \* readings of equity:current, its default included
  Drifts,      \* bound: moves of a mean, in standard deviations, between an
               \* evaluation and the confirmation of its entry
  Modes        \* a subset of {"deployed", "attended"}

ASSUME TradingAssumption ==
  /\ SpreadPairs = PairSet
  /\ Reads \subseteq [Symbols -> Rates \cup {NoRate}]
  /\ Equities \subseteq Nat /\ Drifts \subseteq Int
  /\ Modes \subseteq {"deployed", "attended"}

VARIABLES
  mode,
  intents,       \* on trade:intents, not yet read by the allocator
  orders         \* passed on by it, not yet filled or refused

(* History.                                                                *)
VARIABLES
  lowRun,        \* pair -> evaluations of its position with a low differential
  bought         \* pair -> <<>> or <<whether the spread position bought>>

history     == <<lowRun, bought>>
tradingVars == <<allocatorVars, fundingVars, arbVars, mode, intents, orders, history>>

Strategies == {"funding", "funding_exit", "basis", "basis_exit"}

KindOf(strategy) ==
  CASE strategy \in {"funding_exit", "basis_exit"} -> "EXIT"
    [] strategy = "funding" -> "FUNDING"
    [] strategy = "basis" -> "BASIS"

Intent(strategy, p, notional, buys, deviation) ==
  [strategy |-> strategy, pair |-> p, notional |-> notional, buys |-> buys,
   deviation |-> deviation]

TypeOK ==
  /\ AllocatorTypeOK /\ FundingTypeOK /\ ArbTypeOK
  /\ mode \in Modes
  /\ \A i \in ToSet(intents) \cup ToSet(orders) :
       i.strategy \in Strategies /\ i.pair \in PairSet /\ i.notional \in Nat
  /\ lowRun \in [PairSet -> 0..NegativeExitCycles]

Init ==
  /\ AllocatorInit /\ FundingInit /\ ArbInit
  /\ mode \in Modes
  /\ intents = << >> /\ orders = << >>
  /\ lowRun = [p \in PairSet |-> 0]
  /\ bought = [p \in PairSet |-> << >>]

-----------------------------------------------------------------------------
(* The engines' processes.                                                 *)

\* The pipeline is done with what the last evaluations published: it polls
\* twice a second, the engines evaluate every 30 seconds.
Idle == intents = << >> /\ orders = << >>

\* In the order of publication: forced exits, entries, the other exits.
FundingIntents(q, t, equity) ==
  LET Entry(p) == IF Enters(q, t, p, equity)
                  THEN <<Intent("funding", p, EntryNotional(q, t, p, equity), FALSE, 0)>>
                  ELSE << >>
      Exit(p, call) == IF ExitPublished(q, t, p, call)
                       THEN <<Intent("funding_exit", p, carry[p][1].notional, TRUE, 0)>>
                       ELSE << >>
      Exits(call) == FlattenSeq([n \in DOMAIN CarryPairs |-> Exit(CarryPairs[n], call)])
  IN  FlattenSeq([call \in 1..Len(Forced(t)) |-> Exits(call)])
        \o FlattenSeq([n \in DOMAIN CarryPairs |-> Entry(CarryPairs[n])])
        \o Exits(Calls(t))

LowRunAfter(q, p) ==
  CASE carry[p] = NoPosition -> 0
    [] ~Quoted(q, p) \/ Reversed(q, p) -> lowRun[p]
    [] IsLow(q, p) -> UpTo(lowRun[p] + 1)
    [] OTHER -> 0

FundingTick(read, equity) ==
  /\ Idle
  /\ FundingEvaluation(read)
  /\ intents' = FundingIntents(quotes', samples', equity)
  /\ lowRun' = [p \in PairSet |-> LowRunAfter(quotes', p)]
  /\ UNCHANGED <<allocatorVars, arbVars, mode, orders, bought>>

SpreadIntents(c) ==
  LET of(p) == CASE SpreadExits(p, c[p]) ->
                      <<Intent("basis_exit", p, spread[p][1].notional, ExitBuys(p), 0)>>
                 [] SpreadEnters(p, c[p]) ->
                      <<Intent("basis", p, SpreadNotional, EntryBuys(c[p]), c[p].deviation)>>
                 [] OTHER -> << >>
  IN  FlattenSeq([n \in DOMAIN CarryPairs |-> of(CarryPairs[n])])

ArbTick(c) ==
  /\ Idle
  /\ intents' = SpreadIntents(c)
  /\ UNCHANGED <<allocatorVars, fundingVars, arbVars, mode, orders, history>>

Tick ==
  /\ Idle
  /\ carryCooling' = [p \in PairSet |-> IF carryCooling[p] = 0 THEN 0 ELSE carryCooling[p] - 1]
  /\ spreadCooling' = [p \in PairSet |-> IF spreadCooling[p] = 0 THEN 0 ELSE spreadCooling[p] - 1]
  /\ spread' = [p \in PairSet |-> Aged(p)]
  /\ UNCHANGED <<allocatorVars, quotes, samples, carry, mode, intents, orders, history>>

-----------------------------------------------------------------------------
(* The capital-allocator process, and what comes of what it passes on.     *)

Allocate ==
  /\ intents # << >>
  /\ LET i == Head(intents)
     IN  Approve(KindOf(i.strategy), i.notional) /\ orders' = Append(orders, i)
  /\ intents' = Tail(intents)
  /\ UNCHANGED <<fundingVars, arbVars, mode, history>>

Refuse ==
  /\ intents # << >>
  /\ ~Approves(KindOf(Head(intents).strategy), Head(intents).notional)
  /\ intents' = Tail(intents)
  /\ UNCHANGED <<allocatorVars, fundingVars, arbVars, mode, orders, history>>

NextOrder == orders # << >> /\ orders' = Tail(orders)

\* It is refused by the exchange, or filled where nobody attends to it.
Forgotten ==
  /\ NextOrder
  /\ UNCHANGED <<allocatorVars, fundingVars, arbVars, mode, intents, history>>

FilledFunding ==
  /\ mode = "attended" /\ NextOrder
  /\ Head(orders).strategy = "funding"
  /\ ConfirmEntry(Head(orders).pair, Head(orders).notional)
  /\ lowRun' = [lowRun EXCEPT ![Head(orders).pair] = 0]
  /\ UNCHANGED <<allocatorVars, arbVars, mode, intents, bought>>

FilledFundingExit ==
  /\ mode = "attended" /\ NextOrder
  /\ Head(orders).strategy = "funding_exit"
  /\ ConfirmExit(Head(orders).pair)
  /\ ReleaseNotional("FUNDING", Head(orders).notional)
  /\ UNCHANGED <<arbVars, mode, intents, history>>

FilledSpread(drift) ==
  /\ mode = "attended" /\ NextOrder
  /\ Head(orders).strategy = "basis"
  /\ ConfirmSpreadEntry(Head(orders).pair, Head(orders).notional,
                        Head(orders).deviation - drift)
  /\ bought' = [bought EXCEPT ![Head(orders).pair] = <<Head(orders).buys>>]
  /\ UNCHANGED <<allocatorVars, fundingVars, mode, intents, lowRun>>

FilledSpreadExit ==
  /\ mode = "attended" /\ NextOrder
  /\ Head(orders).strategy = "basis_exit"
  /\ ConfirmSpreadExit(Head(orders).pair)
  /\ ReleaseNotional("BASIS", Head(orders).notional)
  /\ bought' = [bought EXCEPT ![Head(orders).pair] = << >>]
  /\ UNCHANGED <<fundingVars, mode, intents, lowRun>>

Reading(r) ==
  /\ mode = "attended"
  /\ UpdateEquity(r.equity, r.drawdown)
  /\ UNCHANGED <<fundingVars, arbVars, mode, intents, orders, history>>

Next ==
  \/ \E read \in Reads, e \in Equities : FundingTick(read, e)
  \/ \E c \in [SpreadPairs -> Conditions] : ArbTick(c)
  \/ Tick
  \/ Allocate
  \/ Refuse
  \/ Forgotten
  \/ FilledFunding
  \/ FilledFundingExit
  \/ \E drift \in Drifts : FilledSpread(drift)
  \/ FilledSpreadExit
  \/ \E r \in Readings : Reading(r)

Spec == Init /\ [][Next]_tradingVars

-----------------------------------------------------------------------------
(* Properties.                                                             *)

HeldFunding ==
  SumFunction([p \in PairSet |-> IF carry[p] = NoPosition THEN 0 ELSE carry[p][1].notional])
HeldSpreads ==
  SumFunction([p \in PairSet |-> IF spread[p] = Flat THEN 0 ELSE spread[p][1].notional])
Ordered(strategy) ==
  SumFunction([n \in DOMAIN orders |->
                 IF orders[n].strategy = strategy THEN orders[n].notional ELSE 0])

\* What the allocator has reserved covers what the engines hold and what is
\* on its way to them: refused orders leave too much reserved and never too
\* little (ReleaseNotional, engine.go:136), although a regime may have the
\* same position closed, and released, several times over.  With several
\* pairs such a release takes from the reservation of another one; the
\* deployed engines have one.
ReservedCoversHeld ==
  /\ fundingNotional >= HeldFunding + Ordered("funding")
  /\ basisNotional >= HeldSpreads + Ordered("basis")

\* "Exit when: funding differential < threshold for N consecutive cycles;
\* funding differential reverses" (EvaluateExits, engine.go:213): in the very
\* evaluation that sees it, also when an earlier exit was refused or a regime
\* forced extra calls.
LowCarryAsksExit ==
  [][\A read \in Reads, e \in Equities :
       FundingTick(read, e) =>
         \A p \in PairSet :
           /\ carry[p] # NoPosition
           /\ Reversed(quotes', p) \/ (IsLow(quotes', p) /\ lowRun'[p] = NegativeExitCycles)
           => \E n \in DOMAIN intents' :
                intents'[n].strategy = "funding_exit" /\ intents'[n].pair = p]_tradingVars

\* The exit of a spread position trades against the side it was entered on
\* (evaluateExit, engine.go:285), although that side is only kept as the side
\* of a mean that has moved by the time of the confirmation.
SpreadExitReversesEntry ==
  \A n \in DOMAIN intents :
    intents[n].strategy = "basis_exit" /\ bought[intents[n].pair] # << >>
      => bought[intents[n].pair] = <<~intents[n].buys>>
=============================================================================
