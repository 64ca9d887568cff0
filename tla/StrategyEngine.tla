---------------------------- MODULE StrategyEngine ----------------------------
(***************************************************************************)
(* The process of cmd/strategy-engine/main.go around the selector: the     *)
(* evaluation ticker, the intents it publishes, and the execution stream   *)
(* it takes its confirmations from.  Approvers, router and executor are    *)
(* one pipeline that handles the intents in order; the account is what the *)
(* exchange holds.                                                         *)
(*                                                                         *)
(* What can go wrong is chosen at the start:                               *)
(*   "late"    an evaluation may come before the answers to the last one   *)
(*   "fails"   an intent may be refused, or executed in part or not at all *)
(*   "restart" the process may be restarted                                *)
(***************************************************************************)
EXTENDS StrategySelector

CONSTANTS
  Conditions,   \* conditions of a pair that are explored
  Equities,     \* readings of equity:current, or its default
  FillPrice,    \* average price of the two legs, taken for the notional
  HedgeRegimes, \* regimes of hedge symbols that are explored
  Worlds,       \* sets of faults that are explored
  MaxLots,      \* bound: lots of a pair that are told apart
  MaxInFlight,  \* bound: intents the pipeline holds
  MaxEvents     \* bound: messages waiting on the execution stream

ASSUME EngineAssumption ==
  /\ Conditions \subseteq Condition
  /\ Equities \subseteq Nat /\ FillPrice \in Nat /\ MaxLots \in Nat \ {0}
  /\ Worlds \subseteq SUBSET {"late", "fails", "restart"}
  /\ HedgeRegimes \subseteq Regimes
  /\ {MaxInFlight, MaxEvents} \subseteq Nat
  /\ MaxInFlight >= Cardinality(Pairs) /\ MaxEvents >= 3

VARIABLES
  faults,
  intents,     \* published and not handled yet, oldest first
  events,      \* the execution stream, from where the process has read it
  account,     \* pair -> lots of the primary leg on the exchange, signed
  sinceTrade,  \* history: pair -> ticks since an order of it was last sent
  quietLow     \* history: pair -> low readings in a row without an exit

engineVars == <<positions, cooldowns, faults, intents, events, account,
                sinceTrade, quietLow>>

Message == [key : Keys, strategy : Strategies, exit : BOOLEAN, price : Nat]

EngineTypeOK ==
  /\ SelectorTypeOK
  /\ faults \in Worlds
  /\ intents \in Seq(Intent) /\ Len(intents) <= MaxInFlight
  /\ events \in Seq(Message) /\ Len(events) <= MaxEvents
  /\ account \in [Pairs -> -(MaxLots + 1)..(MaxLots + 1)]
  /\ sinceTrade \in [Pairs -> 0..Cooldown]
  /\ quietLow \in [Pairs -> 0..FundingNegativeExitCycles]

EngineInit ==
  /\ SelectorInit
  /\ faults \in Worlds
  /\ intents = << >> /\ events = << >>
  /\ account = [p \in Pairs |-> 0]
  /\ sinceTrade = [p \in Pairs |-> Cooldown]
  /\ quietLow = [p \in Pairs |-> 0]

-----------------------------------------------------------------------------
(* The evaluation ticker.                                                  *)

\* Percent of the equity that the regime of one symbol leaves.
ScaleOf(regime) ==
  CASE regime = "BULLISH" -> 100 [] regime = "NEUTRAL" -> 75
    [] regime = "BEARISH" -> 25  [] regime = "PERSISTENT" -> 0

\* The lowest scale over the pairs and, one of any regime, their hedges.
ScaleUnder(conds, hedgeRegime) ==
  Min({ScaleOf(conds[p].regime) : p \in Pairs} \cup {ScaleOf(hedgeRegime)})

\* No evaluation is ahead of the answers, and no answer is forgotten.
InTime == faults \subseteq {"fails"}

Drained == intents = << >> /\ events = << >>

MayEvaluate == "late" \in faults \/ Drained

\* Exits are published before entries, in any order among themselves.
Evaluate(conds, equity) ==
  LET exits   == ExitsOf(conds)
      entries == EntriesOf(conds, equity)
  IN  /\ \E s \in SetToSeqs(exits) :
           intents' = intents \o [n \in DOMAIN s |-> ExitIntent(s[n])]
                              \o entries.intents
      /\ Len(intents') <= MaxInFlight
      /\ CountCycles(conds)
      /\ quietLow' = [p \in Pairs |->
           IF /\ <<p, 1>> \in DOMAIN positions /\ p \notin exits
              /\ positions[<<p, 1>>].strategy = "FUNDING_CARRY"
              /\ LowDifferential(conds[p])
           THEN quietLow[p] + 1 ELSE 0]

EvaluationTicker ==
  /\ MayEvaluate
  /\ UNCHANGED <<cooldowns, faults, events, account, sinceTrade>>
  /\ \E conds \in [Pairs -> Conditions], reading \in Equities,
        hedgeRegime \in HedgeRegimes :
       Evaluate(conds, (reading * ScaleUnder(conds, hedgeRegime)) \div 100)

-----------------------------------------------------------------------------
(* The pipeline.                                                           *)

\* Every event of an execution has the fields that the process looks for in
\* a summary; a leg's event has the leg's symbol and no price.
LegMessage(i, l) ==
  [key |-> <<i.pair, l>>, strategy |-> i.strategy, exit |-> i.exit, price |-> 0]
Summary(i, price) ==
  [key |-> <<i.pair, 1>>, strategy |-> i.strategy, exit |-> i.exit,
   price |-> price]

\* Bound: the account is not followed beyond MaxLots, nor with faults, where
\* no property speaks of it.
AccountAfter(lots, buys) ==
  IF Abs(lots) > MaxLots \/ faults # {} THEN lots
  ELSE IF buys THEN lots + 1 ELSE lots - 1

Handle(messages) ==
  /\ intents # << >>
  /\ intents' = Tail(intents)
  /\ events' = events \o messages
  /\ Len(events') <= MaxEvents
  /\ sinceTrade' = [sinceTrade EXCEPT ![Head(intents).pair] =
                      IF messages = << >> \/ ~InTime THEN @ ELSE 0]
  /\ UNCHANGED <<positions, cooldowns, faults, quietLow>>

\* Both legs are filled.
ExecuteWhole ==
  LET i == Head(intents)
  IN  /\ intents # << >>
      /\ Handle(<<LegMessage(i, 1), LegMessage(i, 2), Summary(i, FillPrice)>>)
      /\ account' = [account EXCEPT ![i.pair] = AccountAfter(@, i.buys)]

\* The first leg is filled and unwound, the second having failed or never been
\* sent.  There is a summary without prices.
ExecuteFirstLeg ==
  LET i == Head(intents)
  IN  /\ "fails" \in faults /\ intents # << >>
      /\ \/ Handle(<<LegMessage(i, 1), LegMessage(i, 2), Summary(i, 0)>>)
         \/ Handle(<<LegMessage(i, 1), Summary(i, 0)>>)
      /\ UNCHANGED account

\* No order of the first leg is filled.
ExecuteNothing ==
  /\ "fails" \in faults /\ intents # << >>
  /\ Handle(<<LegMessage(Head(intents), 1)>>)
  /\ UNCHANGED account

\* Refused by an approver, skipped at a gate of the router, or expired.
Refuse ==
  /\ "fails" \in faults
  /\ Handle(<< >>)
  /\ UNCHANGED account

-----------------------------------------------------------------------------
(* The execution stream, time and restarts.                                *)

Confirm(s, m, c) ==
  IF m.exit THEN ConfirmExit(s, m.key)
  ELSE ConfirmEntry(s, m.key, m.strategy, m.price, c)

\* The selector after a batch of messages, in their order.
ConfirmAll(messages, c) ==
  LET after[n \in 0..Len(messages)] ==
        IF n = 0 THEN Selector ELSE Confirm(after[n - 1], messages[n], c)
  IN  after[Len(messages)]

\* The z-score and beta of a confirmed entry are those of its confirmation.
ReadEvents ==
  /\ events # << >>
  /\ events' = << >>
  /\ \E c \in Conditions :
       /\ positions' = ConfirmAll(events, c).positions
       /\ cooldowns' = ConfirmAll(events, c).cooldowns
  /\ quietLow' = [p \in Pairs |->
       IF \E n \in DOMAIN events : events[n].key = <<p, 1>> THEN 0 ELSE quietLow[p]]
  /\ UNCHANGED <<faults, intents, account, sinceTrade>>

Tick ==
  /\ MayEvaluate
  /\ Elapse
  /\ sinceTrade' = [p \in Pairs |-> Lowest(sinceTrade[p] + 1, Cooldown)]
  /\ UNCHANGED <<faults, intents, events, account, quietLow>>

\* The book is only in memory.  The batch being handled may be lost.
RestartEngine ==
  /\ "restart" \in faults
  /\ positions' = << >> /\ cooldowns' = [p \in Pairs |-> 0]
  /\ quietLow' = [p \in Pairs |-> 0]
  /\ \/ UNCHANGED events
     \/ events' = << >>
  /\ UNCHANGED <<faults, intents, account, sinceTrade>>

EngineNext ==
  \/ EvaluationTicker
  \/ ExecuteWhole \/ ExecuteFirstLeg \/ ExecuteNothing \/ Refuse
  \/ ReadEvents \/ Tick \/ RestartEngine

EngineSpec == EngineInit /\ [][EngineNext]_engineVars

Undisturbed(action) == faults = {} /\ action

\* The evaluation and execution tickers of the process, and the pipeline, whose
\* router polls as well and carries out what the gates let pass.  Nothing is
\* assumed to go on when something may go wrong.
EngineFairSpec ==
  /\ EngineSpec
  /\ WF_engineVars(Undisturbed(EvaluationTicker))
  /\ WF_engineVars(Undisturbed(ExecuteWhole))
  /\ WF_engineVars(Undisturbed(ReadEvents))
  /\ WF_engineVars(Undisturbed(Tick))

-----------------------------------------------------------------------------
(* Properties.                                                             *)

\* While every answer is in before the next evaluation and every intent is
\* executed whole, the book is the account: once all is handled, a pair is
\* booked exactly while one lot of it is sold, never two.  A pair whose primary
\* was bought is left out: see ExitReversesEntry.
InStep ==
  faults = {} /\ Drained =>
    \A p \in Pairs : account[p] <= 0 => account[p] = IF Open(p) THEN -1 ELSE 0

\* No order of an entry is sent until the cooldown has passed since the last
\* order of the pair, even if that was refused or unwound: the answers carry
\* the cooldown.  An evaluation ahead of the answers, or a restart, breaks it.
EntriesSpaced ==
  [][\A p \in Pairs :
       /\ InTime /\ intents # << >> /\ intents' = Tail(intents)
       /\ Head(intents).pair = p /\ ~Head(intents).exit
       /\ Len(events') > Len(events)
       => sinceTrade[p] >= Cooldown]_engineVars

\* Whatever the process may see once nothing is in flight, an evaluation that
\* asks for any entry leaves the book, with both legs, and the primary legs of
\* all it asks for within the cap.  Ahead of the answers it does not know what
\* it has already asked for.
EntriesWithinAllocation ==
  Drained => \A conds \in [Pairs -> Conditions], equity \in Equities :
    LET entries == EntriesOf(conds, equity)
    IN  entries.intents # << >> =>
          entries.allocated <= TotalMaxAllocationPct * equity

\* Among so many low differentials in a row that are seen for a funding
\* position, at least one asks for its exit, whatever else is seen with them.
LowDifferentialAsksExit ==
  \A p \in Pairs : quietLow[p] < FundingNegativeExitCycles

\* A spread position ends, if only by its age, when the pipeline answers
\* whole and in time.
SpreadPositionsEnd ==
  [](faults = {}) =>
    \A p \in Pairs :
      (Open(p) /\ positions[<<p, 1>>].strategy = "BASIS_REVERSION")
        ~> ~Open(p)

\* "Reverse of entry" (selector.go, comment in buildExitIntent): after an exit
\* that was executed whole nothing of the pair is left on the account.
ExitReversesEntry ==
  faults = {} /\ Drained =>
    \A p \in Pairs : ~Open(p) => account[p] = 0
=============================================================================
