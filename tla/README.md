# Verification of the trading services

TLA+ models of the Go services under `src/`, TLC runs over small instances of
them, and TLAPS proofs. The services know nothing of each other's state:
they talk through Redis streams and expiring keys, each is one process with one
`select` loop, and most of what can go wrong is an order of events, a value that
is stale when used, or a record that outlives (or does not outlive) what it
describes. That is what the models keep; prices, statistics, formatting and
logging are abstracted to what the properties can tell apart.

## 1. The system

    market-data --> market:*                     risk-daemon --> risk:mode, circuit_breaker:open,
                       |                              ^            equity:current (keys with a TTL)
    funding-engine  arb-engine  strategy-engine       |                       |
          \             |            /                |                       |
           v            v           v                 |                       v
               trade:intents  ---------------> challenge-daemon --+--> trade:approved --> execution-router
                              `--------------> capital-allocator -+                            |
                                                                      execution:events, execution:fills
                                                                      (strategies, risk-daemon, ledger)

| Component (source) | State it keeps | Operations | What makes it correct | Hard behaviour |
|---|---|---|---|---|
| Challenge daemon, `internal/challenge` | equity, daily high-water mark, date, positions with stop deadlines, trading days, profits, halt | `UpdateEquity`, `ValidateIntent`, `TrackPosition`, `Confirm*StopLoss`, `ClosePosition`, `RecordTrade`, `CheckSafetyTrade`, `Reset` | the mark is the day's peak; a breach halts until an operator resets; nothing is approved past a soft limit; trading days are counted once | the day is rolled by whichever locked call comes first after midnight; replaced positions |
| challenge-daemon process, `cmd/challenge-daemon` | the daemon, plus what it polled | select loop: poll intents, poll the equity key, safety trade | funded margin cap; safety trades only when needed | a key that expires, a restart that forgets |
| Risk daemon, `internal/risk/daemon.go` | mode, peak and daily peak, error window, unhedged timer | `UpdateEquity`, `RecordFill`, `RecordPositionSnapshot`, `SetMode`, `evaluate` | the mode is the gravest that anything demanded | several demands in one evaluation, in any order |
| Margin monitor, `internal/risk/margin.go` | last level | `UpdateMargin` | acts on a critical margin at once | overrides the mode that the daemon set |
| Circuit breaker, `internal/risk/circuitbreaker.go` | samples per symbol, trips, last quote | `RecordQuote`, `IsOpen`, `IsOpenAny`, `Reset` | rejects exactly while there is a cause | late quotes, pruning, cooldown by another clock |
| risk-daemon process, `cmd/risk-daemon` | published keys | account and position polls, state ticker | what must stop the router reaches its key | the key outlives the process |
| Event bus, `internal/eventbus` | streams, groups | `Publish`, `Read`, keys | each group is given a message once | acknowledged before it is handled |
| execution-router, `cmd/execution-router` | processed intents | gates, batch, execute | at most one execution of an intent | two approvers, gates that close within a batch, crashes |
| Capital allocator, `internal/allocator`, `cmd/capital-allocator` | notional per strategy, equity, peak | `Approve`, `ReleaseNotional`, `UpdateEquity` | allocation caps of peak equity | reservations nobody releases |
| Executor, `internal/execution` | one execution's orders | `Execute`, `pollOrderStatus`, `emergencyUnwind` | hedged, flat or an alarm | lost answers, late and partial fills, retries |
| Exchange client, `internal/exchange` | none | place, query, cancel | - | external service |
| Strategy selector and engine, `internal/strategy`, `cmd/strategy-engine` | book, cooldowns, counters | `Evaluate`, `ConfirmEntry`, `ConfirmExit` | exits reverse entries; caps; cooldown; positions end | events of refused orders, answers after the next evaluation |
| Funding engine and regimes, `internal/funding`, `cmd/funding-engine` | quotes, recorded rates, positions, low counts, cooldowns | `Evaluate`, `EvaluateExits`, `ConfirmEntry`, `ConfirmExit` | a carry that no longer pays is asked to close | a regime forces extra calls of `EvaluateExits`; nobody confirms |
| Arbitrage engine, `internal/arb`, `cmd/arb-engine` | spread positions, cooldowns | `Evaluate`, `ConfirmEntry`, `ConfirmExit` | exits reverse entries | the side is kept relative to a mean that moves |
| Scanner, `internal/scanner` | daily state, halt, alert cooldowns, open trades, saved history | `Scan`, `ComputeRiskParams`, `CheckPreTrade`, `RecordTradeOpened`, `RecordTradeResult`, `RegisterTrade`, `RecordOutcome` | daily limits by the calendar, plans within their limits, outcomes that say what happened, history kept over restarts | roll-over by whichever call comes first; no process imports it |
| Market data, `internal/marketdata`, `cmd/market-data` | connection, merged tickers, channel of quotes | `processMessage`, `pollFundingRates`, reconnect, publish | quotes show the market as it was, in order | messages name only what changed; dropped quotes, lost messages, reconnections |
| Alerting, ledger | a counter, none | webhook, inserts | - | - |

`PROJECT.json` lists every component with its status, and the hazards (what is
hard to test here) each at its line with the properties that cover it.

## 2. Modules

| Module | Models | Uses |
|---|---|---|
| `ChallengeRules` | `rules.go`, `config.go`: the pure checks and levels | - |
| `ChallengeDaemon` | `challenge/daemon.go`: one action per method, plus `Tick` for the clock | `ChallengeRules` |
| `ChallengeLoop` | `cmd/challenge-daemon`: the daemon as the process drives it, the equity key, restarts | `ChallengeDaemon` |
| `ChallengeProofs` | theorems about both | `ChallengeLoop`, `SumTheorems` |
| `RiskDaemon` | `risk/daemon.go`, `types.go` | - |
| `RiskLoop` | `cmd/risk-daemon` and `margin.go`: polls, the published key, restarts | `RiskDaemon` |
| `RiskDaemonProofs` | theorems about both | `RiskLoop` |
| `CircuitBreaker` | `risk/circuitbreaker.go` | - |
| `MarketClock` | the clock that stamps quotes and drives tickers | - |
| `MarketFeed` | `marketdata/bybit.go` and `cmd/market-data`: messages, merging, the funding poller, the channel, reconnections, restarts | `MarketClock` |
| `FeedGate` | the feed, its stream, the breaker in the risk-daemon and the key the router reads; drives `CircuitBreaker` | `MarketFeed`, `CircuitBreaker` |
| `FeedGateProofs` | theorems about the breaker and the chain | `FeedGate` |
| `AtMostOnce` | abstract: what is offered is executed at most once | - |
| `TradePipeline` | bus, both approvers, router; refines `AtMostOnce` | `AtMostOnce` |
| `Executor` | one call of `Execute` against a faulty exchange | - |
| `ExecutorProofs` | theorems about it | `Executor`, `SumTheorems` |
| `StrategySelector` | `strategy/selector.go`: judging, exits, entries, confirmations as operators on a book | - |
| `StrategyEngine` | `cmd/strategy-engine`: tickers, intents in flight, events coming back, the account they change | `StrategySelector` |
| `IntentProofs` | theorems about the two that publish and carry intents, the refinement among them | `TradePipeline`, `StrategyEngine`, `SumTheorems` |
| `CapitalAllocator` | `allocator/engine.go`: approvals, reservations, releases, readings | - |
| `FundingEngine` | `funding/engine.go`, `regime.go` and the evaluation of `cmd/funding-engine` | - |
| `ArbEngine` | `arb/engine.go` | - |
| `CarryTrading` | both engines and the allocator as their processes wire them, with and without an owner who confirms | the three above |
| `CarryTradingProofs` | theorems about the allocator and about the composition | `CarryTrading`, `SumTheorems` |
| `Guardrails` | `scanner/guardrails.go` | - |
| `PositionSizing` | `scanner/risk_manager.go`: the sizing of a trade, exact | - |
| `Scanner` | scan loop, outcome tracker, and a trader who makes the calls, over a moving market | `Guardrails`, `PositionSizing` |
| `ScannerProofs` | theorems about the three | `Scanner`, `SumTheorems` |
| `SumTheorems` | lemmas only: sums over sets and sequences, functions recursive on numbers, flattened sequences | - |
| `MC*` | constants for TLC only | the module after `MC` |

How state and actions correspond to the code:

* **ChallengeDaemon.** Variables are the fields of `Daemon`. A locked method is one action
  (the mutex makes it atomic) and starts with `ResetDailyIfNeeded` when the method calls
  `resetDailyIfNeeded`; `CheckSafetyTrade` holds only the read lock and does not roll the
  day, and the model keeps that. `dayPeak` and `breached` are history: the readings and
  breaches as they were, independent of what the daemon stored. Money is in units of 100
  USD, percentages in tenths; quotients are compared by cross-multiplication.
* **ChallengeLoop.** Adds `equityKey` (written by the risk daemon, with a TTL) and
  restarts. The process calls neither `RecordTrade`, `ConfirmStopLoss`, `ClosePosition` nor
  `Reset`; they are therefore not in `LoopNext`. Tracking and publishing run on one
  goroutine between two channel receives, hence one action.
* **RiskDaemon.** Every state-changing method ends in the evaluations the code runs. The
  history variables hold the full record of readings, fills and snapshots; `ModeIsGravestDemand`
  recomputes the mode from that record.
* **RiskLoop.** `UpdateMargin`'s levels set the mode as `main.go:157` does; `PublishState`
  is the 15-second ticker that writes `risk:mode`.
* **CircuitBreaker.** Quotes carry a stamp that may lie up to `MaxDelay` behind the clock and
  come in the order of their stamps; samples are pruned by stamps, staleness is judged by
  the clock, as in the code. `quotes` is history: `OpenExactlyWithCause` judges the symbol by
  all quotes it ever had.
* **MarketFeed / FeedGate.** The first message of a connection names every field, later ones
  those that changed; `latest` is the cache of merged tickers, which outlives connections.
  Price, bid and ask stand for the fields where zero means absent, the funding rate for the
  one where it does not. `showing` is what the exchange shows, and a quote carries it as
  history. `FeedGate` adds the stream, the batch in the memory of the risk-daemon, and
  `circuit_breaker:open`, which two tickers write with different lives. `DrivesBreaker` is a
  refinement: with the feed, the stream and the batches in front of it, the breaker sees only
  what `CircuitBreaker` allows, so what is proved there holds here.
* **TradePipeline.** A stream is a sequence, a consumer group a count of what it was given.
  `Read` acknowledges before handling, so `CrashApprover` and `CrashRouter` lose the batch in
  memory. The verdict of an approver is left open (`Approve`/`Reject`).
* **Executor.** A program counter with one step per exchange call; the exchange side is an
  external order that may be filled, partly filled, lost, refused or filled after the last poll.
* **StrategySelector / StrategyEngine.** `Evaluate` is one operator on a book and a
  condition per pair (what the statistics return is an input). An execution event carries
  the fields a fill summary is decoded from, so every event confirms an entry or an exit,
  under its own symbol; the model reads events as the process does.
* **CapitalAllocator.** Amounts are integers and percentages whole numbers; the quotients of
  `Approve` are compared by cross-multiplication. Of an equity of zero or less the code falls
  back to the initial capital, and so does `MaxCapital`.
* **FundingEngine / ArbEngine / CarryTrading.** One evaluation is one action: it drains the
  market stream, records rates, makes the forced calls of `EvaluateExits`, scales the equity,
  publishes entries, then exits, in that order. The processes never call `Confirm*`,
  `ReleaseNotional` or `UpdateEquity`; the "deployed" mode keeps it so, and the "attended" mode
  adds an owner who makes the calls as the comments of the methods ask. An evaluation starts
  when the pipeline is idle: engines evaluate every 30 s, the allocator polls twice a second.
  The mean of a spread may move between an evaluation and its confirmation (`Drifts`).
* **Guardrails / Scanner.** Every method is one action under its component's mutex; the
  trader's calls for one alert are separate actions, so scans, midnight, price moves, a halt or
  a restart may come between them. Detectors are a free choice of scores and strengths for each
  direction; `Qualifies`, `StructureLevel`, `Volatility` and `RiskParams` make an alert of them
  as `scoreAndBuild` does. `Tick` brings a price, candles and a balance. `historyFile` is what the
  file of the tracker parses to, `<< >>` when it does not. A save may fail (`SaveHistory`): it
  leaves the file as it was, or cut short, while memory goes on with the trade. A load may fail too
  (`LoadHistory`), and the next save then overwrites a file that was good. `outcomes`, `openedOn`,
  `results`, `unsaved` and `lost` are history: what happened, and whether the last save failed or a
  process began without all of it. The trader asks the gate for one alert at a time (section 6).
* **PositionSizing.** `ComputeRiskParams` with exact arithmetic: a quotient by the entry price is
  kept as its numerator, volatility is in thousandths, percentages in basis points. The result
  is the plan's direction, entry, distance and risk; stop and targets are functions of it.

## 3. Runs

| Run | Question | Bounds and why they suffice |
|---|---|---|
| `challenge_daemon` | Mark, halt, approvals, trading days, stop deadlines against the recorded readings, under any order of calls | two days of two ticks: a call before and after midnight, and a second roll; equities on both sides of every limit; two symbols, so a replaced and an untouched position; one closed trade |
| `challenge_loop_funded` | Margin cap and overdue positions of the deployed process | funded mode, one restart, intents that fill the cap exactly, partly and beyond |
| `risk_daemon` | Is the mode the gravest demand of the full record? | two days, two readings, two fills; readings at each limit, zero equity; books flat, hedged within tolerance and not |
| `risk_loop_gate` | Does the key close, and stay closed, when the mode says so? | one restart, margins below, between and above both levels |
| `feed_gate` | Do quotes show the market? Do they reach the breaker in order, and does it reject exactly with cause? Does silence shut the gate? | one symbol, two tickers that differ by more than the move and one of them wide in spread; three messages, so one before, one across and one after a reconnection; a channel of one, so drops; five ticks, so window, cooldown and staleness all elapse; one restart of each process |
| `trade_pipeline` | At most one execution per router life; settles once the gates stay open; a message is in one place | one intent offered by two approvers, one safety trade, batches of two (so both copies in one batch, and in two), one crash of each side |
| `executor` | Hedged, flat or alarmed; never reversed; never overfilled; returns | one retry per leg, two lots, all combinations of partial, lost, late fills and failing polls |
| `executor_neutral` (violation) | Are the legs equal when the first was filled in part and its hedge, sized to the part, whole? | partial fills only, two lots: the hedge is of one, the rest of the first order fills after it |
| `strategy_engine` | Book is the account; caps; entry spacing; low differential asks an exit; positions end | two pairs, one condition per judgement of the selector, worlds without faults, with refusals, with a restart, with late answers |
| `strategy_engine_exits` (violation) | Does an exit reverse the entry? | no fault needed |
| `capital` | Do the reservations stay within their shares and cover what is held? Is a carry that stops paying asked to close in the evaluation that sees it? Does a spread exit reverse its entry? | the deployed pair and its percentages; equities that rise, fall and vanish; rates for all four regimes, forced exits included; two low readings in a row; means that move either way |
| `scanner` | Is an alert allowed only within what was really opened and reported that day, and refused only for a cause? Does a day hold no more trades than the limit? Do plans obey their limits, outcomes say what happened, and histories and trading days survive restarts and what a failing disk leaves of them? | five ticks over two days; a rise to the target of a long trade and a fall below stops, swings near the price and volatility beyond the limit; both directions together, one alone, and scores and strengths below their thresholds; a balance that falls below the smallest position; three alerts for a limit of two; one restart and one save or load that fails, so a failed save may be repaired by the next, or lost with the process; a history shorter than the outcomes |

Properties are stated for the worlds in which the code promises them: `InStep` where
answers come in time and nothing is refused, `HedgedOrAlarmed` where the exchange answers.
Where the promise fails outside such a world the README says so in section 6.

Every property has a mutant in `PROJECT.json`: a definition of the model, changed the way
a plausible bug would change the code, under which TLC finds the property violated.

### Fairness

* `WF(Routing)`, TradePipeline: the router polls twice a second on its only goroutine, and
  `Execute` returns (shown by `Terminates`). Nothing is assumed of gates, approvers or
  crashes; the property is conditional on the gates staying open.
* `WF(Step)`, Executor: `Execute` runs on that goroutine, with timed waits and calls with
  a context deadline.
* `WF(PublishState)`, RiskLoop: a 15-second ticker.
* `WF(Consuming)`, `WF(PublishCBState)`, `WF(ClockTick)`, FeedGate: tickers of the risk-daemon's
  loop and of its goroutine, and time. Nothing is assumed of the exchange, the feed or its
  reconnections. The clock stops at its bound, so "stays shut" says that the key written last
  is shut; that each key outlives the ticker's period (10 s against 2 s) is read off `main.go:281`.
* `WF` of evaluation, execution, reading events and the clock in StrategyEngine, only in the
  world without faults: tickers of 30 s and 2 s, and a pipeline that answers.

## 4. Proofs

Eight modules hold some 12 000 obligations, all discharged by SMT, Zenon and LS4; nothing is
assumed but the named assumptions on the constants (limits are naturals, an enabled mode is one
of the three, legs are positive, what a detector or a market may return is of its type), which TLC
also evaluates for each instance. Each proof has the same shape: an inductive invariant, one lemma
per action, the theorem last. Where a theorem has a premise, it is named below and says for which
constants or in which world the code keeps the promise.

* `SumTheorems`. The theory that the models' sums and lists need, since the prover has no rule of
  induction it can instantiate. `SumFunction` is a fold over a set, and folds are given by
  `CHOOSE`; what holds of every finite set is proved by taking a smallest counterexample (`WFMin`)
  and making it smaller. On it rest the effect of one changed, added or removed entry on a sum,
  monotony, sums of sequences that grow by one, functions recursive on numbers
  (`RecursionDefined`), and the members of a flattened sequence (`FlattenMembers`).
* `ChallengeProofs`, the daemon. The inductive invariant `IInv` is the conjunction of `TypeOK`,
  `HighWaterIsDayPeak`, `HaltedIffUnclearedBreach`, `ApprovedOnlyWithinLimits`,
  `TradedTodayMatchesDays` and the ordering of dates. The parts need one another: a rolled day
  keeps the mark only if the date the daemon holds is not ahead of the clock; an approval is
  compliant only because the mark it is judged by is the day's. `TypeCorrect`, `MarkIsDayPeak`,
  `HaltIsBreach`, `ApprovalsCompliant`, `TradingDaysConsistent`, `SafetyTradesNeeded` follow for
  all limits, equities, day lengths and numbers of trades. `NoneReportedEarly` has an invariant of
  its own, `DeadlinesKept`: while a position has no stop, its deadline is a full term after the
  tick since when it has had none, also if it was replaced in between.
* `ChallengeProofs`, the process. `DeployedRecordsNothing`: since no action of the process records
  a trade, profits and days stay empty. `DeployedStarvesProfit`: hence, in a challenge phase, an
  intent with an expected profit is its own whole total and the distribution rule never admits it.
  `OverdueStays`: an overdue position is never replaced, since nothing is admitted while one
  exists. `FundedMarginStays`: the tracked margin is the sum over the positions, admission adds
  one that fits, and one that replaces another of its symbol adds at most its own margin.
* `RiskDaemonProofs`. `PeaksFromReadings` and `ModeFollowsRecord`: the peaks are those of all
  readings, and the mode the gravest that the record ever demanded. The daemon keeps less than the
  record, so the invariant says that nothing that matters was dropped: the error window holds
  every fill that is young enough (`FillsInWindow`), the unhedged timer starts at the oldest
  snapshot of the present run (`TimerIsOldest`), and no reading is dated after the last daily
  reset (`ReadingsKnown`). A loss from any reading is one from the highest (`DrawdownGrows`), so a
  peak stands for all the readings it is the highest of. Behind the polls and tickers of the
  process the same invariant holds until a restart, together with `GateFollows`: while the key
  blocks, so does the mode. From it `LoopFollowsRecord`, `OnlyMarginLowers` and `GateNotReopened`.
* `FeedGateProofs`, the breaker. `OpensWithCause`: a symbol is rejected exactly while a cause
  exists. `Covered`: the samples that were pruned are too old for any quote still to come;
  `TripIsLast`: the end of the cooldown is that of the newest abnormal quote, since stamps only
  grow.
* `FeedGateProofs`, the chain. `QuotesAreTrue`: what is cached and what is under way shows the
  exchange's ticker, by one lemma on merging (`MergedShows`) that needs prices other than zero and
  a connection whose first message names every field. `ChainDrivesBreaker` is the refinement: the
  invariant `Line` has the quotes of batch, stream and channel in the order of their stamps, none
  ahead of the clock or behind the last one recorded, so recording the head of the batch is a step
  of `CircuitBreaker`. `GateOpensWithCause` reuses the breaker's own invariant and lemmas. They
  hold for any `MaxDelay` that does not turn a quote away (`GateAssumption`).
* `IntentProofs`, the pipeline. `OnePlaceOnly`: what a process holds is the end of what its group
  was given (`ApproversInv`, `RouterInv`). `PipelineKeepsPromise`: each step maps to a step of
  `AtMostOnce` or to none (`StepSimulation`), for any number of intents, batches, approvers and
  crashes.
* `IntentProofs`, the strategy engine. `EInv`, in every world, has the types of all that is in
  flight, `LowCounted` (the count of a position is never behind its row of low differentials) and
  `ExitsBuy`. From it `LowRunsEnd`: a row of the configured length always asks for the exit in the
  evaluation that completes it. `EntriesLeaveTheCap`: the entries of an evaluation are computed by
  recursion over the pairs, and the sum that the recursion carries is that of the entries made so
  far (`EntriesAreGood`, `WithinCap`). Two promises need a world: when answers are in time, one
  intent of a pair is in flight at most (`OneInFlight`) and entries keep their distance (`Spaced`,
  `EntriesKeepTheirDistance`); when moreover intents are executed whole and nothing restarts, book
  and account agree up to what is in flight (`Matched`), hence `BookFollowsAccount`.
* `ExecutorProofs`. One invariant for every point of `Execute`: the order that is looked at is the
  one placed last (`Following`), a leg is asked for once while answers arrive (`AskedOnce`), what
  an unwind sold is no more than what the leg bought (`NotSoldShort`), and what the executor
  believes of a leg is what the exchange holds, as far as its answers allow (`Balanced`). From it
  `UnwindNeverReverses` under all faults, and, with the premises that the properties state
  themselves, `RetriesNeverOverfill` and `ExecuteHedgesOrAlarms`, for any size of the legs and any
  number of retries.
* `CarryTradingProofs`. `ReservedWithinPeak` (the allocator alone) and `TradingWithinPeak` (fed by
  its engines): no sequence of approvals, releases and readings reserves more for a strategy than
  its share of the highest equity, nor more for both than the cash reserve leaves. The invariant
  adds types and `CapitalBelowPeak`: the capital an approval is judged by is at most the peak,
  also where the code falls back to the initial capital. The products are nonlinear, so small
  arithmetic lemmas carry the steps. `LowCarryIsClosed` follows from the count of a position being
  never behind the row of low evaluations, a forced call counting too (`CountsLow`).
  `SpreadExitsReverse` has the premise `DriftsWithin`: the mean moves, between an evaluation and
  its confirmation, by less than `EntryStdDev` one way and at most by it the other; beyond that
  the confirmation keeps the wrong side and the exit would repeat the entry. `ReservationsCover`
  has the premise `OnePair`: with several, the repeated releases of a forced exit take from the
  reservation of another pair (section 6).
* `ScannerProofs`. `PlansObey`: for every price, structure, volatility, balance and score a plan
  obeys `WithinRules`; `PublishedPlansObey` follows it through scoring, filtering and the two
  directions into the list that `Scan` publishes. `GateKeepsTheLimits`: while the process lives, the
  counter, the row of losses, the total and the halt that `CheckPreTrade` consults are those of
  the trades opened and the results reported on the day of the guardrails (`Matches`), and none is
  of a later day (`Dated`), so rolling the day to the clock's keeps it true. (The property claims
  less than this: it leaves open whether a stop lasts its day, on which the code and its documents
  differ, section 6.) `DaysKeepToTheLimit`:
  the trades opened on a day are no more than its counter says, and one alert at most is cleared,
  for which there is room (`CountCovers`). `OutcomesTellWhatHappened`: a price at the stop is the
  risk or more on the losing side of the entry, one at the target on the gaining side, so the
  rounded multiple of the risk has the sign of what is recorded. `HistoryOutlivesRestarts`, for
  any number of restarts, failed saves and failed loads: while nothing was lost the history is the
  end of all outcomes, and cutting it twice is cutting it once (`KeptAgain`); each save writes all
  of it, so one that succeeds repairs those that failed, and something is lost only when a process
  ends with its last save failed or begins with a file it cannot read (`RestartKeepsHistory`). What
  memory and disk hold is always an ordered part of the outcomes (`PartOf`, `KeptInOrder`), also
  when a process appends to a history it read incompletely, so no trading day is made up.

Only model-checked: the five liveness properties, `BlockReachesGate`, `SpreadPositionsEnd`,
`GateReopeningSettles`, `Terminates` and `SilenceShutsGate`. They rest on fairness, and the prover
has no rules for `ENABLED`, in which fairness is defined. The two runs of section 5 have
counterexamples instead of proofs.

## 5. Disagreements found

Each is a run expected to be violated; `PROJECT.json` "findings" quotes the line.

1. `executor_neutral`: a limit order of the first leg that is seen partly filled ends the attempts
   of the leg (`executor.go:231-236`) without the cancel that other unfilled orders get (`:238`). Its
   rest stays open. The hedge is sized to the part, "to maintain delta neutrality" (`:125-126`), and
   filled whole; then the rest of the first order fills, and the first leg is larger than the second.
2. `strategy_engine_exits`: an exit always buys the primary, also when the entry bought it.

## 6. Read in the code, described here and not run

* The deployed challenge-daemon publishes a safety trade every minute after the configured time
  (`main.go:179`), because nothing records the trade (`DeployedRecordsNothing`);
  `CheckSafetyTrade` answers from yesterday's flag until a locked call rolls the day, so a safety
  trade that is needed may be put off until then; nothing bounds how long.
* A position that is replaced before its deadline starts a new one (`daemon.go:209`): the older
  deadline is then reported late or never. `ReportedPositionsAreOverdue` rules out the opposite only.
* `UpdateEquity` returns at the first of several overdue-independent checks, so a milder error may
  be the one reported (`daemon.go:159-163`); a deadline is reported by one test (`:216`) and
  judged by another (`:506-508`).
* A halt is lost on restart (the build specification, line 568, wants it kept); the peak resets
  too. Stops are never confirmed by the process.
* A risk-daemon that restarts begins with RUNNING (`risk/daemon.go:63`) and writes it over the mode
  key, whatever the key demanded; `GateStaysClosed` is about the life of one process.
* `types.go` says there is no automatic de-escalation; a critical margin turns HALTED into FLATTEN
  (`LoweredByMarginOnly` states exactly this and no more).
* After a crash the router forgets `processedIntents` and may execute a second copy.
* Drift is compared with `HedgeDriftMaxMs` only before the second leg; `MinPartialFillPct` is
  never read.
* strategy-engine: every execution event, also `ORDER_SENT` or a rejection, confirms an entry or
  an exit; hedge-leg events confirm a phantom pair; a refused exit makes the book forget a held
  position; the booked notional is an average price; the book is lost on restart.
* Risk daemon: `RecordPositionSnapshot` nets only `"Sell"` positions (`risk/daemon.go:139`), and
  the client reports `LONG` and `SHORT` in coins; a hedged book counts as unhedged.
* Pipeline: the capital-allocator publishes what it approves on the stream the router executes
  (`cmd/capital-allocator/main.go:83`); the build specification, line 478, wants only orders
  routed through the challenge-daemon.
* Capital: no process calls `ReleaseNotional` or `UpdateEquity`, so deployed reservations only
  grow until nothing is approved. arb-engine leaves `IntentTTLMs` at zero: its intents expire at
  once (`executor.go:60`) and still take the basis share for good.
* Funding and arbitrage: nobody confirms, so entries are published again at every evaluation and
  exits never. A persistent regime publishes an exit once per symbol that is persistent and once
  more; with several pairs the repeated releases take from another pair's reservation. `regime.go`
  says a persistent regime exits everything, but `EvaluateExits` asks only for pairs that reversed
  or are low. `MaxAllocationPct` bounds each pair, not the sum.
* Feed: a risk-daemon that restarts while the feed is silent lets everything pass, since a symbol
  that was never quoted is not stale (`SilenceShutsGate` asks for one quote). `attempt` is not set
  back when a connection succeeds (`marketdata/bybit.go:181`), so after enough reconnections each
  waits the longest delay. The poller overwrites the current funding rate with the last settled
  one, until a message names it again. The clocks of exchange and host are taken to agree.
* The statistics of the strategy-engine are recorded each second from the latest quotes, new or
  not (`cmd/strategy-engine/main.go:128`): with a silent feed the spread stops moving and its
  deviation shrinks.
* Alerts: the window of the rate limit tumbles, so twice the limit may be sent within a minute
  across its edge; failed sends are not counted; halts share the limit with information. `Send`
  waits up to five seconds in the `select` loop that calls it.
* Scanner: between `CheckPreTrade` and `RecordTradeOpened` nothing is reserved, so two alerts
  cleared together may exceed the daily limit; a restart forgets the daily state and all alert
  cooldowns; `ExpiresAt` is never checked; `MaxConcurrentTrades` is checked when scanning and not
  when a trade is opened; a history that is trimmed loses trading days. Time stops are only logged, and not even that while the scan is
  blocked; `guardrails.go:27` and `TRADING_SOP.md:75` say the trade is closed.
* Scanner, the stop for the day: `guardrails.go:16` and `:19`, the answers "done for today" (`:114`,
  `:120`) and `TRADING_SOP.md:15-16` and `:116-117` say that after a row of losses or the daily stop
  trading resumes on the next calendar day. `CheckPreTrade` asks the counters of the moment, and
  `RecordTradeResult` (`:169-175`) lowers them: a trade that was still open and is then reported as
  won ends the row, and may lift the total above the stop, so the gate opens again the same day.
  The instance reaches this for the daily stop. `GateKeepsLimits` claims neither side: it demands a closed gate while
  the day is beyond a limit, and an open one only on a day that never was.
* Scanner, the saved history: a failed `MarshalIndent` or `WriteFile` is only logged
  (`tracker.go:445-455`) and not tried again before the next outcome; a file that cannot be read or
  parsed leaves the history empty (`:432-440`), and the next outcome saves over it. Either way
  trades, and trading days with them, may be gone after a restart, and no one is told:
  `HistorySurvives` says exactly when.
* Sizing: the targets lie at 2, 3 and 4 times the risk, where `types.go:107` and the message
  (`engine.go:477`) say 1R, 2R, 3R and 2R, 3R. The narrowest stop gives a target of 0.6 %, so a
  trade that hits it does not count as a trading day, although `ValidateForTradingDay`
  (`risk_manager.go:245`) answers "qualifies"; `QualifiesForTradingDay` would tell and is never
  called.

## 7. Not modelled, and what could follow

Not modelled:

* the detectors and indicators of the scanner, and the spread and correlation statistics:
  floating-point scores of a strategy with no reference definition to check against. What they
  return is an input, any value of its range;
* alerting and the ledger: I/O on the way out, read by no other part;
* signing, transport and parsing of the exchange client; the Python script that downloads data.

Planned and done: the challenge daemon and its process, the risk daemon and its loop, the circuit
breaker, the feed in front of it, bus and router with their refinement, the executor, the
strategy, funding and arbitrage engines with the allocator, the scanner with sizing and outcomes,
and the proofs of section 4.

What could follow: a run that composes `Executor` with `TradePipeline`, so that a crash falls
inside an execution; the stop-loss placement (`PlaceStopLoss`) once a process calls it; for
several pairs, a statement of how much the repeated releases of a forced exit can take from
another pair's reservation, now that `ReservationsCover` says there is none with one pair.
