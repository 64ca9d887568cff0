------------------------------- MODULE FeedGate -------------------------------
(***************************************************************************)
(* From the exchange's ticker to the router's gate: the quotes of          *)
(* MarketFeed go over the stream market:data to the risk-daemon, whose     *)
(* market-data ticker records them in the CircuitBreaker, and the key      *)
(* circuit_breaker:open, written by a goroutine and by the state ticker,   *)
(* tells the execution router.  A key that is missing blocks nothing.      *)
(***************************************************************************)
EXTENDS MarketFeed, CircuitBreaker

CONSTANTS
  ReadBatch,        \* quotes the risk-daemon reads at a time
  PublisherTTL,     \* ticks a key of the goroutine lives
  StateTTL,         \* ticks a key of the state ticker lives
  MaxRiskRestarts   \* bound

ASSUME GateAssumption ==
  /\ ReadBatch \in Nat \ {0} /\ PublisherTTL \in Nat \ {0} /\ StateTTL \in Nat \ {0}
  /\ MaxRiskRestarts \in Nat
  /\ MaxDelay >= MaxTime     \* a quote may be under way as long as it likes
  /\ Ticks = {[price |-> t.price, bid |-> t.bid, ask |-> t.ask] : t \in Tickers}

VARIABLES
  marketData,       \* quotes in the stream the risk-daemon has not been given
  quoteBatch,       \* quotes in its memory
  breakerKey,       \* [open, until]: the value and the end of its life
  riskRestarts

gateVars    == <<marketData, quoteBatch, breakerKey, riskRestarts>>
breakerVars == <<samples, lastQuoteTs, trippedUntil, quotes>>
allVars     == <<now, feedVars, breakerVars, gateVars>>

GateTypeOK ==
  /\ TypeOK /\ FeedTypeOK
  /\ marketData \in Seq(Quote) /\ quoteBatch \in Seq(Quote)
  /\ breakerKey \in [open : BOOLEAN, until : Nat]
  /\ riskRestarts \in 0..MaxRiskRestarts

GateInit ==
  /\ Init /\ FeedInit
  /\ marketData = << >> /\ quoteBatch = << >>
  /\ breakerKey = [open |-> FALSE, until |-> 0]
  /\ riskRestarts = 0

-----------------------------------------------------------------------------

Feed == FeedStep /\ UNCHANGED <<now, breakerVars, gateVars>>

\* Mutant: every quote is published by a goroutine of its own.
PublishesConcurrently(published) ==
  /\ TakeQuote
  /\ marketData' = IF published THEN <<Head(channel)>> \o marketData ELSE marketData
  /\ UNCHANGED <<now, breakerVars, quoteBatch, breakerKey, riskRestarts>>

\* The loop of market-data: a quote that cannot be published is lost.
PublishQuote(published) ==
  /\ TakeQuote
  /\ marketData' = IF published THEN Append(marketData, Head(channel)) ELSE marketData
  /\ UNCHANGED <<now, breakerVars, quoteBatch, breakerKey, riskRestarts>>

\* mdTicker reads, and what is read is acknowledged.
ReadQuotes ==
  LET n == IF Len(marketData) < ReadBatch THEN Len(marketData) ELSE ReadBatch
  IN  /\ quoteBatch = << >> /\ n > 0
      /\ quoteBatch' = SubSeq(marketData, 1, n)
      /\ marketData' = SubSeq(marketData, n + 1, Len(marketData))
      /\ UNCHANGED <<now, feedVars, breakerVars, breakerKey, riskRestarts>>

TickOf(quote) ==
  [price |-> quote.ticker.price, bid |-> quote.ticker.bid, ask |-> quote.ticker.ask]

\* The goroutine may look at the breaker between two quotes of a batch.
RecordNext ==
  /\ quoteBatch # << >>
  /\ LET q == Head(quoteBatch) IN RecordQuote(q.symbol, TickOf(q), q.ts)
  /\ quoteBatch' = Tail(quoteBatch)
  /\ UNCHANGED <<feedVars, marketData, breakerKey, riskRestarts>>

WritesKey(ttl) == breakerKey' = [open |-> IsOpenAny, until |-> now + ttl]

\* Mutant: the key is written only when it is missing.
WritesMissingKey ==
  /\ breakerKey.until <= now /\ WritesKey(PublisherTTL)
  /\ UNCHANGED <<now, feedVars, breakerVars, marketData, quoteBatch, riskRestarts>>

PublishCBState ==
  /\ WritesKey(PublisherTTL)
  /\ UNCHANGED <<now, feedVars, breakerVars, marketData, quoteBatch, riskRestarts>>

\* stateTicker, in the loop that records the quotes.
PublishBreakerState ==
  /\ quoteBatch = << >>
  /\ WritesKey(StateTTL)
  /\ UNCHANGED <<now, feedVars, breakerVars, marketData, quoteBatch, riskRestarts>>

\* The risk-daemon dies with its batch and its breaker; the key lives on.
RestartRisk ==
  /\ riskRestarts < MaxRiskRestarts /\ riskRestarts' = riskRestarts + 1
  /\ quoteBatch' = << >>
  /\ samples' = [s \in Symbols |-> {}]
  /\ lastQuoteTs' = [s \in Symbols |-> 0]
  /\ trippedUntil' = [s \in Symbols |-> 0]
  /\ quotes' = [s \in Symbols |-> << >>]
  /\ UNCHANGED <<now, feedVars, marketData, breakerKey>>

ClockTick == Tick /\ UNCHANGED <<feedVars, gateVars>>

Consuming == ReadQuotes \/ RecordNext

GateNext ==
  \/ Feed
  \/ \E published \in BOOLEAN : PublishQuote(published)
  \/ Consuming
  \/ PublishCBState
  \/ PublishBreakerState
  \/ RestartRisk
  \/ ClockTick

GateSafety == GateInit /\ [][GateNext]_allVars

\* Tickers fire for ever and time goes on.
GateSpec ==
  /\ GateSafety
  /\ WF_allVars(Consuming) /\ WF_allVars(PublishCBState) /\ WF_allVars(ClockTick)

-----------------------------------------------------------------------------
(* Properties.                                                             *)

\* Every quote under way, and the cache of a connection that has had its
\* first message, shows the exchange's ticker at its stamp, although messages
\* name only what changed, quotes are dropped, moves are missed between two
\* connections and the feed restarts.  The rate may instead be one the
\* poller wrote.
ShowsTicker(ticker, shown) ==
  /\ \A f \in Fields \ {"rate"} : ticker[f] = shown[f]
  /\ ticker.rate \in {shown.rate} \cup SettledRates

UnderWay == quoteBatch \o marketData \o channel

QuotesShowTheMarket ==
  /\ \A n \in DOMAIN UnderWay :
       LET q == UnderWay[n] IN ShowsTicker(q.ticker, q.shown)
  /\ \A s \in DOMAIN showing : ShowsTicker(latest[s], showing[s])

\* CircuitBreaker takes its quotes to come in the order of their stamps, none
\* of them from the future: the chain of feed, stream and batches implements
\* that, whatever is lost on the way.  A restart of the risk-daemon is the
\* only other step the breaker sees.
BreakerStep == Next \/ riskRestarts' # riskRestarts
DrivesBreaker == Init /\ [][BreakerStep]_vars

\* "Circuit is open if data is stale" (circuitbreaker.go:154): once the
\* exchange, the feed or the stream has gone silent, the gate of the router
\* shuts and stays shut, if the risk-daemon has had a quote since its start.
GateShut == breakerKey.open /\ now < breakerKey.until
SilenceShutsGate == <>[]((\E s \in Symbols : lastQuoteTs[s] > 0) => GateShut)
=============================================================================
