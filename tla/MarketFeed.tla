------------------------------ MODULE MarketFeed ------------------------------
(***************************************************************************)
(* The market-data process: the websocket feed of                          *)
(* internal/marketdata/bybit.go with its cache of merged tickers, its      *)
(* funding poller and its reconnections, and the loop of                   *)
(* cmd/market-data/main.go that takes quotes from the feed's channel to    *)
(* the stream.  A message of the exchange names the fields that changed;   *)
(* the first one after a subscription names them all, whatever the         *)
(* exchange did meanwhile.                                                 *)
(*                                                                         *)
(* Prices and volumes are merged by one rule, and price, bid and ask stand *)
(* for them; the funding rate, which may be zero, is merged by another.    *)
(***************************************************************************)
EXTENDS MarketClock

CONSTANTS
  Tickers,         \* what the exchange may show: [price, bid, ask, rate]
  SettledRates,    \* rates the REST history may give
  Backoffs,        \* <<ticks>>: delays between attempts to connect
  ChannelSize,     \* quotes the channel holds
  Absent,          \* a field that a message does not name
  LastUpdate,      \* bound: the exchange shows nothing new after this tick
  MaxMessages,     \* bound: ticker messages explored
  MaxFeedRestarts  \* bound

ASSUME FeedAssumption ==
  /\ Tickers \subseteq [price : Nat \ {0}, bid : Nat \ {0}, ask : Nat \ {0}, rate : Int]
  /\ SettledRates \subseteq Int
  /\ Len(Backoffs) > 0 /\ \A n \in DOMAIN Backoffs : Backoffs[n] \in Nat
  /\ ChannelSize \in Nat \ {0} /\ Absent \notin Int
  /\ LastUpdate \in Nat /\ MaxMessages \in Nat /\ MaxFeedRestarts \in Nat

VARIABLES
  up,              \* the websocket is connected and subscribed
  attempt,         \* reconnections since the start, as far as backoffs tell
                   \* them apart
  retryAt,         \* when the next attempt to connect is due; 0 while up
  showing,         \* symbol -> ticker the exchange shows, for the symbols of which
                   \* this connection has had the first message
  latest,          \* symbol -> merged ticker, for the symbols that have one
  channel,         \* quotes between the feed and the loop, oldest first
  messages,        \* ticker messages so far
  feedRestarts

linkVars == <<up, attempt, retryAt, showing>>
feedVars == <<linkVars, latest, channel, messages, feedRestarts>>

Fields == {"price", "bid", "ask", "rate"}

\* shown is what the exchange showed when it stamped the message; read by no
\* action.
Quote == [symbol : Symbols, ticker : [Fields -> Int], ts : Nat, shown : Tickers]

FeedTypeOK ==
  /\ up \in BOOLEAN /\ attempt \in 0..Len(Backoffs) /\ retryAt \in Nat
  /\ DOMAIN showing \subseteq Symbols
  /\ \A s \in DOMAIN showing : showing[s] \in Tickers
  /\ DOMAIN latest \subseteq Symbols
  /\ \A s \in DOMAIN latest : latest[s] \in [Fields -> Int]
  /\ channel \in Seq(Quote) /\ Len(channel) <= ChannelSize
  /\ messages \in 0..MaxMessages /\ feedRestarts \in 0..MaxFeedRestarts

FeedInit ==
  /\ up = FALSE /\ attempt = 0 /\ retryAt = 0 /\ showing = << >>
  /\ latest = << >> /\ channel = << >>
  /\ messages = 0 /\ feedRestarts = 0

-----------------------------------------------------------------------------
(* Messages.                                                               *)

\* What a message names: everything at first, then what has changed.
Named(s, ticker) ==
  [f \in Fields |->
     IF s \in DOMAIN showing /\ ticker[f] = showing[s][f] THEN Absent ELSE ticker[f]]

\* parseFloat: an absent field reads as zero.
Parsed(message) == [f \in Fields |-> IF message[f] = Absent THEN 0 ELSE message[f]]

\* Mutant: zero is taken for absent in the funding rate too.
MergesZeroRate(message, cached) ==
  [f \in Fields |-> IF Parsed(message)[f] = 0 THEN cached[f] ELSE Parsed(message)[f]]

\* Mutant: the ask is not merged.
ForgetsAsk(message, cached) ==
  [f \in Fields |->
     IF \/ f \in {"price", "bid"} /\ Parsed(message)[f] = 0
        \/ f = "rate" /\ message[f] = Absent
     THEN cached[f] ELSE Parsed(message)[f]]

\* A price of zero stands for an absent one; a rate of zero does not.
Merged(message, cached) ==
  [f \in Fields |->
     IF \/ f # "rate" /\ Parsed(message)[f] = 0
        \/ f = "rate" /\ message[f] = Absent
     THEN cached[f] ELSE Parsed(message)[f]]

\* The ticker that message makes of what is cached.
TickerOf(s, message) ==
  IF s \in DOMAIN latest THEN Merged(message, latest[s]) ELSE Parsed(message)

With(f, s, v) == [x \in DOMAIN f \cup {s} |-> IF x = s THEN v ELSE f[x]]

\* Mutant: a quote that is dropped is not cached either.
CachesIfSent(s, ticker) ==
  latest' = IF Len(channel) < ChannelSize THEN With(latest, s, ticker) ELSE latest

Caches(s, ticker) == latest' = With(latest, s, ticker)

\* A channel that is full drops the quote.
Offers(quote) ==
  channel' = IF Len(channel) < ChannelSize THEN Append(channel, quote) ELSE channel

\* The exchange shows ticker, and handleMessage handles the message that says
\* so.  The same ticker again stands for a change of a field left out here.
TickerMessage(s, ticker) ==
  LET merged == TickerOf(s, Named(s, ticker))
  IN  /\ up /\ now <= LastUpdate /\ messages < MaxMessages
      /\ messages' = messages + 1
      /\ showing' = With(showing, s, ticker)
      /\ Caches(s, merged)
      /\ Offers([symbol |-> s, ticker |-> merged, ts |-> now, shown |-> ticker])
      /\ UNCHANGED <<up, attempt, retryAt, feedRestarts>>

\* pollFundingRates: the last settled rate replaces the one in the cache.
PollFundingRate(s, rate) ==
  /\ s \in DOMAIN latest
  /\ latest' = [latest EXCEPT ![s].rate = rate]
  /\ UNCHANGED <<linkVars, channel, messages, feedRestarts>>

-----------------------------------------------------------------------------
(* Connections.                                                            *)

\* The last delay is used again when the list is exhausted.
Backoff(n) == Backoffs[IF n < Len(Backoffs) THEN n + 1 ELSE Len(Backoffs)]

\* A delay is lengthened by up to a quarter.
Retries ==
  /\ up' = FALSE /\ showing' = << >>
  /\ \E jitter \in 0..(Backoff(attempt) \div 4) :
       retryAt' = now + Backoff(attempt) + jitter
  /\ attempt' = IF attempt < Len(Backoffs) THEN attempt + 1 ELSE attempt

\* Reading fails, or nothing comes within the read deadline.
Disconnect ==
  /\ up /\ Retries
  /\ UNCHANGED <<latest, channel, messages, feedRestarts>>

\* Dialling or subscribing fails.
DialFails ==
  /\ ~up /\ now >= retryAt /\ Retries
  /\ UNCHANGED <<latest, channel, messages, feedRestarts>>

Connect ==
  /\ ~up /\ now >= retryAt
  /\ up' = TRUE /\ retryAt' = 0
  /\ UNCHANGED <<attempt, showing, latest, channel, messages, feedRestarts>>

\* The process dies with its cache and its channel.
RestartFeed ==
  /\ feedRestarts < MaxFeedRestarts /\ feedRestarts' = feedRestarts + 1
  /\ up' = FALSE /\ attempt' = 0 /\ retryAt' = now /\ showing' = << >>
  /\ latest' = << >> /\ channel' = << >>
  /\ UNCHANGED messages

\* The loop takes a quote from the channel; see its callers for the stream.
TakeQuote ==
  /\ channel # << >>
  /\ channel' = Tail(channel)
  /\ UNCHANGED <<linkVars, latest, messages, feedRestarts>>

\* Everything that happens inside the feed.
FeedStep ==
  \/ \E s \in Symbols, t \in Tickers : TickerMessage(s, t)
  \/ \E s \in Symbols, r \in SettledRates : PollFundingRate(s, r)
  \/ Disconnect
  \/ DialFails
  \/ Connect
  \/ RestartFeed
=============================================================================
