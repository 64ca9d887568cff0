---------------------------- MODULE CircuitBreaker ----------------------------
(***************************************************************************)
(* The circuit breaker of internal/risk/circuitbreaker.go: quotes trip a   *)
(* symbol on a rapid move or an abnormal spread, and a symbol whose quotes *)
(* have stopped counts as open.  Quotes of a symbol arrive in the order of *)
(* their timestamps (one websocket, one stream, one consumer), each some   *)
(* time after it was stamped.                                              *)
(***************************************************************************)
EXTENDS MarketClock

CONSTANTS
  Ticks,           \* what a quote may say: [price, bid, ask]
  MoveThreshold,   \* percent
  Window,          \* ticks a move is looked for in
  MaxSpread,       \* NormalSpreadBps times SpreadMultiplierThreshold
  Cooldown,        \* ticks a trip lasts
  StaleQuote,      \* ticks after which the last quote is stale
  MaxDelay,        \* bound: ticks between stamp and arrival
  MaxQuotes        \* bound: quotes per symbol explored between resets

ASSUME BreakerAssumption ==
  /\ Ticks \subseteq [price : Nat, bid : Nat, ask : Nat]
  /\ MoveThreshold \in Nat \ {0} /\ MaxSpread \in Nat
  /\ Window \in Nat /\ Cooldown \in Nat \ {0} /\ StaleQuote \in Nat
  /\ MaxDelay \in Nat /\ MaxQuotes \in Nat

VARIABLES
  samples,        \* symbol -> recent prices, a set of [price, ts]
  lastQuoteTs,    \* symbol -> stamp of the last quote; 0: none
  trippedUntil,   \* symbol -> end of the cooldown; 0: not tripped
  quotes          \* history: every quote since the last Reset of the symbol

vars == <<now, samples, lastQuoteTs, trippedUntil, quotes>>

Sample == [price : Nat, ts : Nat]

TypeOK ==
  /\ now \in Nat \ {0}
  /\ samples \in [Symbols -> SUBSET Sample]
  /\ lastQuoteTs \in [Symbols -> 0..now]
  /\ trippedUntil \in [Symbols -> 0..(now + Cooldown)]
  /\ quotes \in [Symbols -> Seq([tick : Ticks, ts : Nat])]

Init ==
  /\ now = 1
  /\ samples = [s \in Symbols |-> {}]
  /\ lastQuoteTs = [s \in Symbols |-> 0]
  /\ trippedUntil = [s \in Symbols |-> 0]
  /\ quotes = [s \in Symbols |-> << >>]

-----------------------------------------------------------------------------

Abs(n) == IF n < 0 THEN -n ELSE n

\* A move of at least the threshold from one price to another.
Moved(from, to) == from > 0 /\ Abs(to - from) * 100 >= MoveThreshold * from

\* A spread above the threshold, in basis points of the mid price.
SpreadAbnormal(tick) ==
  /\ tick.bid > 0 /\ tick.ask > 0
  /\ (tick.ask - tick.bid) * 20000 > MaxSpread * (tick.ask + tick.bid)

\* Mutant: samples are kept for half the window.
KeptTooShort(recent, ts) == {x \in recent : x.ts >= ts - Window \div 2}

\* Samples come in the order of their stamps, so the prefix that is pruned is
\* all that is too old.
Kept(recent, ts) == {x \in recent : x.ts >= ts - 2 * Window}

RapidMove(recent, price, ts) ==
  \E x \in recent : x.ts >= ts - Window /\ Moved(x.price, price)

CooldownEnd(ts) == ts + Cooldown

\* A quote without a price refreshes the stamp and is not looked at.
RecordQuote(s, tick, ts) ==
  LET sample == [price |-> tick.price, ts |-> ts]
      kept   == Kept(samples[s] \cup {sample}, ts)
  IN  /\ Len(quotes[s]) < MaxQuotes
      /\ lastQuoteTs' = [lastQuoteTs EXCEPT ![s] = ts]
      /\ quotes' = [quotes EXCEPT ![s] = Append(@, [tick |-> tick, ts |-> ts])]
      /\ samples' = IF tick.price > 0 THEN [samples EXCEPT ![s] = kept] ELSE samples
      /\ trippedUntil' =
           IF /\ tick.price > 0
              /\ RapidMove(kept, tick.price, ts) \/ SpreadAbnormal(tick)
           THEN [trippedUntil EXCEPT ![s] = CooldownEnd(ts)]
           ELSE trippedUntil
      /\ UNCHANGED now

Tripped(s) == trippedUntil[s] > 0 /\ now < trippedUntil[s]
Stale(s)   == lastQuoteTs[s] > 0 /\ now - lastQuoteTs[s] > StaleQuote

\* Mutant: a stale symbol does not count.
OpenIfTripped(s) == Tripped(s)

\* A symbol that was never quoted is closed.
IsOpen(s) == Tripped(s) \/ Stale(s)

IsOpenAny == \E s \in Symbols : IsOpen(s)

\* The stamp of the last quote survives.
Reset(s) ==
  /\ trippedUntil' = [trippedUntil EXCEPT ![s] = 0]
  /\ samples' = [samples EXCEPT ![s] = {}]
  /\ quotes' = [quotes EXCEPT ![s] = << >>]
  /\ UNCHANGED <<now, lastQuoteTs>>

Tick ==
  /\ now < MaxTime
  /\ now' = now + 1
  /\ UNCHANGED <<samples, lastQuoteTs, trippedUntil, quotes>>

\* Stamps in the order of arrival, and never ahead of the clock.
Stamps(s) ==
  {ts \in 1..now : ts >= lastQuoteTs[s] /\ now - ts <= MaxDelay}

Next ==
  \/ \E s \in Symbols, t \in Ticks : \E ts \in Stamps(s) : RecordQuote(s, t, ts)
  \/ \E s \in Symbols : Reset(s)
  \/ Tick

Spec == Init /\ [][Next]_vars

-----------------------------------------------------------------------------
(* Properties.                                                             *)

\* Quote i of q is far from an earlier quote of its window, or has an abnormal
\* spread: judged on every quote, none of them pruned.
Abnormal(q, i) ==
  /\ q[i].tick.price > 0
  /\ \/ \E j \in 1..i : /\ q[j].ts >= q[i].ts - Window
                        /\ Moved(q[j].tick.price, q[i].tick.price)
     \/ SpreadAbnormal(q[i].tick)

InCooldown(s) ==
  \E i \in DOMAIN quotes[s] :
    Abnormal(quotes[s], i) /\ now < quotes[s][i].ts + Cooldown

\* A symbol is rejected exactly while an abnormal quote is younger than the
\* cooldown or its quotes have stopped, whatever was pruned and however
\* late the quotes arrived.
OpenExactlyWithCause ==
  \A s \in Symbols : IsOpen(s) <=> InCooldown(s) \/ Stale(s)
=============================================================================
