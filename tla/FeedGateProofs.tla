---------------------------- MODULE FeedGateProofs ----------------------------
(***************************************************************************)
(* Proofs about CircuitBreaker and FeedGate: the breaker rejects a symbol  *)
(* exactly with cause, for every threshold, window, cooldown and sequence  *)
(* of quotes; and for every exchange, every backoff and every size of      *)
(* channel and batch, the chain from the feed to the risk-daemon hands     *)
(* over what the exchange showed, in the order it was shown, and so drives *)
(* the CircuitBreaker the way its own specification takes for granted.     *)
(***************************************************************************)
EXTENDS FeedGate, SequenceTheorems, TLAPS

-----------------------------------------------------------------------------
(* The circuit breaker.                                                    *)

\* The samples stand for the quotes of the window, and for no others; no quote
\* is newer than the last stamp.
Covered(s) ==
  /\ \A i \in DOMAIN quotes[s] : quotes[s][i].ts <= lastQuoteTs[s]
  /\ \A i \in DOMAIN quotes[s] :
       quotes[s][i].tick.price > 0 /\ quotes[s][i].ts >= lastQuoteTs[s] - Window
         => [price |-> quotes[s][i].tick.price, ts |-> quotes[s][i].ts] \in samples[s]
  /\ \A x \in samples[s] :
       \E i \in DOMAIN quotes[s] :
         quotes[s][i].tick.price = x.price /\ quotes[s][i].ts = x.ts

\* A trip is the one of the newest abnormal quote.
TripIsLast(s) ==
  /\ \A i \in DOMAIN quotes[s] :
       Abnormal(quotes[s], i) => trippedUntil[s] >= quotes[s][i].ts + Cooldown
  /\ trippedUntil[s] > 0 =>
       \E i \in DOMAIN quotes[s] :
         Abnormal(quotes[s], i) /\ trippedUntil[s] = quotes[s][i].ts + Cooldown

IInv == TypeOK /\ \A s \in Symbols : Covered(s) /\ TripIsLast(s)

-----------------------------------------------------------------------------

QuoteType == [tick : Ticks, ts : Nat]

\* What was abnormal stays so when a quote is appended, and the new quote is
\* judged by itself and all before it.
LEMMA AbnormalAppended ==
  ASSUME NEW q \in Seq(QuoteType), NEW x \in QuoteType
  PROVE  /\ \A i \in 1..Len(q) : Abnormal(Append(q, x), i) <=> Abnormal(q, i)
         /\ Abnormal(Append(q, x), Len(q) + 1) <=>
              /\ x.tick.price > 0
              /\ \/ \E j \in 1..Len(q) : /\ q[j].ts >= x.ts - Window
                                         /\ Moved(q[j].tick.price, x.tick.price)
                 \/ x.ts >= x.ts - Window /\ Moved(x.tick.price, x.tick.price)
                 \/ SpreadAbnormal(x.tick)
<1> DEFINE r == Append(q, x)
<1>1. /\ Len(r) = Len(q) + 1 /\ r[Len(q) + 1] = x
      /\ \A i \in 1..Len(q) : r[i] = q[i]
      /\ Len(q) \in Nat
  OBVIOUS
<1> HIDE DEF r
<1>2. ASSUME NEW i \in 1..Len(q) PROVE Abnormal(r, i) <=> Abnormal(q, i)
  <2>1. \A j \in 1..i : r[j] = q[j]  BY <1>1
  <2> QED BY <1>1, <2>1 DEF Abnormal
<1>3. 1..(Len(q) + 1) = 1..Len(q) \cup {Len(q) + 1}  BY <1>1
<1>4. Abnormal(r, Len(q) + 1) <=>
        /\ x.tick.price > 0
        /\ \/ \E j \in 1..Len(q) : /\ q[j].ts >= x.ts - Window
                                   /\ Moved(q[j].tick.price, x.tick.price)
           \/ x.ts >= x.ts - Window /\ Moved(x.tick.price, x.tick.price)
           \/ SpreadAbnormal(x.tick)
  BY <1>1, <1>3 DEF Abnormal
<1> QED BY <1>2, <1>4 DEF r

\* Nothing has been sampled at the start.
LEMMA InitEstablishes == Init => IInv
  BY BreakerAssumption DEF Init, IInv, TypeOK, Covered, TripIsLast

\* Time alone changes no record.
LEMMA TickPreserves == IInv /\ Tick => IInv'
<1> SUFFICES ASSUME IInv, Tick PROVE IInv'  OBVIOUS
<1>1. TypeOK'
  <2>1. now \in Nat \ {0} /\ now' = now + 1  BY DEF IInv, TypeOK, Tick
  <2>2. /\ \A n \in 0..now : n \in 0..now'
        /\ \A n \in 0..(now + Cooldown) : n \in 0..(now' + Cooldown)
    <3>1. Cooldown \in Nat  BY BreakerAssumption
    <3> QED BY <2>1, <3>1
  <2>3. lastQuoteTs' \in [Symbols -> 0..now']
    <3>1. lastQuoteTs \in [Symbols -> 0..now] /\ lastQuoteTs' = lastQuoteTs
      BY DEF IInv, TypeOK, Tick
    <3> QED BY <2>2, <3>1
  <2>4. trippedUntil' \in [Symbols -> 0..(now' + Cooldown)]
    <3>1. trippedUntil \in [Symbols -> 0..(now + Cooldown)] /\ trippedUntil' = trippedUntil
      BY DEF IInv, TypeOK, Tick
    <3> QED BY <2>2, <3>1
  <2>5. samples' \in [Symbols -> SUBSET Sample]  BY DEF IInv, TypeOK, Tick
  <2>6. quotes' \in [Symbols -> Seq([tick : Ticks, ts : Nat])]  BY DEF IInv, TypeOK, Tick
  <2>7. now' \in Nat \ {0}  BY <2>1
  <2> QED BY <2>3, <2>4, <2>5, <2>6, <2>7 DEF TypeOK
<1>2. ASSUME NEW s \in Symbols PROVE Covered(s)' /\ TripIsLast(s)'
  BY DEF IInv, Tick, Covered, TripIsLast
<1> QED BY <1>1, <1>2 DEF IInv

\* A reset forgets the quotes together with what they led to.
LEMMA ResetPreserves ==
  ASSUME IInv, NEW s \in Symbols, Reset(s) PROVE IInv'
<1>1. TypeOK'
  <2>1. now' \in Nat \ {0} /\ lastQuoteTs' \in [Symbols -> 0..now']
    BY DEF IInv, TypeOK, Reset
  <2>2. samples' \in [Symbols -> SUBSET Sample]  BY DEF IInv, TypeOK, Reset
  <2>3. trippedUntil' \in [Symbols -> 0..(now' + Cooldown)]
    <3>1. 0 \in 0..(now + Cooldown)  BY BreakerAssumption DEF IInv, TypeOK
    <3> QED BY <3>1 DEF IInv, TypeOK, Reset
  <2>4. quotes' \in [Symbols -> Seq([tick : Ticks, ts : Nat])]
    <3>1. << >> \in Seq([tick : Ticks, ts : Nat])  OBVIOUS
    <3> QED BY <3>1 DEF IInv, TypeOK, Reset
  <2> QED BY <2>1, <2>2, <2>3, <2>4 DEF TypeOK
<1>2. ASSUME NEW t \in Symbols PROVE Covered(t)' /\ TripIsLast(t)'
  <2>1. CASE t = s  BY <2>1 DEF IInv, Reset, TypeOK, Covered, TripIsLast
  <2>2. CASE t # s  BY <2>2 DEF IInv, Reset, TypeOK, Covered, TripIsLast
  <2> QED BY <2>1, <2>2
<1> QED BY <1>1, <1>2 DEF IInv

\* A quote is judged by the samples exactly as by all the quotes before it:
\* those the samples lack are older than the window.
LEMMA RecordQuotePreserves ==
  ASSUME IInv, NEW s \in Symbols, NEW tick \in Ticks, NEW ts \in Stamps(s),
         RecordQuote(s, tick, ts)
  PROVE  IInv'
<1> DEFINE x    == [tick |-> tick, ts |-> ts]
           new  == [price |-> tick.price, ts |-> ts]
           kept == Kept(samples[s] \cup {new}, ts)
           q    == quotes[s]
           trip == tick.price > 0 /\ (RapidMove(kept, tick.price, ts) \/ SpreadAbnormal(tick))
<1>1. /\ now \in Nat \ {0} /\ ts \in 1..now /\ ts >= lastQuoteTs[s]
      /\ lastQuoteTs[s] \in 0..now
      /\ tick.price \in Nat /\ tick.bid \in Nat /\ tick.ask \in Nat
      /\ x \in QuoteType /\ q \in Seq(QuoteType)
      /\ samples[s] \in SUBSET Sample /\ new \in Sample
      /\ trippedUntil[s] \in 0..(now + Cooldown)
      /\ Cooldown \in Nat \ {0} /\ Window \in Nat
  <2>1. now \in Nat \ {0} /\ lastQuoteTs[s] \in 0..now  BY DEF IInv, TypeOK
  <2>2. ts \in 1..now /\ ts >= lastQuoteTs[s]  BY DEF Stamps
  <2>3. tick.price \in Nat /\ tick.bid \in Nat /\ tick.ask \in Nat  BY BreakerAssumption
  <2>4. ts \in Nat  BY <2>1, <2>2
  <2>5. x \in QuoteType  BY <2>4 DEF QuoteType
  <2>6. q \in Seq(QuoteType) /\ samples[s] \in SUBSET Sample
    BY DEF IInv, TypeOK, QuoteType
  <2>7. new \in Sample  BY <2>3, <2>4 DEF Sample
  <2>8. trippedUntil[s] \in 0..(now + Cooldown)  BY DEF IInv, TypeOK
  <2>9. Cooldown \in Nat \ {0} /\ Window \in Nat  BY BreakerAssumption
  <2> QED BY <2>1, <2>2, <2>3, <2>5, <2>6, <2>7, <2>8, <2>9
<1>2. /\ quotes' = [quotes EXCEPT ![s] = Append(q, x)]
      /\ lastQuoteTs' = [lastQuoteTs EXCEPT ![s] = ts]
      /\ samples' = IF tick.price > 0 THEN [samples EXCEPT ![s] = kept] ELSE samples
      /\ trippedUntil' = IF trip THEN [trippedUntil EXCEPT ![s] = ts + Cooldown]
                         ELSE trippedUntil
      /\ now' = now
  BY DEF RecordQuote, CooldownEnd
<1>3. kept \in SUBSET Sample  BY <1>1 DEF Kept
<1>4. TypeOK'
  <2>1. lastQuoteTs' \in [Symbols -> 0..now']  BY <1>1, <1>2 DEF IInv, TypeOK
  <2>2. samples' \in [Symbols -> SUBSET Sample]  BY <1>2, <1>3 DEF IInv, TypeOK
  <2>3. trippedUntil' \in [Symbols -> 0..(now' + Cooldown)]
    <3>1. ts + Cooldown \in 0..(now + Cooldown)  BY <1>1
    <3> QED BY <1>2, <3>1 DEF IInv, TypeOK
  <2>4. quotes' \in [Symbols -> Seq([tick : Ticks, ts : Nat])]
    <3>1. Append(q, x) \in Seq(QuoteType)  BY <1>1
    <3> QED BY <1>2, <3>1 DEF IInv, TypeOK, QuoteType
  <2> QED BY <1>1, <1>2, <2>1, <2>2, <2>3, <2>4 DEF TypeOK
<1>5. ASSUME NEW t \in Symbols, t # s PROVE Covered(t)' /\ TripIsLast(t)'
  <2>1. /\ quotes'[t] = quotes[t] /\ lastQuoteTs'[t] = lastQuoteTs[t]
        /\ samples'[t] = samples[t] /\ trippedUntil'[t] = trippedUntil[t]
    BY <1>2, <1>5 DEF IInv, TypeOK
  <2> QED BY <2>1 DEF IInv, Covered, TripIsLast
<1>6. /\ quotes'[s] = Append(q, x) /\ lastQuoteTs'[s] = ts
      /\ samples'[s] = IF tick.price > 0 THEN kept ELSE samples[s]
      /\ trippedUntil'[s] = IF trip THEN ts + Cooldown ELSE trippedUntil[s]
  BY <1>2 DEF IInv, TypeOK
<1>7. /\ Len(Append(q, x)) = Len(q) + 1 /\ Append(q, x)[Len(q) + 1] = x
      /\ \A i \in 1..Len(q) : Append(q, x)[i] = q[i]
      /\ Len(q) \in Nat /\ DOMAIN q = 1..Len(q)
      /\ DOMAIN Append(q, x) = 1..Len(q) \cup {Len(q) + 1}
      /\ \A i \in 1..Len(q) : q[i] \in QuoteType
  BY <1>1
<1> HIDE DEF q, x, kept, trip
<1>8. Covered(s)  BY DEF IInv
<1>9. ts + 0 = ts /\ ts >= ts - Window /\ ts >= ts - 2 * Window  BY <1>1
<1>10. \A y \in samples[s] \cup {new} : y \in kept <=> y.ts >= ts - 2 * Window
  BY DEF Kept, kept
<1>11. /\ \A i \in 1..Len(q) : q[i].ts <= lastQuoteTs[s] /\ q[i].ts \in Nat
       /\ \A i \in 1..Len(q) :
            q[i].tick.price > 0 /\ q[i].ts >= lastQuoteTs[s] - Window
              => [price |-> q[i].tick.price, ts |-> q[i].ts] \in samples[s]
       /\ \A y \in samples[s] :
            \E i \in 1..Len(q) : q[i].tick.price = y.price /\ q[i].ts = y.ts
  BY <1>7, <1>8 DEF Covered, q, QuoteType
<1>12. ASSUME NEW i \in 1..Len(q), q[i].tick.price > 0, q[i].ts >= ts - Window
       PROVE  [price |-> q[i].tick.price, ts |-> q[i].ts] \in kept
  <2>1. q[i].ts >= lastQuoteTs[s] - Window /\ q[i].ts >= ts - 2 * Window
    BY <1>1, <1>11, <1>12
  <2> QED BY <1>10, <1>11, <1>12, <2>1
<1>13. new \in kept  BY <1>9, <1>10
<1>14. \A y \in kept :
         \/ y = new
         \/ \E i \in 1..Len(q) : q[i].tick.price = y.price /\ q[i].ts = y.ts
  BY <1>11 DEF kept, Kept
<1>15. ASSUME tick.price > 0
       PROVE  RapidMove(kept, tick.price, ts) <=>
                \/ \E j \in 1..Len(q) : /\ q[j].ts >= ts - Window
                                        /\ Moved(q[j].tick.price, tick.price)
                \/ Moved(tick.price, tick.price)
  <2>1. ASSUME RapidMove(kept, tick.price, ts)
        PROVE  \/ \E j \in 1..Len(q) : /\ q[j].ts >= ts - Window
                                       /\ Moved(q[j].tick.price, tick.price)
               \/ Moved(tick.price, tick.price)
    <3>1. PICK y \in kept : y.ts >= ts - Window /\ Moved(y.price, tick.price)
      BY <2>1 DEF RapidMove
    <3>2. CASE y = new  BY <3>1, <3>2
    <3>3. CASE y # new  BY <1>14, <3>1, <3>3
    <3> QED BY <3>2, <3>3
  <2>2. ASSUME NEW j \in 1..Len(q), q[j].ts >= ts - Window,
               Moved(q[j].tick.price, tick.price)
        PROVE  RapidMove(kept, tick.price, ts)
    <3>1. q[j].tick.price > 0  BY <2>2 DEF Moved
    <3>2. [price |-> q[j].tick.price, ts |-> q[j].ts] \in kept  BY <1>12, <2>2, <3>1
    <3> QED BY <2>2, <3>2 DEF RapidMove
  <2>3. ASSUME Moved(tick.price, tick.price)
        PROVE  RapidMove(kept, tick.price, ts)
    BY <1>9, <1>13, <2>3 DEF RapidMove
  <2> QED BY <2>1, <2>2, <2>3
<1>16. trip <=> Abnormal(Append(q, x), Len(q) + 1)
  <2>1. Abnormal(Append(q, x), Len(q) + 1) <=>
          /\ tick.price > 0
          /\ \/ \E j \in 1..Len(q) : /\ q[j].ts >= ts - Window
                                     /\ Moved(q[j].tick.price, tick.price)
             \/ ts >= ts - Window /\ Moved(tick.price, tick.price)
             \/ SpreadAbnormal(tick)
    <3>1. x.tick = tick /\ x.ts = ts  BY DEF x
    <3> QED BY <1>1, <3>1, AbnormalAppended
  <2> QED BY <1>9, <1>15, <2>1 DEF trip
<1>17. \A i \in 1..Len(q) : Abnormal(Append(q, x), i) <=> Abnormal(q, i)
  BY <1>1, AbnormalAppended
<1>18. /\ x.ts = ts /\ x.tick = tick
       /\ new.price = tick.price /\ new.ts = ts
  BY DEF x
<1>19. Covered(s)'
  <2> DEFINE r == Append(q, x)
  <2>1. \A i \in DOMAIN r : r[i].ts <= ts
    BY <1>1, <1>7, <1>11, <1>18
  <2>2. ASSUME NEW i \in DOMAIN r, r[i].tick.price > 0, r[i].ts >= ts - Window
        PROVE  [price |-> r[i].tick.price, ts |-> r[i].ts] \in samples'[s]
    <3>1. CASE i = Len(q) + 1
      <4>1. r[i] = x  BY <1>7, <3>1
      <4> QED BY <1>6, <1>13, <1>18, <2>2, <4>1
    <3>2. CASE i \in 1..Len(q)
      <4>1. r[i] = q[i]  BY <1>7, <3>2
      <4>2. [price |-> q[i].tick.price, ts |-> q[i].ts] \in kept  BY <1>12, <2>2, <3>2, <4>1
      <4>3. q[i].ts >= lastQuoteTs[s] - Window  BY <1>1, <1>11, <2>2, <3>2, <4>1
      <4>4. [price |-> q[i].tick.price, ts |-> q[i].ts] \in samples[s]
        BY <1>11, <2>2, <3>2, <4>1, <4>3
      <4> QED BY <1>6, <4>1, <4>2, <4>4
    <3> QED BY <1>7, <3>1, <3>2
  <2>3. ASSUME NEW y \in samples'[s]
        PROVE  \E i \in DOMAIN r : r[i].tick.price = y.price /\ r[i].ts = y.ts
    <3>1. Len(q) + 1 \in DOMAIN r /\ r[Len(q) + 1] = x  BY <1>7
    <3>2. CASE y = new  BY <1>18, <3>1, <3>2
    <3>3. CASE y # new
      <4>1. \E i \in 1..Len(q) : q[i].tick.price = y.price /\ q[i].ts = y.ts
        BY <1>6, <1>11, <1>14, <2>3, <3>3
      <4> QED BY <1>7, <4>1
    <3> QED BY <3>2, <3>3
  <2> HIDE DEF r
  <2>4. quotes'[s] = r /\ lastQuoteTs'[s] = ts  BY <1>6 DEF r
  <2> QED BY <2>1, <2>2, <2>3, <2>4 DEF Covered
<1>20. TripIsLast(s)'
  <2> DEFINE r == Append(q, x)
  <2>1. ASSUME NEW i \in DOMAIN r, Abnormal(r, i)
        PROVE  trippedUntil'[s] >= r[i].ts + Cooldown
    <3>1. CASE i = Len(q) + 1
      BY <1>1, <1>6, <1>7, <1>16, <1>18, <2>1, <3>1
    <3>2. CASE i \in 1..Len(q)
      <4>1. r[i] = q[i] /\ Abnormal(q, i)  BY <1>7, <1>17, <2>1, <3>2
      <4>2. trippedUntil[s] >= q[i].ts + Cooldown
        BY <1>7, <3>2, <4>1 DEF IInv, TripIsLast, q
      <4>3. q[i].ts <= ts /\ q[i].ts \in Nat  BY <1>1, <1>11, <3>2
      <4> QED BY <1>1, <1>6, <4>1, <4>2, <4>3
    <3> QED BY <1>7, <3>1, <3>2
  <2>2. ASSUME trippedUntil'[s] > 0
        PROVE  \E i \in DOMAIN r :
                 Abnormal(r, i) /\ trippedUntil'[s] = r[i].ts + Cooldown
    <3>1. CASE trip  BY <1>6, <1>7, <1>16, <1>18, <3>1
    <3>2. CASE ~trip
      <4>1. trippedUntil[s] > 0  BY <1>6, <2>2, <3>2
      <4>2. PICK i \in 1..Len(q) :
              Abnormal(q, i) /\ trippedUntil[s] = q[i].ts + Cooldown
        BY <1>7, <4>1 DEF IInv, TripIsLast, q
      <4> QED BY <1>6, <1>7, <1>17, <3>2, <4>2
    <3> QED BY <3>1, <3>2
  <2> HIDE DEF r
  <2>3. quotes'[s] = r  BY <1>6 DEF r
  <2> QED BY <2>1, <2>2, <2>3 DEF TripIsLast, Abnormal, SpreadAbnormal, Moved
<1> QED BY <1>4, <1>5, <1>19, <1>20 DEF IInv

-----------------------------------------------------------------------------

\* The steps of the breaker together.
LEMMA NextPreserves == IInv /\ [Next]_vars => IInv'
<1> SUFFICES ASSUME IInv, [Next]_vars PROVE IInv'  OBVIOUS
<1>1. ASSUME NEW s \in Symbols, NEW t \in Ticks, NEW ts \in Stamps(s), RecordQuote(s, t, ts)
      PROVE  IInv'
  BY <1>1, RecordQuotePreserves
<1>2. ASSUME NEW s \in Symbols, Reset(s) PROVE IInv'  BY <1>2, ResetPreserves
<1>3. CASE Tick  BY <1>3, TickPreserves
<1>4. CASE UNCHANGED vars
  <2>1. TypeOK'  BY <1>4 DEF vars, IInv, TypeOK
  <2>2. ASSUME NEW s \in Symbols PROVE Covered(s)' /\ TripIsLast(s)'
    BY <1>4 DEF vars, IInv, Covered, TripIsLast
  <2> QED BY <2>1, <2>2 DEF IInv
<1> QED BY <1>1, <1>2, <1>3, <1>4 DEF Next

\* So the invariant holds throughout.
LEMMA Inductive == Spec => []IInv
<1> QED BY InitEstablishes, NextPreserves, PTL DEF Spec

\* What the breaker keeps has its type, however long it runs.
THEOREM TypeCorrect == Spec => []TypeOK
<1>1. IInv => TypeOK  BY DEF IInv
<1> QED BY <1>1, Inductive, PTL

\* Under the invariant a symbol is rejected exactly with cause.
LEMMA CauseFollows == IInv => OpenExactlyWithCause
<1> SUFFICES ASSUME IInv, NEW s \in Symbols
             PROVE  IsOpen(s) <=> InCooldown(s) \/ Stale(s)
  BY DEF OpenExactlyWithCause
<1>1. /\ now \in Nat /\ trippedUntil[s] \in Nat /\ Cooldown \in Nat
      /\ \A i \in DOMAIN quotes[s] : quotes[s][i].ts \in Nat
  <2>1. trippedUntil[s] \in 0..(now + Cooldown) /\ quotes[s] \in Seq(QuoteType)
    BY DEF IInv, TypeOK, QuoteType
  <2>2. now \in Nat /\ Cooldown \in Nat  BY BreakerAssumption DEF IInv, TypeOK
  <2>3. trippedUntil[s] \in Nat  BY <2>1, <2>2
  <2>4. \A i \in DOMAIN quotes[s] : quotes[s][i] \in QuoteType  BY <2>1
  <2> QED BY <2>2, <2>3, <2>4 DEF QuoteType
<1>2. InCooldown(s) => Tripped(s)
  BY <1>1 DEF IInv, TripIsLast, InCooldown, Tripped
<1>3. Tripped(s) => InCooldown(s)
  BY <1>1 DEF IInv, TripIsLast, InCooldown, Tripped
<1> QED BY <1>2, <1>3 DEF IsOpen

\* A symbol is rejected exactly while an abnormal quote is younger than the
\* cooldown or its quotes have stopped: pruning never hides a move, and a
\* late trip never shortens an earlier one.
THEOREM OpensWithCause == Spec => []OpenExactlyWithCause
<1> QED BY CauseFollows, Inductive, PTL

-----------------------------------------------------------------------------
(* The feed, the channel and the gate.                                     *)

\* A quote that shows the market, stamped by clock and not before the last
\* quote the breaker has had.
Good(q, clock, last) ==
  /\ ShowsTicker(q.ticker, q.shown)
  /\ q.ts \in 1..clock
  /\ \A s \in Symbols : last[s] <= q.ts

InOrder(v) == \A m, n \in DOMAIN v : m <= n => v[m].ts <= v[n].ts

Sound(v, clock, last) ==
  v \in Seq(Quote) /\ InOrder(v) /\ \A n \in DOMAIN v : Good(v[n], clock, last)

\* Everything in v was stamped before anything in w.
Before(v, w) == \A m \in DOMAIN v, n \in DOMAIN w : v[m].ts <= w[n].ts

\* The three places of a quote on its way, the front of the line first.
Line(a, b, c, clock, last) ==
  /\ Sound(a, clock, last) /\ Sound(b, clock, last) /\ Sound(c, clock, last)
  /\ Before(a, b) /\ Before(a, c) /\ Before(b, c)

\* The cache shows what the connection has been shown.
CacheInv ==
  /\ DOMAIN showing \subseteq DOMAIN latest
  /\ \A s \in DOMAIN showing : showing[s] \in Tickers /\ ShowsTicker(latest[s], showing[s])
  /\ \A s \in DOMAIN latest : latest[s] \in [Fields -> Int]

ClockInv == now \in Nat \ {0} /\ (now <= MaxTime \/ now = 1)

GateInv ==
  /\ ClockInv /\ riskRestarts \in Nat /\ IInv /\ CacheInv
  /\ Line(quoteBatch, marketData, channel, now, lastQuoteTs)

-----------------------------------------------------------------------------
(* Sequences of quotes.                                                    *)

\* Nothing on its way is in order,
LEMMA EmptySound ==
  ASSUME NEW clock, NEW last
  PROVE  Sound(<< >>, clock, last)
  BY DEF Sound, InOrder

\* before and after any other.
LEMMA EmptyBefore ==
  ASSUME NEW v
  PROVE  Before(<< >>, v) /\ Before(v, << >>)
  BY DEF Before

\* What follows the head of a sound queue is sound, and not older than it.
LEMMA TailSound ==
  ASSUME NEW clock, NEW last, NEW v, Sound(v, clock, last), v # << >>
  PROVE  /\ Head(v) = v[1] /\ 1 \in DOMAIN v /\ Head(v) \in Quote
         /\ Good(Head(v), clock, last)
         /\ Sound(Tail(v), clock, last)
         /\ \A n \in DOMAIN v : Head(v).ts <= v[n].ts
         /\ \A n \in DOMAIN Tail(v) : n + 1 \in DOMAIN v /\ Tail(v)[n] = v[n + 1]
<1>1. v \in Seq(Quote) /\ Len(v) \in Nat /\ Len(v) > 0 /\ DOMAIN v = 1..Len(v)
  BY DEF Sound
<1>2. Head(v) = v[1] /\ 1 \in DOMAIN v  BY <1>1
<1>3. /\ Tail(v) \in Seq(Quote) /\ DOMAIN Tail(v) = 1..(Len(v) - 1)
      /\ \A n \in 1..(Len(v) - 1) : Tail(v)[n] = v[n + 1]
  BY <1>1
<1>4. \A n \in DOMAIN Tail(v) : n \in Int /\ n + 1 \in DOMAIN v /\ Tail(v)[n] = v[n + 1]
  BY <1>1, <1>3
<1>5. InOrder(Tail(v))
  <2> SUFFICES ASSUME NEW m \in DOMAIN Tail(v), NEW n \in DOMAIN Tail(v), m <= n
               PROVE  Tail(v)[m].ts <= Tail(v)[n].ts
    BY DEF InOrder
  <2>1. m + 1 <= n + 1  BY <1>4
  <2> QED BY <1>4, <2>1 DEF Sound, InOrder
<1>6. \A n \in DOMAIN Tail(v) : Good(Tail(v)[n], clock, last)  BY <1>4 DEF Sound
<1>7. \A n \in DOMAIN v : Head(v).ts <= v[n].ts  BY <1>1, <1>2 DEF Sound, InOrder
<1>8. Head(v) \in Quote  BY <1>1, <1>2
<1>9. Good(Head(v), clock, last)  BY <1>2 DEF Sound
<1> QED BY <1>2, <1>3, <1>4, <1>5, <1>6, <1>7, <1>8, <1>9 DEF Sound

\* A quote not older than a sound queue may join its end.
LEMMA AppendSound ==
  ASSUME NEW clock, NEW last, NEW v, Sound(v, clock, last),
         NEW q \in Quote, Good(q, clock, last), \A n \in DOMAIN v : v[n].ts <= q.ts
  PROVE  /\ Sound(Append(v, q), clock, last)
         /\ \A n \in DOMAIN Append(v, q) :
              \/ n \in DOMAIN v /\ Append(v, q)[n] = v[n]
              \/ Append(v, q)[n] = q
<1> DEFINE w == Append(v, q)
<1>1. v \in Seq(Quote) /\ Len(v) \in Nat /\ DOMAIN v = 1..Len(v)  BY DEF Sound
<1>2. /\ w \in Seq(Quote) /\ DOMAIN w = 1..(Len(v) + 1) /\ w[Len(v) + 1] = q
      /\ \A n \in 1..Len(v) : w[n] = v[n]
  BY <1>1
<1> HIDE DEF w
<1>3. \A n \in DOMAIN w : (n \in DOMAIN v /\ w[n] = v[n]) \/ (n = Len(v) + 1 /\ w[n] = q)
  BY <1>1, <1>2
<1>4. InOrder(w)
  <2> SUFFICES ASSUME NEW m \in DOMAIN w, NEW n \in DOMAIN w, m <= n
               PROVE  w[m].ts <= w[n].ts
    BY DEF InOrder
  <2>1. CASE n \in DOMAIN v
    <3>1. m \in DOMAIN v  BY <1>1, <1>2, <2>1
    <3>2. w[m] = v[m] /\ w[n] = v[n]  BY <1>1, <1>2, <2>1, <3>1
    <3> QED BY <2>1, <3>1, <3>2 DEF Sound, InOrder
  <2>2. CASE w[n] = q /\ m \in DOMAIN v  BY <1>1, <1>2, <2>2
  <2>3. CASE w[n] = q /\ w[m] = q
    <3>1. q.ts \in Nat  BY DEF Quote
    <3> QED BY <2>3, <3>1
  <2> QED BY <1>3, <2>1, <2>2, <2>3
<1>5. \A n \in DOMAIN w : Good(w[n], clock, last)  BY <1>3 DEF Sound
<1> QED BY <1>2, <1>3, <1>4, <1>5 DEF Sound, w

\* A sound queue may be cut in two.
LEMMA CutSound ==
  ASSUME NEW clock, NEW last, NEW v, Sound(v, clock, last), NEW k \in 1..Len(v)
  PROVE  LET a == SubSeq(v, 1, k)
             b == SubSeq(v, k + 1, Len(v))
         IN  /\ Sound(a, clock, last) /\ Sound(b, clock, last) /\ Before(a, b)
             /\ \A n \in DOMAIN a : n \in DOMAIN v /\ a[n] = v[n]
             /\ \A n \in DOMAIN b : n + k \in DOMAIN v /\ b[n] = v[n + k]
<1> DEFINE a == SubSeq(v, 1, k)
           b == SubSeq(v, k + 1, Len(v))
<1>1. v \in Seq(Quote) /\ Len(v) \in Nat /\ DOMAIN v = 1..Len(v) /\ k \in Nat /\ k <= Len(v)
  BY DEF Sound
<1>2. a \in Seq(Quote) /\ DOMAIN a = 1..k /\ \A n \in 1..k : a[n] = v[n]
  BY <1>1
<1> HIDE DEF a, b
<1>3. /\ b \in Seq(Quote) /\ DOMAIN b = 1..(Len(v) - k)
      /\ \A n \in 1..(Len(v) - k) : b[n] = v[n + k]
  <2>1. k + 1 \in Int /\ Len(v) \in Int /\ \A i \in (k + 1)..Len(v) : v[i] \in Quote
    BY <1>1
  <2>2. /\ b \in Seq(Quote)
        /\ Len(b) = IF k + 1 <= Len(v) THEN Len(v) - (k + 1) + 1 ELSE 0
        /\ \A n \in 1..(Len(v) - (k + 1) + 1) : b[n] = v[(k + 1) + n - 1]
    BY <2>1, SubSeqProperties DEF b
  <2>3. /\ Len(v) - (k + 1) + 1 = Len(v) - k
        /\ ~(k + 1 <= Len(v)) => Len(v) - k = 0
    <3>1. \A l, j \in Nat : /\ l - (j + 1) + 1 = l - j
                            /\ j <= l /\ ~(j + 1 <= l) => l - j = 0
      OBVIOUS
    <3> QED BY <1>1, <3>1, Zenon
  <2>4. \A n \in 1..(Len(v) - k) : (k + 1) + n - 1 = n + k  BY <1>1
  <2>5. DOMAIN b = 1..Len(b)  BY <2>2
  <2>6. Len(b) = Len(v) - k  BY <2>2, <2>3, Zenon
  <2> QED BY <2>2, <2>3, <2>4, <2>5, <2>6
<1>4. \A n \in DOMAIN a : n \in Nat /\ n <= k /\ n \in DOMAIN v /\ a[n] = v[n]  BY <1>1, <1>2
<1>5. \A n \in DOMAIN b : n \in Nat /\ k < n + k /\ n + k \in DOMAIN v /\ b[n] = v[n + k]
  BY <1>1, <1>3
<1>6. InOrder(a)  BY <1>4 DEF InOrder, Sound
<1>7. InOrder(b)
  <2> SUFFICES ASSUME NEW m \in DOMAIN b, NEW n \in DOMAIN b, m <= n
               PROVE  b[m].ts <= b[n].ts
    BY DEF InOrder
  <2>1. m + k <= n + k  BY <1>1, <1>5
  <2> QED BY <1>5, <2>1 DEF Sound, InOrder
<1>8. Before(a, b)
  <2> SUFFICES ASSUME NEW m \in DOMAIN a, NEW n \in DOMAIN b
               PROVE  a[m].ts <= b[n].ts
    BY DEF Before
  <2>1. m <= n + k  BY <1>1, <1>4, <1>5
  <2> QED BY <1>4, <1>5, <2>1 DEF Sound, InOrder
<1>9. /\ \A n \in DOMAIN a : Good(a[n], clock, last)
      /\ \A n \in DOMAIN b : Good(b[n], clock, last)
  BY <1>4, <1>5 DEF Sound
<1> QED BY <1>2, <1>3, <1>4, <1>5, <1>6, <1>7, <1>8, <1>9 DEF Sound, a, b

-----------------------------------------------------------------------------
(* What a message makes of the cache.                                      *)

\* A ticker has a number in every field, and none but the rate is zero.
LEMMA TickerFields ==
  ASSUME NEW t \in Tickers
  PROVE  /\ t \in [Fields -> Int]
         /\ \A f \in Fields \ {"rate"} : t[f] # 0
  BY FeedAssumption DEF Fields

\* The cache and the fields that changed give the ticker of the exchange, for
\* an unchanged field is cached as it was shown and no price is zero.
LEMMA MergedShows ==
  ASSUME CacheInv, NEW s \in Symbols, NEW t \in Tickers
  PROVE  /\ TickerOf(s, Named(s, t)) \in [Fields -> Int]
         /\ ShowsTicker(TickerOf(s, Named(s, t)), t)
<1> DEFINE message == Named(s, t)
           ticker  == TickerOf(s, message)
<1>1. /\ t \in [Fields -> Int] /\ Absent \notin Int
      /\ \A f \in Fields \ {"rate"} : t[f] # 0
  BY TickerFields, FeedAssumption
<1>2. \A f \in Fields :
        message[f] = IF s \in DOMAIN showing /\ t[f] = showing[s][f] THEN Absent ELSE t[f]
  BY DEF Named
<1>3. \A f \in Fields : Parsed(message)[f] = IF message[f] = Absent THEN 0 ELSE message[f]
  BY DEF Parsed
<1>4. CASE s \in DOMAIN showing
  <2>1. s \in DOMAIN latest /\ latest[s] \in [Fields -> Int]
    BY <1>4 DEF CacheInv
  <2>2. /\ \A f \in Fields \ {"rate"} : latest[s][f] = showing[s][f]
        /\ latest[s]["rate"] \in {showing[s]["rate"]} \cup SettledRates
    BY <1>4 DEF CacheInv, ShowsTicker
  <2>3. ticker = [f \in Fields |->
                    IF \/ f # "rate" /\ Parsed(message)[f] = 0
                       \/ f = "rate" /\ message[f] = Absent
                    THEN latest[s][f] ELSE Parsed(message)[f]]
    BY <2>1 DEF TickerOf, Merged
  <2> HIDE DEF message, ticker
  <2>4. ASSUME NEW f \in Fields \ {"rate"} PROVE ticker[f] = t[f]
    <3>1. CASE t[f] = showing[s][f]
      <4>1. Parsed(message)[f] = 0  BY <1>2, <1>3, <1>4, <3>1
      <4> QED BY <2>2, <2>3, <3>1, <4>1
    <3>2. CASE t[f] # showing[s][f]
      <4>1. message[f] = t[f] /\ t[f] # Absent  BY <1>1, <1>2, <3>2
      <4>2. Parsed(message)[f] = t[f]  BY <1>3, <4>1
      <4> QED BY <1>1, <2>3, <4>2
    <3> QED BY <3>1, <3>2
  <2>5. "rate" \in Fields  BY DEF Fields
  <2>6. ticker["rate"] \in {t["rate"]} \cup SettledRates
    <3>1. CASE t["rate"] = showing[s]["rate"]
      <4>1. message["rate"] = Absent  BY <1>2, <1>4, <2>5, <3>1
      <4>2. ticker["rate"] = latest[s]["rate"]  BY <2>3, <2>5, <4>1
      <4> QED BY <2>2, <3>1, <4>2
    <3>2. CASE t["rate"] # showing[s]["rate"]
      <4>1. message["rate"] = t["rate"] /\ t["rate"] # Absent  BY <1>1, <1>2, <2>5, <3>2
      <4>2. Parsed(message)["rate"] = t["rate"]  BY <1>3, <2>5, <4>1
      <4> QED BY <2>3, <2>5, <4>1, <4>2
    <3> QED BY <3>1, <3>2
  <2>7. ticker \in [Fields -> Int]
    <3>1. \A f \in Fields : ticker[f] \in Int
      <4>1. \A f \in Fields \ {"rate"} : ticker[f] \in Int  BY <1>1, <2>4
      <4>2. ticker["rate"] \in Int  BY <1>1, <2>5, <2>6, FeedAssumption
      <4> QED BY <4>1, <4>2
    <3>2. ticker = [f \in Fields |-> ticker[f]]  BY <2>3
    <3> QED BY <3>1, <3>2
  <2> QED BY <2>4, <2>6, <2>7 DEF ShowsTicker, ticker, message
<1>5. CASE s \notin DOMAIN showing
  <2> HIDE DEF message
  <2>1. \A f \in Fields : message[f] = t[f] /\ t[f] # Absent /\ t[f] \in Int
    BY <1>1, <1>2, <1>5
  <2>2. \A f \in Fields : Parsed(message)[f] = t[f]  BY <1>3, <2>1
  <2>3. Parsed(message) = [f \in Fields |-> Parsed(message)[f]]  BY DEF Parsed
  <2>4. "rate" \in Fields  BY DEF Fields
  <2>5. CASE s \in DOMAIN latest
    <3>1. ticker = [f \in Fields |->
                      IF \/ f # "rate" /\ Parsed(message)[f] = 0
                         \/ f = "rate" /\ message[f] = Absent
                      THEN latest[s][f] ELSE Parsed(message)[f]]
      BY <2>5 DEF TickerOf, Merged
    <3> HIDE DEF ticker
    <3>2. \A f \in Fields : ticker[f] = t[f]  BY <1>1, <2>1, <2>2, <3>1
    <3>3. ticker \in [Fields -> Int]  BY <2>1, <3>1, <3>2
    <3> QED BY <2>4, <3>2, <3>3 DEF ShowsTicker, ticker, message
  <2>6. CASE s \notin DOMAIN latest
    <3>1. ticker = Parsed(message)  BY <2>6 DEF TickerOf
    <3> HIDE DEF ticker
    <3>2. \A f \in Fields : ticker[f] = t[f]  BY <2>2, <3>1
    <3>3. ticker \in [Fields -> Int]  BY <2>1, <2>2, <2>3, <3>1
    <3> QED BY <2>4, <3>2, <3>3 DEF ShowsTicker, ticker, message
  <2> QED BY <2>5, <2>6
<1> QED BY <1>4, <1>5

\* A quote that shows the market is one the breaker knows.
LEMMA TickIsKnown ==
  ASSUME NEW q \in Quote, ShowsTicker(q.ticker, q.shown)
  PROVE  TickOf(q) \in Ticks /\ q.symbol \in Symbols /\ q.ts \in Nat
<1>1. q.shown \in Tickers /\ q.symbol \in Symbols /\ q.ts \in Nat  BY DEF Quote
<1>2. /\ q.ticker["price"] = q.shown["price"]
      /\ q.ticker["bid"] = q.shown["bid"] /\ q.ticker["ask"] = q.shown["ask"]
  BY DEF ShowsTicker, Fields
<1>3. TickOf(q) = [price |-> q.shown.price, bid |-> q.shown.bid, ask |-> q.shown.ask]
  BY <1>2 DEF TickOf
<1> QED BY <1>1, <1>3, GateAssumption

-----------------------------------------------------------------------------
(* Every step keeps the line of quotes, and the breaker's own invariant.   *)

\* Nothing is on its way at the start.
LEMMA InitGate == GateInit => GateInv
<1> SUFFICES ASSUME GateInit PROVE GateInv  OBVIOUS
<1>1. IInv  BY InitEstablishes DEF GateInit
<1>2. ClockInv /\ riskRestarts \in Nat  BY DEF GateInit, Init, ClockInv
<1>3. CacheInv  BY DEF GateInit, FeedInit, CacheInv
<1>4. Line(quoteBatch, marketData, channel, now, lastQuoteTs)
  BY EmptySound, EmptyBefore DEF GateInit, FeedInit, Line
<1> QED BY <1>1, <1>2, <1>3, <1>4 DEF GateInv

\* What the breaker keeps is outside the feed and the streams.
LEMMA BreakerUntouched ==
  ASSUME IInv, UNCHANGED <<now, breakerVars>>
  PROVE  IInv' /\ UNCHANGED vars
<1>1. UNCHANGED vars  BY DEF breakerVars, vars
<1> QED BY <1>1, NextPreserves

\* A message joins the end of the channel, stamped with the time.
LEMMA MessagePreserves ==
  ASSUME GateInv, NEW s \in Symbols, NEW t \in Tickers, TickerMessage(s, t),
         UNCHANGED <<now, breakerVars, gateVars>>
  PROVE  GateInv'
<1> DEFINE merged == TickerOf(s, Named(s, t))
           quote  == [symbol |-> s, ticker |-> merged, ts |-> now, shown |-> t]
<1>1. merged \in [Fields -> Int] /\ ShowsTicker(merged, t)
  BY MergedShows DEF GateInv
<1>2. /\ latest' = With(latest, s, merged) /\ showing' = With(showing, s, t)
      /\ channel' = IF Len(channel) < ChannelSize THEN Append(channel, quote) ELSE channel
  BY DEF TickerMessage, Caches, Offers
<1>3. /\ marketData' = marketData /\ quoteBatch' = quoteBatch /\ riskRestarts' = riskRestarts
      /\ now' = now /\ lastQuoteTs' = lastQuoteTs
  BY DEF breakerVars, gateVars
<1> HIDE DEF merged
<1>4. IInv'  BY BreakerUntouched DEF GateInv
<1>5. ClockInv' /\ riskRestarts' \in Nat  BY <1>3 DEF GateInv, ClockInv
<1>6. CacheInv'
  <2>1. /\ DOMAIN latest' = DOMAIN latest \cup {s} /\ latest'[s] = merged
        /\ \A x \in DOMAIN latest : x # s => latest'[x] = latest[x]
        /\ DOMAIN showing' = DOMAIN showing \cup {s} /\ showing'[s] = t
        /\ \A x \in DOMAIN showing : x # s => showing'[x] = showing[x]
    BY <1>2 DEF With
  <2>2. CacheInv  BY DEF GateInv
  <2>3. \A x \in DOMAIN latest' : latest'[x] \in [Fields -> Int]
    BY <1>1, <2>1, <2>2 DEF CacheInv
  <2>4. ASSUME NEW x \in DOMAIN showing'
        PROVE  showing'[x] \in Tickers /\ ShowsTicker(latest'[x], showing'[x])
    <3>1. CASE x = s  BY <1>1, <2>1, <3>1
    <3>2. CASE x # s
      <4>1. x \in DOMAIN showing /\ x \in DOMAIN latest
        BY <2>1, <2>2, <3>2 DEF CacheInv
      <4>2. latest'[x] = latest[x] /\ showing'[x] = showing[x]  BY <2>1, <3>2, <4>1
      <4> QED BY <2>2, <4>1, <4>2 DEF CacheInv
    <3> QED BY <3>1, <3>2
  <2> QED BY <2>1, <2>2, <2>3, <2>4 DEF CacheInv
<1>7. /\ Sound(quoteBatch, now, lastQuoteTs) /\ Sound(marketData, now, lastQuoteTs)
      /\ Sound(channel, now, lastQuoteTs)
      /\ Before(quoteBatch, marketData) /\ Before(quoteBatch, channel)
      /\ Before(marketData, channel)
  BY DEF GateInv, Line
<1>8. /\ now \in Nat \ {0} /\ now \in 1..now /\ lastQuoteTs \in [Symbols -> 0..now]
  BY DEF GateInv, IInv, TypeOK
<1>9. quote \in Quote  BY <1>1, <1>8 DEF Quote
<1>10. Good(quote, now, lastQuoteTs)
  <2>1. \A x \in Symbols : lastQuoteTs[x] <= now  BY <1>8
  <2> QED BY <1>1, <1>8, <2>1 DEF Good
<1>11. ASSUME NEW v, Sound(v, now, lastQuoteTs)
       PROVE  \A n \in DOMAIN v : v[n].ts <= now
  BY <1>8, <1>11 DEF Sound, Good
<1>12. \A n \in DOMAIN channel : channel[n].ts <= quote.ts  BY <1>7, <1>11
<1>13. quote.ts = now  OBVIOUS
<1> HIDE DEF quote
<1>14. Line(quoteBatch, marketData, channel', now, lastQuoteTs)
  <2>1. CASE channel' = channel  BY <1>7, <2>1 DEF Line
  <2>2. CASE channel' = Append(channel, quote)
    <3>1. /\ Sound(channel', now, lastQuoteTs)
          /\ \A n \in DOMAIN channel' :
               (n \in DOMAIN channel /\ channel'[n] = channel[n]) \/ channel'[n] = quote
      BY <1>7, <1>9, <1>10, <1>12, <2>2, AppendSound
    <3>2. Before(quoteBatch, channel') /\ Before(marketData, channel')
      BY <1>7, <1>11, <1>13, <3>1 DEF Before
    <3> QED BY <1>7, <3>1, <3>2 DEF Line
  <2> QED BY <1>2, <2>1, <2>2
<1>15. Line(quoteBatch, marketData, channel, now, lastQuoteTs)'
  BY <1>3, <1>14
<1> QED BY <1>4, <1>5, <1>6, <1>15 DEF GateInv

\* A poll changes no more of the cache than the rate, which may be a settled one.
LEMMA PollPreserves ==
  ASSUME CacheInv, NEW s \in Symbols, NEW r \in SettledRates, PollFundingRate(s, r)
  PROVE  CacheInv' /\ UNCHANGED channel
<1>1. /\ s \in DOMAIN latest /\ latest' = [latest EXCEPT ![s].rate = r]
      /\ showing' = showing /\ channel' = channel /\ r \in Int
  BY FeedAssumption DEF PollFundingRate, linkVars
<1>2. latest[s] \in [Fields -> Int]  BY <1>1 DEF CacheInv
<1>3. /\ DOMAIN latest' = DOMAIN latest
      /\ \A x \in DOMAIN latest : x # s => latest'[x] = latest[x]
      /\ latest'[s] = [latest[s] EXCEPT !["rate"] = r]
  BY <1>1
<1>4. /\ latest'[s] \in [Fields -> Int] /\ latest'[s]["rate"] = r
      /\ \A f \in Fields \ {"rate"} : latest'[s][f] = latest[s][f]
  BY <1>1, <1>2, <1>3 DEF Fields
<1>5. ASSUME NEW x \in DOMAIN showing
      PROVE  showing[x] \in Tickers /\ ShowsTicker(latest'[x], showing[x])
  <2>1. CASE x = s  BY <1>4, <2>1 DEF CacheInv, ShowsTicker
  <2>2. CASE x # s  BY <1>3, <2>2 DEF CacheInv
  <2> QED BY <2>1, <2>2
<1> QED BY <1>1, <1>3, <1>4, <1>5 DEF CacheInv

\* Losing the connection, or the process, forgets what was shown.
LEMMA FeedPreserves == GateInv /\ Feed => GateInv' /\ UNCHANGED vars
<1> SUFFICES ASSUME GateInv, Feed PROVE GateInv' /\ UNCHANGED vars  OBVIOUS
<1>1. FeedStep /\ UNCHANGED <<now, breakerVars, gateVars>>  BY DEF Feed
<1>2. IInv' /\ UNCHANGED vars  BY <1>1, BreakerUntouched DEF GateInv
<1>3. /\ marketData' = marketData /\ quoteBatch' = quoteBatch /\ riskRestarts' = riskRestarts
      /\ now' = now /\ lastQuoteTs' = lastQuoteTs
  BY <1>1 DEF breakerVars, gateVars
<1>4. ASSUME CacheInv', channel' = channel \/ channel' = << >> PROVE GateInv'
  <2>1. Line(quoteBatch, marketData, channel', now, lastQuoteTs)
    BY <1>4, EmptySound, EmptyBefore DEF GateInv, Line
  <2>2. Line(quoteBatch, marketData, channel, now, lastQuoteTs)'  BY <1>3, <2>1
  <2>3. ClockInv' /\ riskRestarts' \in Nat  BY <1>3 DEF GateInv, ClockInv
  <2> QED BY <1>2, <1>4, <2>2, <2>3 DEF GateInv
<1>5. ASSUME NEW s \in Symbols, NEW t \in Tickers, TickerMessage(s, t) PROVE GateInv'
  BY <1>1, <1>5, MessagePreserves
<1>6. ASSUME NEW s \in Symbols, NEW r \in SettledRates, PollFundingRate(s, r) PROVE GateInv'
  BY <1>4, <1>6, PollPreserves DEF GateInv
<1>7. ASSUME latest' = latest, channel' = channel,
             showing' = showing \/ showing' = << >>
      PROVE  GateInv'
  <2>1. CacheInv'  BY <1>7 DEF GateInv, CacheInv
  <2> QED BY <1>4, <1>7, <2>1
<1>8. CASE Disconnect \/ DialFails  BY <1>2, <1>7, <1>8 DEF Disconnect, DialFails, Retries
<1>9. CASE Connect  BY <1>2, <1>7, <1>9 DEF Connect
<1>10. CASE RestartFeed
  <2>1. latest' = << >> /\ showing' = << >> /\ channel' = << >>
    BY <1>10 DEF RestartFeed
  <2>2. CacheInv'  BY <2>1 DEF CacheInv
  <2> QED BY <1>2, <1>4, <2>1, <2>2
<1> QED BY <1>1, <1>2, <1>5, <1>6, <1>8, <1>9, <1>10 DEF FeedStep

\* The loop moves the head of the channel to the end of the stream, or loses it.
LEMMA PublishPreserves ==
  ASSUME GateInv, NEW published \in BOOLEAN, PublishQuote(published)
  PROVE  GateInv' /\ UNCHANGED vars
<1> DEFINE q == Head(channel)
<1>1. /\ channel # << >> /\ channel' = Tail(channel)
      /\ marketData' = marketData \/ marketData' = Append(marketData, q)
      /\ latest' = latest /\ showing' = showing
      /\ quoteBatch' = quoteBatch /\ riskRestarts' = riskRestarts
      /\ now' = now /\ lastQuoteTs' = lastQuoteTs
  BY DEF PublishQuote, TakeQuote, linkVars, breakerVars
<1>2. UNCHANGED <<now, breakerVars>>  BY DEF PublishQuote
<1>3. IInv' /\ UNCHANGED vars  BY <1>2, BreakerUntouched DEF GateInv
<1>4. ClockInv' /\ riskRestarts' \in Nat /\ CacheInv'
  BY <1>1 DEF GateInv, ClockInv, CacheInv
<1>5. /\ Sound(quoteBatch, now, lastQuoteTs) /\ Sound(marketData, now, lastQuoteTs)
      /\ Sound(channel, now, lastQuoteTs)
      /\ Before(quoteBatch, marketData) /\ Before(quoteBatch, channel)
      /\ Before(marketData, channel)
  BY DEF GateInv, Line
<1>6. /\ q = channel[1] /\ 1 \in DOMAIN channel /\ q \in Quote
      /\ Good(q, now, lastQuoteTs) /\ Sound(channel', now, lastQuoteTs)
      /\ \A n \in DOMAIN channel : q.ts <= channel[n].ts
      /\ \A n \in DOMAIN channel' : n + 1 \in DOMAIN channel /\ channel'[n] = channel[n + 1]
  BY <1>1, <1>5, TailSound
<1> HIDE DEF q
<1>7. Before(quoteBatch, channel') /\ Before(marketData, channel')
  BY <1>5, <1>6 DEF Before
<1>8. Line(quoteBatch, marketData', channel', now, lastQuoteTs)
  <2>1. CASE marketData' = marketData  BY <1>5, <1>6, <1>7, <2>1 DEF Line
  <2>2. CASE marketData' = Append(marketData, q)
    <3>1. \A n \in DOMAIN marketData : marketData[n].ts <= q.ts
      BY <1>5, <1>6 DEF Before
    <3>2. /\ Sound(marketData', now, lastQuoteTs)
          /\ \A n \in DOMAIN marketData' :
               \/ n \in DOMAIN marketData /\ marketData'[n] = marketData[n]
               \/ marketData'[n] = q
      BY <1>5, <1>6, <2>2, <3>1, AppendSound
    <3>3. Before(quoteBatch, marketData')  BY <1>5, <1>6, <3>2 DEF Before
    <3>4. Before(marketData', channel')  BY <1>6, <1>7, <3>2 DEF Before
    <3> QED BY <1>5, <1>6, <1>7, <3>2, <3>3, <3>4 DEF Line
  <2> QED BY <1>1, <2>1, <2>2
<1>9. Line(quoteBatch, marketData, channel, now, lastQuoteTs)'  BY <1>1, <1>8
<1> QED BY <1>3, <1>4, <1>9 DEF GateInv

\* A batch is the front of the stream.
LEMMA ReadPreserves ==
  ASSUME GateInv, ReadQuotes
  PROVE  GateInv' /\ UNCHANGED vars
<1> DEFINE k == IF Len(marketData) < ReadBatch THEN Len(marketData) ELSE ReadBatch
<1>1. /\ k > 0
      /\ quoteBatch' = SubSeq(marketData, 1, k)
      /\ marketData' = SubSeq(marketData, k + 1, Len(marketData))
      /\ UNCHANGED <<now, feedVars, breakerVars, breakerKey, riskRestarts>>
  BY DEF ReadQuotes
<1>2. /\ latest' = latest /\ showing' = showing /\ channel' = channel
      /\ riskRestarts' = riskRestarts /\ now' = now /\ lastQuoteTs' = lastQuoteTs
  BY <1>1 DEF feedVars, linkVars, breakerVars
<1>3. IInv' /\ UNCHANGED vars  BY <1>1, BreakerUntouched DEF GateInv
<1>4. ClockInv' /\ riskRestarts' \in Nat /\ CacheInv'
  BY <1>2 DEF GateInv, ClockInv, CacheInv
<1>5. /\ Sound(marketData, now, lastQuoteTs) /\ Sound(channel, now, lastQuoteTs)
      /\ Before(marketData, channel)
  BY DEF GateInv, Line
<1>6. k \in 1..Len(marketData)
  <2>1. Len(marketData) \in Nat /\ ReadBatch \in Nat
    BY <1>5, GateAssumption DEF Sound
  <2> QED BY <1>1, <2>1
<1> HIDE DEF k
<1>7. /\ Sound(quoteBatch', now, lastQuoteTs) /\ Sound(marketData', now, lastQuoteTs)
      /\ Before(quoteBatch', marketData')
      /\ \A n \in DOMAIN quoteBatch' :
           n \in DOMAIN marketData /\ quoteBatch'[n] = marketData[n]
      /\ \A n \in DOMAIN marketData' :
           n + k \in DOMAIN marketData /\ marketData'[n] = marketData[n + k]
  BY <1>1, <1>5, <1>6, CutSound
<1>8. Before(quoteBatch', channel) /\ Before(marketData', channel)
  BY <1>5, <1>7 DEF Before
<1>9. Line(quoteBatch', marketData', channel, now, lastQuoteTs)
  BY <1>5, <1>7, <1>8 DEF Line
<1>10. Line(quoteBatch, marketData, channel, now, lastQuoteTs)'  BY <1>2, <1>9
<1> QED BY <1>3, <1>4, <1>10 DEF GateInv

\* The head of the batch is a quote that the breaker may be given: a known
\* tick, not older than the last and not ahead of the clock.
LEMMA RecordPreserves ==
  ASSUME GateInv, RecordNext
  PROVE  GateInv' /\ Next
<1> DEFINE q == Head(quoteBatch)
<1>1. /\ quoteBatch # << >> /\ quoteBatch' = Tail(quoteBatch)
      /\ RecordQuote(q.symbol, TickOf(q), q.ts)
      /\ UNCHANGED <<feedVars, marketData, breakerKey, riskRestarts>>
  BY DEF RecordNext
<1>2. /\ latest' = latest /\ showing' = showing /\ channel' = channel
      /\ marketData' = marketData /\ riskRestarts' = riskRestarts
      /\ now' = now /\ lastQuoteTs' = [lastQuoteTs EXCEPT ![q.symbol] = q.ts]
  BY <1>1 DEF feedVars, linkVars, RecordQuote
<1>3. /\ Sound(quoteBatch, now, lastQuoteTs) /\ Sound(marketData, now, lastQuoteTs)
      /\ Sound(channel, now, lastQuoteTs)
      /\ Before(quoteBatch, marketData) /\ Before(quoteBatch, channel)
      /\ Before(marketData, channel)
  BY DEF GateInv, Line
<1>4. /\ q = quoteBatch[1] /\ 1 \in DOMAIN quoteBatch /\ q \in Quote
      /\ Good(q, now, lastQuoteTs) /\ Sound(quoteBatch', now, lastQuoteTs)
      /\ \A n \in DOMAIN quoteBatch : q.ts <= quoteBatch[n].ts
      /\ \A n \in DOMAIN quoteBatch' :
           n + 1 \in DOMAIN quoteBatch /\ quoteBatch'[n] = quoteBatch[n + 1]
  <2>1. quoteBatch # << >> /\ quoteBatch' = Tail(quoteBatch)  BY <1>1
  <2>2. Sound(quoteBatch, now, lastQuoteTs)  BY <1>3
  <2>3. q = quoteBatch[1]  BY <2>1, <2>2, TailSound
  <2>4. 1 \in DOMAIN quoteBatch  BY <2>1, <2>2, TailSound
  <2>5. q \in Quote  BY <2>1, <2>2, TailSound
  <2>6. Good(q, now, lastQuoteTs)  BY <2>1, <2>2, TailSound
  <2>7. Sound(quoteBatch', now, lastQuoteTs)  BY <2>1, <2>2, TailSound
  <2>8. \A n \in DOMAIN quoteBatch : q.ts <= quoteBatch[n].ts  BY <2>1, <2>2, TailSound
  <2>9. \A n \in DOMAIN quoteBatch' :
          n + 1 \in DOMAIN quoteBatch /\ quoteBatch'[n] = quoteBatch[n + 1]
    BY <2>1, <2>2, TailSound
  <2> QED BY <2>3, <2>4, <2>5, <2>6, <2>7, <2>8, <2>9
<1> HIDE DEF q
<1>5. /\ now \in Nat \ {0} /\ (now <= MaxTime \/ now = 1)
      /\ lastQuoteTs \in [Symbols -> 0..now]
  BY DEF GateInv, ClockInv, IInv, TypeOK
<1>6. TickOf(q) \in Ticks /\ q.symbol \in Symbols /\ q.ts \in Nat
  BY <1>4, TickIsKnown DEF Good
<1>7. q.ts \in Stamps(q.symbol)
  <2>1. q.ts \in 1..now /\ q.ts >= lastQuoteTs[q.symbol]
    <3>1. lastQuoteTs[q.symbol] <= q.ts /\ q.ts \in 1..now  BY <1>4, <1>6 DEF Good
    <3>2. lastQuoteTs[q.symbol] \in 0..now  BY <1>5, <1>6
    <3> QED BY <1>5, <3>1, <3>2
  <2>2. now - q.ts <= MaxDelay
    <3>1. MaxDelay \in Nat /\ MaxTime \in Nat /\ MaxDelay >= MaxTime
      BY BreakerAssumption, ClockAssumption, GateAssumption
    <3> QED BY <1>5, <2>1, <3>1
  <2> QED BY <2>1, <2>2 DEF Stamps
<1>8. Next  BY <1>1, <1>6, <1>7 DEF Next
<1>9. IInv'  BY <1>8, NextPreserves DEF GateInv
<1>10. ClockInv' /\ riskRestarts' \in Nat /\ CacheInv'
  BY <1>2 DEF GateInv, ClockInv, CacheInv
<1>11. /\ Before(quoteBatch', marketData) /\ Before(quoteBatch', channel)
  BY <1>3, <1>4 DEF Before
<1>12. ASSUME NEW v, Sound(v, now, lastQuoteTs), \A n \in DOMAIN v : q.ts <= v[n].ts
       PROVE  Sound(v, now, lastQuoteTs')
  <2>1. ASSUME NEW n \in DOMAIN v, NEW x \in Symbols PROVE lastQuoteTs'[x] <= v[n].ts
    <3>1. CASE x = q.symbol  BY <1>2, <1>5, <1>12, <3>1
    <3>2. CASE x # q.symbol
      <4>1. lastQuoteTs'[x] = lastQuoteTs[x]  BY <1>2, <1>5, <3>2
      <4> QED BY <1>12, <4>1 DEF Sound, Good
    <3> QED BY <3>1, <3>2
  <2> QED BY <1>12, <2>1 DEF Sound, Good
<1>13. Sound(quoteBatch', now, lastQuoteTs')  BY <1>4, <1>12
<1>14. Sound(marketData, now, lastQuoteTs') /\ Sound(channel, now, lastQuoteTs')
  <2>1. /\ \A n \in DOMAIN marketData : q.ts <= marketData[n].ts
        /\ \A n \in DOMAIN channel : q.ts <= channel[n].ts
    BY <1>3, <1>4 DEF Before
  <2> QED BY <1>3, <1>12, <2>1
<1>15. Line(quoteBatch', marketData, channel, now, lastQuoteTs')
  BY <1>3, <1>11, <1>13, <1>14 DEF Line
<1>16. Line(quoteBatch, marketData, channel, now, lastQuoteTs)'  BY <1>2, <1>15
<1> QED BY <1>8, <1>9, <1>10, <1>16 DEF GateInv

\* A breaker that starts again has had no quote; nothing on the way is older.
LEMMA RestartPreserves ==
  ASSUME GateInv, RestartRisk
  PROVE  GateInv' /\ riskRestarts' # riskRestarts
<1>1. /\ riskRestarts' = riskRestarts + 1 /\ quoteBatch' = << >>
      /\ samples' = [s \in Symbols |-> {}] /\ lastQuoteTs' = [s \in Symbols |-> 0]
      /\ trippedUntil' = [s \in Symbols |-> 0] /\ quotes' = [s \in Symbols |-> << >>]
      /\ now' = now /\ marketData' = marketData
      /\ latest' = latest /\ showing' = showing /\ channel' = channel
  BY DEF RestartRisk, feedVars, linkVars
<1>2. riskRestarts \in Nat /\ now \in Nat \ {0}  BY DEF GateInv, ClockInv
<1>3. ClockInv' /\ riskRestarts' \in Nat /\ CacheInv'
  BY <1>1, <1>2 DEF GateInv, ClockInv, CacheInv
<1>4. IInv'
  BY <1>1, <1>2, BreakerAssumption DEF IInv, TypeOK, Covered, TripIsLast
<1>5. /\ Sound(marketData, now, lastQuoteTs) /\ Sound(channel, now, lastQuoteTs)
      /\ Before(marketData, channel)
  BY DEF GateInv, Line
<1>6. Sound(marketData, now, lastQuoteTs') /\ Sound(channel, now, lastQuoteTs')
  <2>1. ASSUME NEW v, Sound(v, now, lastQuoteTs) PROVE Sound(v, now, lastQuoteTs')
    <3>1. \A n \in DOMAIN v, s \in Symbols : lastQuoteTs'[s] <= v[n].ts
      BY <1>1, <1>2, <2>1 DEF Sound, Good
    <3> QED BY <2>1, <3>1 DEF Sound, Good
  <2> QED BY <1>5, <2>1
<1>7. Line(quoteBatch', marketData, channel, now, lastQuoteTs')
  BY <1>1, <1>5, <1>6, EmptySound, EmptyBefore DEF Line
<1>8. Line(quoteBatch, marketData, channel, now, lastQuoteTs)'  BY <1>1, <1>7
<1> QED BY <1>1, <1>2, <1>3, <1>4, <1>8 DEF GateInv

\* Time keeps the order of what is on its way.
LEMMA ClockPreserves ==
  ASSUME GateInv, ClockTick
  PROVE  GateInv' /\ Next
<1>1. Tick /\ UNCHANGED <<feedVars, gateVars>>  BY DEF ClockTick
<1>2. Next  BY <1>1 DEF Next
<1>3. IInv'  BY <1>2, NextPreserves DEF GateInv
<1>4. /\ now \in Nat \ {0} /\ now' = now + 1 /\ now' \in Nat \ {0} /\ now' <= MaxTime
      /\ lastQuoteTs' = lastQuoteTs
  BY <1>1, ClockAssumption DEF GateInv, ClockInv, Tick
<1>5. /\ marketData' = marketData /\ quoteBatch' = quoteBatch /\ riskRestarts' = riskRestarts
      /\ latest' = latest /\ showing' = showing /\ channel' = channel
  BY <1>1 DEF feedVars, linkVars, gateVars
<1>6. ClockInv' /\ riskRestarts' \in Nat /\ CacheInv'
  BY <1>4, <1>5 DEF GateInv, ClockInv, CacheInv
<1>7. ASSUME NEW v, Sound(v, now, lastQuoteTs) PROVE Sound(v, now', lastQuoteTs)
  <2>1. \A n \in 1..now : n \in 1..now'  BY <1>4
  <2> QED BY <1>7, <2>1 DEF Sound, Good
<1>8. Line(quoteBatch, marketData, channel, now', lastQuoteTs)
  BY <1>7 DEF GateInv, Line
<1>9. Line(quoteBatch, marketData, channel, now, lastQuoteTs)'  BY <1>4, <1>5, <1>8
<1> QED BY <1>2, <1>3, <1>6, <1>9 DEF GateInv

\* Nothing happens when nothing happens.
LEMMA StutterPreserves ==
  ASSUME GateInv, UNCHANGED <<now, feedVars, breakerVars, marketData, quoteBatch, riskRestarts>>
  PROVE  GateInv' /\ UNCHANGED vars
<1>1. IInv' /\ UNCHANGED vars  BY BreakerUntouched DEF GateInv
<1>2. /\ marketData' = marketData /\ quoteBatch' = quoteBatch /\ riskRestarts' = riskRestarts
      /\ latest' = latest /\ showing' = showing /\ channel' = channel
      /\ now' = now /\ lastQuoteTs' = lastQuoteTs
  BY DEF feedVars, linkVars, breakerVars
<1>3. ClockInv' /\ riskRestarts' \in Nat /\ CacheInv'
  BY <1>2 DEF GateInv, ClockInv, CacheInv
<1>4. Line(quoteBatch, marketData, channel, now, lastQuoteTs)'  BY <1>2 DEF GateInv
<1> QED BY <1>1, <1>3, <1>4 DEF GateInv

\* Every step of the chain keeps the invariant, and is a step the breaker's own
\* specification allows, a restart, or nothing to the breaker.
LEMMA GateStep == GateInv /\ [GateNext]_allVars => GateInv' /\ [BreakerStep]_vars
<1> SUFFICES ASSUME GateInv, [GateNext]_allVars PROVE GateInv' /\ [BreakerStep]_vars
  OBVIOUS
<1>1. CASE Feed  BY <1>1, FeedPreserves
<1>2. ASSUME NEW published \in BOOLEAN, PublishQuote(published)
      PROVE  GateInv' /\ [BreakerStep]_vars
  BY <1>2, PublishPreserves
<1>3. CASE ReadQuotes  BY <1>3, ReadPreserves
<1>4. CASE RecordNext  BY <1>4, RecordPreserves DEF BreakerStep
<1>5. CASE PublishCBState  BY <1>5, StutterPreserves DEF PublishCBState
<1>6. CASE PublishBreakerState  BY <1>6, StutterPreserves DEF PublishBreakerState
<1>7. CASE RestartRisk  BY <1>7, RestartPreserves DEF BreakerStep
<1>8. CASE ClockTick  BY <1>8, ClockPreserves DEF BreakerStep
<1>9. CASE UNCHANGED allVars
  <2>1. UNCHANGED <<now, feedVars, breakerVars, marketData, quoteBatch, riskRestarts>>
    BY <1>9 DEF allVars, gateVars
  <2> QED BY <2>1, StutterPreserves
<1> QED BY <1>1, <1>2, <1>3, <1>4, <1>5, <1>6, <1>7, <1>8, <1>9 DEF GateNext, Consuming

\* The invariant of the whole chain holds throughout.
LEMMA GateInductive == GateSafety => []GateInv
<1> QED BY InitGate, GateStep, PTL DEF GateSafety

-----------------------------------------------------------------------------

\* Every quote under way and every cached ticker shows the market, however the
\* exchange's messages are merged, whatever is lost and whoever restarts.
THEOREM QuotesAreTrue == GateSafety => []QuotesShowTheMarket
<1>1. GateInv => QuotesShowTheMarket
  <2> SUFFICES ASSUME GateInv PROVE QuotesShowTheMarket  OBVIOUS
  <2> DEFINE a == quoteBatch
             b == marketData
             c == channel
  <2>1. /\ a \in Seq(Quote) /\ b \in Seq(Quote) /\ c \in Seq(Quote)
        /\ \A n \in DOMAIN a : ShowsTicker(a[n].ticker, a[n].shown)
        /\ \A n \in DOMAIN b : ShowsTicker(b[n].ticker, b[n].shown)
        /\ \A n \in DOMAIN c : ShowsTicker(c[n].ticker, c[n].shown)
    BY DEF GateInv, Line, Sound, Good
  <2> HIDE DEF a, b, c
  <2>2. ASSUME NEW v \in Seq(Quote), NEW w \in Seq(Quote), NEW n \in DOMAIN (v \o w)
        PROVE  (\E m \in DOMAIN v : (v \o w)[n] = v[m]) \/ (\E m \in DOMAIN w : (v \o w)[n] = w[m])
    <3>1. /\ Len(v) \in Nat /\ Len(w) \in Nat
          /\ DOMAIN v = 1..Len(v) /\ DOMAIN w = 1..Len(w)
          /\ n \in 1..(Len(v) + Len(w))
          /\ (v \o w)[n] = IF n <= Len(v) THEN v[n] ELSE w[n - Len(v)]
      OBVIOUS
    <3>2. CASE n <= Len(v)  BY <3>1, <3>2
    <3>3. CASE ~(n <= Len(v))
      <4>1. n - Len(v) \in 1..Len(w)  BY <3>1, <3>3
      <4> QED BY <3>1, <3>3, <4>1
    <3> QED BY <3>2, <3>3
  <2>3. a \o b \in Seq(Quote)  BY <2>1
  <2>4. \A n \in DOMAIN (a \o b) : ShowsTicker((a \o b)[n].ticker, (a \o b)[n].shown)
    BY <2>1, <2>2
  <2>5. \A n \in DOMAIN ((a \o b) \o c) :
          ShowsTicker(((a \o b) \o c)[n].ticker, ((a \o b) \o c)[n].shown)
    BY <2>1, <2>2, <2>3, <2>4
  <2>6. UnderWay = (a \o b) \o c  BY DEF UnderWay, a, b, c
  <2>7. \A s \in DOMAIN showing : ShowsTicker(latest[s], showing[s])
    BY DEF GateInv, CacheInv
  <2> QED BY <2>5, <2>6, <2>7 DEF QuotesShowTheMarket
<1> QED BY <1>1, GateInductive, PTL

\* What feed, stream and batches hand to the breaker are the quotes its own
\* specification takes for granted: known ticks in the order of their stamps,
\* none of them from the future.
THEOREM ChainDrivesBreaker == GateSafety => DrivesBreaker
<1>1. GateInit => Init  BY DEF GateInit
<1> QED BY <1>1, GateInductive, GateStep, PTL DEF GateSafety, DrivesBreaker

\* So the breaker behind the feed, too, rejects a symbol exactly with cause.
THEOREM GateOpensWithCause == GateSafety => []OpenExactlyWithCause
<1>1. IInv => OpenExactlyWithCause  BY CauseFollows
<1>2. GateInv => IInv  BY DEF GateInv
<1> QED BY <1>1, <1>2, GateInductive, PTL
==============================================================================
