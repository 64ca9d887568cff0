-------------------------- MODULE CarryTradingProofs --------------------------
(***************************************************************************)
(* What holds of the capital allocator for all percentages, notionals and  *)
(* readings, and of the allocator together with the engines that feed it.  *)
(***************************************************************************)
EXTENDS CarryTrading, SumTheorems

\* The capital an approval is judged by is never above the highest equity
\* there has been, that of the start included.
CapitalBelowPeak == MaxCapital <= peakEquity /\ InitialCapital <= peakEquity

AllocatorInv == AllocatorTypeOK /\ CapitalBelowPeak /\ WithinPeakShares

-----------------------------------------------------------------------------
(* Arithmetic.                                                             *)

\* A product grows with its factors.
LEMMA Monotone ==
  ASSUME NEW a \in Nat, NEW b \in Nat, NEW c \in Nat, a <= b
  PROVE  a * c <= b * c
  BY SMT

\* Less than what is within a bound is within it.
LEMMA SmallerWithin ==
  ASSUME NEW f \in Nat, NEW g \in Nat, NEW h \in Int, f <= g, g * 100 <= h
  PROVE  f * 100 <= h
  BY SMT

\* A sum does not grow when its terms do not.
LEMMA SmallerSum ==
  ASSUME NEW a \in Nat, NEW b \in Nat, NEW c \in Nat, NEW d \in Nat, a <= c, b <= d
  PROVE  a + b \in Nat /\ c + d \in Nat /\ a + b <= c + d
  BY SMT

\* The scale of a drawdown is a percentage.
LEMMA ScaleIsPercentage ==
  ASSUME AllocatorAssumption, AllocatorTypeOK
  PROVE  ScaleFactor \in 0..100
  BY SMT DEF ScaleFactor, AllocatorTypeOK, AllocatorAssumption

\* An amount within a scaled share of the capital is within the same share of
\* the peak.
LEMMA ShareOfPeak ==
  ASSUME AllocatorAssumption, AllocatorTypeOK, CapitalBelowPeak,
         NEW amount \in Int, NEW pct \in Nat, WithinShare(amount, pct)
  PROVE  amount * 100 <= peakEquity * pct
<1>1. MaxCapital \in Nat /\ peakEquity \in Nat
  BY SMT DEF MaxCapital, AllocatorTypeOK, AllocatorAssumption
<1>2. ScaleFactor \in Nat /\ ScaleFactor <= 100
  BY ScaleIsPercentage, SMT
<1>3. MaxCapital * pct \in Nat /\ peakEquity * pct \in Nat
  BY <1>1, SMT
<1>4. MaxCapital * pct <= peakEquity * pct
  BY <1>1, Monotone DEF CapitalBelowPeak
<1>5. (MaxCapital * pct) * ScaleFactor <= (MaxCapital * pct) * 100
  <2>1. ScaleFactor * (MaxCapital * pct) <= 100 * (MaxCapital * pct)
    BY <1>2, <1>3, Monotone
  <2>. QED  BY <2>1, <1>2, <1>3, SMT
<1>6. amount * 10000 <= (MaxCapital * pct) * ScaleFactor
  BY DEF WithinShare
<1>. DEFINE share == MaxCapital * pct
            whole == peakEquity * pct
            scaled == share * ScaleFactor
<1>7. scaled \in Int
  BY <1>2, <1>3, SMT
<1>. HIDE DEF share, whole, scaled
<1>8. share \in Nat /\ whole \in Nat /\ share <= whole
      /\ scaled <= share * 100 /\ amount * 10000 <= scaled
  BY <1>3, <1>4, <1>5, <1>6 DEF share, whole, scaled
<1>9. amount * 100 <= whole
  BY <1>7, <1>8, SMT
<1>. QED  BY <1>9 DEF whole

-----------------------------------------------------------------------------
(* The steps.                                                              *)

\* Nothing is reserved at the start, and the peak is the initial capital.
LEMMA InitHolds == ASSUME AllocatorAssumption, AllocatorInit PROVE AllocatorInv
<1>1. AllocatorTypeOK /\ CapitalBelowPeak
  BY SMT DEF AllocatorInit, AllocatorTypeOK, CapitalBelowPeak, MaxCapital, AllocatorAssumption
<1>2. WithinPeakShares
  <2>1. \A pct \in Nat : 0 <= InitialCapital * pct
    BY SMT DEF AllocatorAssumption
  <2>2. 100 - CashReservePct \in Nat
    BY SMT DEF AllocatorAssumption
  <2>. QED  BY <2>1, <2>2, SMT DEF WithinPeakShares, Deployed, AllocatorInit, AllocatorAssumption
<1>. QED  BY <1>1, <1>2 DEF AllocatorInv

\* What is judged with the intent is what is reserved with it.
LEMMA ApproveKeeps ==
  ASSUME AllocatorAssumption, AllocatorInv, NEW k \in Kinds, NEW n \in Nat, Approve(k, n)
  PROVE  AllocatorInv'
<1>. USE DEF AllocatorInv
<1>0. 100 - CashReservePct \in Nat /\ FundingMaxPct \in Nat /\ BasisMaxPct \in Nat
  BY SMT DEF AllocatorAssumption
<1>1. fundingNotional \in Nat /\ basisNotional \in Nat
  BY DEF AllocatorTypeOK
<1>2. UNCHANGED capitalVars /\ CapitalBelowPeak'
  BY DEF Approve, capitalVars, CapitalBelowPeak, MaxCapital
<1>3. fundingNotional' = fundingNotional + (IF k = "FUNDING" THEN n ELSE 0)
      /\ basisNotional' = basisNotional + (IF k = "BASIS" THEN n ELSE 0)
  BY DEF Approve, Reserve
<1>4. AllocatorTypeOK'
  BY <1>1, <1>2, <1>3, SMT DEF AllocatorTypeOK, capitalVars
<1>5. CASE k \notin {"FUNDING", "BASIS"}
  <2>1. UNCHANGED <<fundingNotional, basisNotional>>
    BY <1>1, <1>3, <1>5, SMT
  <2>. QED  BY <2>1, <1>2, <1>4 DEF WithinPeakShares, Deployed, capitalVars
<1>6. CASE k \in {"FUNDING", "BASIS"}
  <2>1. WithinStrategyCap(k, n) /\ WithinShare(Deployed + n, 100 - CashReservePct)
    BY <1>6 DEF Approve, Approves, LeavesReserve
  <2>2. Deployed + n \in Int /\ Deployed' = Deployed + n
    BY <1>1, <1>3, <1>6, SMT DEF Deployed
  <2>3. Deployed' * 100 <= peakEquity * (100 - CashReservePct)
    BY <2>1, <2>2, <1>0, ShareOfPeak
  <2>4. fundingNotional' * 100 <= peakEquity * FundingMaxPct
    <3>1. CASE k = "FUNDING"
      BY <3>1, <2>1, <1>0, <1>1, <1>3, ShareOfPeak DEF WithinStrategyCap
    <3>2. CASE k = "BASIS"
      <4>1. fundingNotional' = fundingNotional
        BY <3>2, <1>1, <1>3, SMT
      <4>. QED  BY <4>1 DEF WithinPeakShares
    <3>. QED  BY <1>6, <3>1, <3>2
  <2>5. basisNotional' * 100 <= peakEquity * BasisMaxPct
    <3>1. CASE k = "BASIS"
      BY <3>1, <2>1, <1>0, <1>1, <1>3, ShareOfPeak DEF WithinStrategyCap
    <3>2. CASE k = "FUNDING"
      <4>1. basisNotional' = basisNotional
        BY <3>2, <1>1, <1>3, SMT
      <4>. QED  BY <4>1 DEF WithinPeakShares
    <3>. QED  BY <1>6, <3>1, <3>2
  <2>6. peakEquity' = peakEquity
    BY <1>2 DEF capitalVars
  <2>. QED  BY <2>3, <2>4, <2>5, <2>6, <1>2, <1>4 DEF WithinPeakShares
<1>. QED  BY <1>5, <1>6

\* A release only lowers what is reserved, and not below zero.
LEMMA ReleaseKeeps ==
  ASSUME AllocatorAssumption, AllocatorInv, NEW k \in Kinds, NEW n \in Nat, ReleaseNotional(k, n)
  PROVE  AllocatorInv'
<1>. USE DEF AllocatorInv
<1>1. fundingNotional \in Nat /\ basisNotional \in Nat
  BY DEF AllocatorTypeOK
<1>2. UNCHANGED capitalVars /\ CapitalBelowPeak'
  BY DEF ReleaseNotional, capitalVars, CapitalBelowPeak, MaxCapital
<1>3. /\ fundingNotional' \in Nat /\ fundingNotional' <= fundingNotional
      /\ basisNotional' \in Nat /\ basisNotional' <= basisNotional
  BY <1>1, SMT DEF ReleaseNotional, Less
<1>4. AllocatorTypeOK'
  BY <1>2, <1>3 DEF AllocatorTypeOK, capitalVars
<1>. DEFINE F == peakEquity * FundingMaxPct
            B == peakEquity * BasisMaxPct
            R == peakEquity * (100 - CashReservePct)
<1>5. F \in Int /\ B \in Int /\ R \in Int
  BY SMT DEF AllocatorTypeOK, AllocatorAssumption
<1>6. fundingNotional * 100 <= F /\ basisNotional * 100 <= B
      /\ (fundingNotional + basisNotional) * 100 <= R
  BY DEF WithinPeakShares, Deployed
<1>. HIDE DEF F, B, R
<1>7. /\ fundingNotional + basisNotional \in Nat
      /\ fundingNotional' + basisNotional' \in Nat
      /\ fundingNotional' + basisNotional' <= fundingNotional + basisNotional
  BY <1>1, <1>3, SmallerSum
<1>b. fundingNotional' * 100 <= F /\ basisNotional' * 100 <= B
      /\ (fundingNotional' + basisNotional') * 100 <= R
  BY <1>1, <1>3, <1>5, <1>6, <1>7, SmallerWithin
<1>8. peakEquity' = peakEquity
  BY <1>2 DEF capitalVars
<1>9. WithinPeakShares'
  BY <1>b, <1>8 DEF WithinPeakShares, Deployed, F, B, R
<1>. QED  BY <1>2, <1>4, <1>9

\* The peak only grows, and with it every share of it.
LEMMA ReadingKeeps ==
  ASSUME AllocatorAssumption, AllocatorInv, NEW e \in Int, NEW d \in Int, UpdateEquity(e, d)
  PROVE  AllocatorInv'
<1>. USE DEF AllocatorInv
<1>1. UNCHANGED <<fundingNotional, basisNotional>>
  BY DEF UpdateEquity, reserveVars
<1>2. peakEquity \in Nat /\ peakEquity' \in Nat /\ peakEquity <= peakEquity'
  BY SMT DEF UpdateEquity, AllocatorTypeOK
<1>3. AllocatorTypeOK'
  BY <1>1, <1>2 DEF UpdateEquity, AllocatorTypeOK
<1>4. CapitalBelowPeak'
  BY <1>2, SMT DEF UpdateEquity, CapitalBelowPeak, MaxCapital, AllocatorTypeOK, AllocatorAssumption
<1>5. 100 - CashReservePct \in Nat /\ FundingMaxPct \in Nat /\ BasisMaxPct \in Nat
  BY SMT DEF AllocatorAssumption
<1>6. ASSUME NEW amount \in Nat, NEW pct \in Nat, amount * 100 <= peakEquity * pct
      PROVE  amount * 100 <= peakEquity' * pct
  <2>1. peakEquity * pct <= peakEquity' * pct
    BY <1>2, Monotone
  <2>2. peakEquity * pct \in Int /\ peakEquity' * pct \in Int
    BY <1>2, SMT
  <2>. QED  BY <1>6, <2>1, <2>2, SMT
<1>7. fundingNotional \in Nat /\ basisNotional \in Nat /\ Deployed \in Nat
  BY SMT DEF AllocatorTypeOK, Deployed
<1>8. Deployed' = Deployed
  BY <1>1 DEF Deployed
<1>9. WithinPeakShares'
  BY <1>1, <1>5, <1>6, <1>7, <1>8 DEF WithinPeakShares
<1>. QED  BY <1>3, <1>4, <1>9

-----------------------------------------------------------------------------

\* Under any sequence of approvals, releases and readings, no strategy has
\* more reserved than its share of the peak equity, nor both together more
\* than what the cash reserve leaves of it.
THEOREM ReservedWithinPeak ==
  ASSUME AllocatorAssumption PROVE AllocatorSpec => []WithinPeakShares
<1>1. AllocatorInit => AllocatorInv
  BY InitHolds
<1>2. AllocatorInv /\ [AllocatorNext]_allocatorVars => AllocatorInv'
  <2>. SUFFICES ASSUME AllocatorInv, [AllocatorNext]_allocatorVars PROVE AllocatorInv'
    OBVIOUS
  <2>1. CASE \E k \in Kinds, n \in Notionals : Approve(k, n)
    BY <2>1, ApproveKeeps DEF AllocatorAssumption
  <2>2. CASE \E k \in {"FUNDING", "BASIS"}, n \in Notionals : ReleaseNotional(k, n)
    BY <2>2, ReleaseKeeps DEF AllocatorAssumption, Kinds
  <2>3. CASE \E r \in Readings : UpdateEquity(r.equity, r.drawdown)
    BY <2>3, ReadingKeeps DEF AllocatorAssumption
  <2>4. CASE UNCHANGED allocatorVars
    BY <2>4 DEF allocatorVars, reserveVars, capitalVars, AllocatorInv, AllocatorTypeOK,
                CapitalBelowPeak, MaxCapital, WithinPeakShares, Deployed
  <2>. QED  BY <2>1, <2>2, <2>3, <2>4 DEF AllocatorNext
<1>3. AllocatorInv => WithinPeakShares
  BY DEF AllocatorInv
<1>. QED  BY <1>1, <1>2, <1>3, PTL DEF AllocatorSpec

-----------------------------------------------------------------------------
(* The queues and what is held.                                            *)

IntentSet == [strategy : Strategies, pair : PairSet, notional : Nat,
              buys : BOOLEAN, deviation : Int]

\* What is on its way to an exchange.
Pending == ToSet(intents) \cup ToSet(orders)

Weight(strategy) ==
  [i \in IntentSet |-> IF i.strategy = strategy THEN i.notional ELSE 0]

\* Ordered, of any queue; HeldFunding and HeldSpreads, of any book.
OrderedOf(q, strategy) ==
  SumFunction([n \in DOMAIN q |-> IF q[n].strategy = strategy THEN q[n].notional ELSE 0])
HeldOf(book) ==
  SumFunction([p \in PairSet |-> IF book[p] = << >> THEN 0 ELSE book[p][1].notional])

\* A book holds positions that have a notional.
Book(book) ==
  \A p \in PairSet : book[p] # << >> => book[p][1].notional \in Nat

\* The configured pairs are finitely many, of symbols that are quoted.
LEMMA PairsFinite ==
  /\ IsFiniteSet(PairSet) /\ PairSet \subseteq [primary : Symbols, hedge : Symbols]
  /\ DOMAIN CarryPairs = 1..Len(CarryPairs) /\ Len(CarryPairs) \in Nat
  /\ \A n \in DOMAIN CarryPairs : CarryPairs[n] \in PairSet
  /\ \A p \in PairSet : \E n \in DOMAIN CarryPairs : CarryPairs[n] = p
<1> DEFINE D == [primary : Symbols, hedge : Symbols]
<1>1. CarryPairs \in Seq(D)
  BY FundingAssumption
<1> HIDE DEF D
<1>2. /\ Len(CarryPairs) \in Nat /\ DOMAIN CarryPairs = 1..Len(CarryPairs)
      /\ IsFiniteSet(DOMAIN CarryPairs)
      /\ \A n \in DOMAIN CarryPairs : CarryPairs[n] \in D
  BY <1>1, SeqIndices
<1>3. PairSet = {CarryPairs[n] : n \in DOMAIN CarryPairs}
  BY DEF PairSet, ToSet
<1>4. IsFiniteSet({CarryPairs[n] : n \in DOMAIN CarryPairs})
  <2> DEFINE f == [n \in DOMAIN CarryPairs |-> CarryPairs[n]]
  <2>1. f \in Surjection(DOMAIN CarryPairs, {CarryPairs[n] : n \in DOMAIN CarryPairs})
    BY DEF Surjection
  <2> QED
    BY <1>2, <2>1, FS_Surjection
<1> QED
  BY <1>2, <1>3, <1>4 DEF D

\* What a queue holds of a strategy, and what it holds when an intent is
\* appended to it or taken off its head.
LEMMA QueueSums ==
  ASSUME NEW s, NEW q \in Seq(IntentSet)
  PROVE  /\ OrderedOf(q, s) \in Nat
         /\ \A i \in IntentSet :
              OrderedOf(Append(q, i), s) = OrderedOf(q, s) + Weight(s)[i]
         /\ q # << >> => /\ Tail(q) \in Seq(IntentSet) /\ Head(q) \in IntentSet
                         /\ OrderedOf(q, s) = Weight(s)[Head(q)] + OrderedOf(Tail(q), s)
         /\ (\A n \in DOMAIN q : q[n].strategy # s) => OrderedOf(q, s) = 0
<1> DEFINE w == Weight(s)
<1>1. w \in [IntentSet -> Int] /\ \A i \in IntentSet : w[i] >= 0
  BY DEF Weight, IntentSet
<1>2. \A r \in Seq(IntentSet) : OrderedOf(r, s) = Summed(w, r)
  <2> SUFFICES ASSUME NEW r \in Seq(IntentSet) PROVE OrderedOf(r, s) = Summed(w, r)
    OBVIOUS
  <2>1. \A n \in DOMAIN r : w[r[n]] = IF r[n].strategy = s THEN r[n].notional ELSE 0
    BY DEF Weight
  <2>2. [n \in DOMAIN r |-> w[r[n]]]
          = [n \in DOMAIN r |-> IF r[n].strategy = s THEN r[n].notional ELSE 0]
    BY <2>1
  <2> QED
    BY <2>2, Zenon DEF OrderedOf, Summed
<1>3. \A n \in DOMAIN q : q[n] \in IntentSet
  OBVIOUS
<1>4. (\A n \in DOMAIN q : q[n].strategy # s) => \A n \in DOMAIN q : w[q[n]] = 0
  BY <1>3 DEF Weight
<1> HIDE DEF w
<1>5. Summed(w, q) \in Int /\ Summed(w, q) >= 0
  BY <1>1, <1>3, SummedInt, SummedNonNegative
<1>6. \A i \in IntentSet :
        Append(q, i) \in Seq(IntentSet) /\ Summed(w, Append(q, i)) = Summed(w, q) + w[i]
  BY <1>1, SummedAppend
<1>7. q # << >> => /\ Tail(q) \in Seq(IntentSet) /\ Head(q) \in IntentSet
                   /\ Summed(w, q) = w[Head(q)] + Summed(w, Tail(q))
  BY <1>1, SummedTail
<1>8. (\A n \in DOMAIN q : q[n].strategy # s) => Summed(w, q) = 0
  BY <1>1, <1>4, SummedZero
<1>9. OrderedOf(q, s) \in Nat
  BY <1>2, <1>5
<1>10. \A i \in IntentSet : OrderedOf(Append(q, i), s) = OrderedOf(q, s) + w[i]
  BY <1>2, <1>6
<1>11. q # << >> => /\ Tail(q) \in Seq(IntentSet) /\ Head(q) \in IntentSet
                    /\ OrderedOf(q, s) = w[Head(q)] + OrderedOf(Tail(q), s)
  BY <1>2, <1>7
<1>12. (\A n \in DOMAIN q : q[n].strategy # s) => OrderedOf(q, s) = 0
  BY <1>2, <1>8
<1> QED
  BY <1>9, <1>10, <1>11, <1>12 DEF w

\* A book adds up to an amount, and equal notionals to the same.
LEMMA BookSums ==
  ASSUME NEW book, Book(book)
  PROVE  /\ HeldOf(book) \in Nat
         /\ (\A p \in PairSet : book[p] = << >>) => HeldOf(book) = 0
         /\ \A other : (\A p \in PairSet : /\ other[p] = << >> <=> book[p] = << >>
                                           /\ book[p] # << >> =>
                                                other[p][1].notional = book[p][1].notional)
                         => HeldOf(other) = HeldOf(book)
<1> DEFINE f == [p \in PairSet |-> IF book[p] = << >> THEN 0 ELSE book[p][1].notional]
<1>1. DOMAIN f = PairSet /\ \A p \in DOMAIN f : f[p] \in Nat
  BY DEF Book
<1>2. (\A p \in PairSet : book[p] = << >>) => \A p \in DOMAIN f : f[p] = 0
  OBVIOUS
<1>3. SumFunction(f) = HeldOf(book)
  BY DEF HeldOf
<1>4. \A other :
        (\A p \in PairSet : /\ other[p] = << >> <=> book[p] = << >>
                            /\ book[p] # << >> =>
                                 other[p][1].notional = book[p][1].notional)
          => [p \in PairSet |-> IF other[p] = << >> THEN 0 ELSE other[p][1].notional] = f
  OBVIOUS
<1> HIDE DEF f
<1>5. Summable(f)
  BY <1>1, PairsFinite DEF Summable
<1>6. SumFunction(f) \in Int /\ SumFunction(f) >= 0
  BY <1>1, <1>5, SumFunctionInt, SumFunctionNonNegative
<1>7. (\A p \in DOMAIN f : f[p] = 0) => SumFunction(f) = 0
  BY <1>5, SumFunctionZero DEF Summable
<1>8. HeldOf(book) \in Nat
  BY <1>3, <1>6
<1>9. (\A p \in PairSet : book[p] = << >>) => HeldOf(book) = 0
  BY <1>2, <1>3, <1>7
<1> QED
  BY <1>3, <1>4, <1>8, <1>9, Zenon DEF HeldOf

\* A position that is entered in the book adds at most its notional to it.
LEMMA BookEntry ==
  ASSUME NEW book, NEW other, Book(book), Book(other), NEW p \in PairSet,
         other[p] # << >>, \A r \in PairSet : r # p => other[r] = book[r]
  PROVE  HeldOf(other) <= HeldOf(book) + other[p][1].notional
<1> DEFINE f == [r \in PairSet |-> IF book[r] = << >> THEN 0 ELSE book[r][1].notional]
           h == [r \in PairSet |-> IF other[r] = << >> THEN 0 ELSE other[r][1].notional]
<1>1. DOMAIN f = PairSet /\ DOMAIN h = PairSet
      /\ (\A r \in PairSet : f[r] \in Nat) /\ (\A r \in PairSet : h[r] \in Nat)
  BY DEF Book
<1>2. h[p] = other[p][1].notional /\ \A r \in PairSet : r # p => h[r] = f[r]
  OBVIOUS
<1>3. SumFunction(f) = HeldOf(book) /\ SumFunction(h) = HeldOf(other)
  BY DEF HeldOf
<1> HIDE DEF f, h
<1>4. Summable(f)
  BY <1>1, PairsFinite DEF Summable
<1>5. SumFunction(h) = SumFunction(f) - f[p] + h[p]
  <2>1. p \in DOMAIN f /\ h[p] \in Int /\ DOMAIN h = DOMAIN f
        /\ \A y \in DOMAIN f : y # p => h[y] = f[y]
    BY <1>1, <1>2
  <2> QED
    BY <1>4, <2>1, SumFunctionChanged
<1>6. SumFunction(f) \in Int /\ f[p] \in Nat /\ h[p] \in Nat
  BY <1>1, <1>4, SumFunctionInt
<1>7. SumFunction(h) <= SumFunction(f) + h[p]
  BY <1>5, <1>6
<1> QED
  BY <1>2, <1>3, <1>7

-----------------------------------------------------------------------------
(* What the funding engine publishes.                                      *)

\* A set of numbers that is not empty has a smallest one.
LEMMA SmallestOf ==
  ASSUME NEW T, T \subseteq Nat, T # {}
  PROVE  \E x \in T : \A y \in T : x <= y
<1>1. PICK x \in T : \A y \in T : <<y, x>> \notin OpToRel(<, Nat)
  <2>1. IsWellFoundedOn(OpToRel(<, Nat), Nat)
    BY NatLessThanWellFounded
  <2> QED
    BY <2>1, WFMin
<1>2. \A y \in T : ~(y < x)
  BY <1>1 DEF OpToRel
<1> QED
  BY <1>2

\* The scale of the worst regime is one of the configured ones.
LEMMA WorstScaleTyped == ASSUME NEW t PROVE WorstScale(t) \in Nat
<1> DEFINE scales == {100} \cup {PositionScale(t[s]) :
                                   s \in UNION {SymbolsOf(p) : p \in PairSet}}
<1>1. \A q : PositionScale(q) \in Nat
  BY FundingAssumption DEF PositionScale
<1>2. scales \subseteq Nat /\ scales # {}
  BY <1>1
<1>3. WorstScale(t) = CHOOSE x \in scales : \A y \in scales : x <= y
  BY DEF WorstScale
<1> HIDE DEF scales
<1>4. \E x \in scales : \A y \in scales : x <= y
  BY <1>2, SmallestOf
<1> QED
  BY <1>2, <1>3, <1>4

\* So is the share of the equity that a differential is given.
LEMMA AllocationPctTyped ==
  ASSUME NEW diff \in Int PROVE AllocationPctForDiff(diff) \in Nat
<1> DEFINE T == AllocationByDiff
           fits == {n \in DOMAIN T : T[n].min <= diff /\ diff < T[n].max}
<1>1. T \in Seq([min : Int, max : Int, pct : Nat])
  BY FundingAssumption
<1> HIDE DEF T
<1>2. DOMAIN T = 1..Len(T) /\ Len(T) \in Nat /\ \A n \in DOMAIN T : T[n].pct \in Nat
  <2> DEFINE D == [min : Int, max : Int, pct : Nat]
  <2>1. \A x \in D : x.pct \in Nat
    OBVIOUS
  <2> HIDE DEF D
  <2>2. T \in Seq(D)
    BY <1>1 DEF D
  <2>3. DOMAIN T = 1..Len(T) /\ Len(T) \in Nat /\ \A n \in DOMAIN T : T[n] \in D
    BY <2>2, SeqIndices
  <2> QED
    BY <2>1, <2>3
<1>3. AllocationPctForDiff(diff) =
        CASE fits # {} -> T[CHOOSE n \in fits : \A m \in fits : n <= m].pct
          [] fits = {} /\ T # << >> /\ diff >= T[1].min -> T[1].pct
          [] OTHER -> 20
  BY DEF AllocationPctForDiff, T
<1>4. fits \subseteq DOMAIN T /\ fits \subseteq Nat
  BY <1>2
<1> HIDE DEF fits
<1>5. CASE fits # {}
  <2> DEFINE first == CHOOSE n \in fits : \A m \in fits : n <= m
  <2>1. first \in fits
    <3>1. \E n \in fits : \A m \in fits : n <= m
      BY <1>4, <1>5, SmallestOf
    <3> QED
      BY <3>1
  <2>2. AllocationPctForDiff(diff) = T[first].pct
    BY <1>3, <1>5
  <2> HIDE DEF first
  <2> QED
    BY <1>2, <1>4, <2>1, <2>2
<1>6. CASE fits = {}
  <2>1. T # << >> => 1 \in DOMAIN T
    BY <1>1, <1>2
  <2>2. AllocationPctForDiff(diff) = IF T # << >> /\ diff >= T[1].min THEN T[1].pct ELSE 20
    BY <1>3, <1>6
  <2> QED
    BY <1>2, <2>1, <2>2
<1> QED
  BY <1>5, <1>6

QuotesTyped(q) == q \in [Symbols -> Rates \cup {NoRate}]

\* The differential of a pair that is quoted is a number.
LEMMA DiffTyped ==
  ASSUME NEW q, QuotesTyped(q), NEW p \in PairSet, Quoted(q, p)
  PROVE  Diff(q, p) \in Int
<1>1. p.primary \in Symbols /\ p.hedge \in Symbols
  BY PairsFinite
<1>2. q[p.primary] \in Rates /\ q[p.hedge] \in Rates
  BY <1>1 DEF QuotesTyped, Quoted, SymbolsOf
<1>3. \A x, y \in Rates : x - y \in Int
  BY FundingAssumption
<1> QED
  BY <1>2, <1>3, Zenon DEF Diff

\* What an entry asks for is an amount.
LEMMA EntryTyped ==
  ASSUME NEW q, NEW t, NEW p \in PairSet, NEW equity \in Nat,
         QuotesTyped(q), Enters(q, t, p, equity)
  PROVE  EntryNotional(q, t, p, equity) \in Nat
<1> DEFINE pct   == AllocationPctForDiff(Diff(q, p))
           share == IF pct > MaxAllocation THEN MaxAllocation ELSE pct
           scale == WorstScale(t)
<1>1. pct \in Nat
  <2>1. Diff(q, p) \in Int
    BY DiffTyped DEF Enters
  <2> QED
    BY <2>1, AllocationPctTyped
<1>2. share \in Nat
  BY <1>1, FundingAssumption
<1>3. scale \in Nat
  BY WorstScaleTyped
<1>4. EntryNotional(q, t, p, equity) = (equity * scale * share) \div 10000
  BY DEF EntryNotional
<1>5. EntryNotional(q, t, p, equity) >= MinNotional
  BY DEF Enters
<1> HIDE DEF pct, share, scale
<1>6. equity * scale * share \in Int
  BY <1>2, <1>3
<1>7. (equity * scale * share) \div 10000 \in Int
  BY <1>6
<1> QED
  BY <1>4, <1>5, <1>7, FundingAssumption

\* The symbols that force a call are a sequence of symbols.
LEMMA CallsTyped == ASSUME NEW t PROVE Len(Forced(t)) \in Nat /\ Calls(t) \in Nat \ {0}
<1> DEFINE of(s) == IF ShouldExitAll(t[s]) THEN <<s>> ELSE << >>
           parts == [n \in DOMAIN CarryPairs |->
                       of(CarryPairs[n].primary) \o of(CarryPairs[n].hedge)]
<1>1. \A s \in Symbols : of(s) \in Seq(Symbols)
  OBVIOUS
<1>2. \A n \in DOMAIN CarryPairs :
        CarryPairs[n].primary \in Symbols /\ CarryPairs[n].hedge \in Symbols
  BY PairsFinite
<1>3. Forced(t) = FlattenSeq(parts)
  BY DEF Forced
<1> HIDE DEF of
<1>4. \A n \in DOMAIN CarryPairs :
        of(CarryPairs[n].primary) \o of(CarryPairs[n].hedge) \in Seq(Symbols)
  BY <1>1, <1>2
<1>5. parts \in [1..Len(CarryPairs) -> Seq(Symbols)]
  BY <1>4, PairsFinite
<1>6. parts \in Seq(Seq(Symbols))
  BY <1>5, PairsFinite
<1> HIDE DEF parts
<1>7. Forced(t) \in Seq(Symbols)
  BY <1>3, <1>6, FlattenMembers
<1> QED
  BY <1>7 DEF Calls

\* The parts of FundingIntents.
EntryPart(q, t, p, equity) ==
  IF Enters(q, t, p, equity)
  THEN <<Intent("funding", p, EntryNotional(q, t, p, equity), FALSE, 0)>> ELSE << >>
ExitPart(q, t, p, call) ==
  IF ExitPublished(q, t, p, call)
  THEN <<Intent("funding_exit", p, carry[p][1].notional, TRUE, 0)>> ELSE << >>
ExitsPart(q, t, call) ==
  FlattenSeq([n \in DOMAIN CarryPairs |-> ExitPart(q, t, CarryPairs[n], call)])
EntriesPart(q, t, equity) ==
  FlattenSeq([n \in DOMAIN CarryPairs |-> EntryPart(q, t, CarryPairs[n], equity)])
ForcedPart(q, t) == FlattenSeq([call \in 1..Len(Forced(t)) |-> ExitsPart(q, t, call)])

\* An entry is for a pair without a position, an exit for one with a position.
Opens(i)  == i.strategy = "funding" /\ carry[i.pair] = NoPosition
Closes(i) == i.strategy = "funding_exit" /\ carry[i.pair] # NoPosition

\* A sequence with a part for each pair has the intents of its parts.
LEMMA PartsOfPairs ==
  ASSUME NEW parts \in [DOMAIN CarryPairs -> Seq(IntentSet)]
  PROVE  /\ FlattenSeq(parts) \in Seq(IntentSet)
         /\ ToSet(FlattenSeq(parts)) = UNION {ToSet(parts[n]) : n \in DOMAIN CarryPairs}
<1>1. parts \in [1..Len(CarryPairs) -> Seq(IntentSet)] /\ Len(CarryPairs) \in Nat
  BY PairsFinite
<1>2. parts \in Seq(Seq(IntentSet)) /\ DOMAIN parts = DOMAIN CarryPairs
  BY <1>1
<1> QED
  BY <1>2, FlattenMembers, Zenon

\* An entry of a pair opens, an exit closes.
LEMMA EntryPartTyped ==
  ASSUME NEW q, NEW t, NEW p \in PairSet, NEW equity \in Nat, QuotesTyped(q)
  PROVE  /\ EntryPart(q, t, p, equity) \in Seq(IntentSet)
         /\ \A i \in ToSet(EntryPart(q, t, p, equity)) : i.pair = p /\ Opens(i)
<1> DEFINE i == Intent("funding", p, EntryNotional(q, t, p, equity), FALSE, 0)
<1>1. CASE Enters(q, t, p, equity)
  <2>1. EntryPart(q, t, p, equity) = <<i>>
    BY <1>1 DEF EntryPart
  <2>2. EntryNotional(q, t, p, equity) \in Nat
    BY <1>1, EntryTyped
  <2>3. i \in IntentSet /\ i.pair = p /\ i.strategy = "funding"
    BY <2>2 DEF Intent, IntentSet, Strategies
  <2>4. carry[p] = NoPosition
    BY <1>1 DEF Enters
  <2> HIDE DEF i
  <2>5. Opens(i) /\ ToSet(<<i>>) = {i} /\ <<i>> \in Seq(IntentSet)
    BY <2>3, <2>4 DEF Opens, ToSet
  <2> QED
    BY <2>1, <2>3, <2>5
<1>2. CASE ~Enters(q, t, p, equity)
  <2>1. EntryPart(q, t, p, equity) = << >>
    BY <1>2 DEF EntryPart
  <2>2. << >> \in Seq(IntentSet) /\ ToSet(<< >>) = {}
    BY DEF ToSet
  <2> QED
    BY <2>1, <2>2
<1> QED
  BY <1>1, <1>2

\* The same of an exit; one that is published is there.
LEMMA ExitPartTyped ==
  ASSUME NEW q, NEW t, NEW p \in PairSet, NEW call, Book(carry)
  PROVE  /\ ExitPart(q, t, p, call) \in Seq(IntentSet)
         /\ \A i \in ToSet(ExitPart(q, t, p, call)) : i.pair = p /\ Closes(i)
         /\ ExitPublished(q, t, p, call) => ToSet(ExitPart(q, t, p, call)) # {}
<1> DEFINE i == Intent("funding_exit", p, carry[p][1].notional, TRUE, 0)
<1>1. CASE ExitPublished(q, t, p, call)
  <2>1. ExitPart(q, t, p, call) = <<i>>
    BY <1>1 DEF ExitPart
  <2>2. carry[p] # NoPosition
    BY <1>1 DEF ExitPublished, ExitAt
  <2>3. carry[p][1].notional \in Nat
    BY <2>2 DEF Book, NoPosition
  <2>4. i \in IntentSet /\ i.pair = p /\ i.strategy = "funding_exit"
    BY <2>3 DEF Intent, IntentSet, Strategies
  <2> HIDE DEF i
  <2>5. Closes(i) /\ ToSet(<<i>>) = {i} /\ <<i>> \in Seq(IntentSet)
    BY <2>2, <2>4 DEF Closes, ToSet
  <2> QED
    BY <2>1, <2>4, <2>5
<1>2. CASE ~ExitPublished(q, t, p, call)
  <2>1. ExitPart(q, t, p, call) = << >>
    BY <1>2 DEF ExitPart
  <2>2. << >> \in Seq(IntentSet) /\ ToSet(<< >>) = {}
    BY DEF ToSet
  <2> QED
    BY <1>2, <2>1, <2>2
<1> QED
  BY <1>1, <1>2

\* All entries of an evaluation.
LEMMA EntriesPartTyped ==
  ASSUME NEW q, NEW t, NEW equity \in Nat, QuotesTyped(q)
  PROVE  /\ EntriesPart(q, t, equity) \in Seq(IntentSet)
         /\ \A i \in ToSet(EntriesPart(q, t, equity)) : Opens(i)
<1> DEFINE parts == [n \in DOMAIN CarryPairs |-> EntryPart(q, t, CarryPairs[n], equity)]
<1>1. \A n \in DOMAIN CarryPairs :
        /\ EntryPart(q, t, CarryPairs[n], equity) \in Seq(IntentSet)
        /\ \A i \in ToSet(EntryPart(q, t, CarryPairs[n], equity)) : Opens(i)
  BY EntryPartTyped, PairsFinite
<1>2. /\ parts \in [DOMAIN CarryPairs -> Seq(IntentSet)]
      /\ \A n \in DOMAIN CarryPairs : \A i \in ToSet(parts[n]) : Opens(i)
  BY <1>1
<1>3. EntriesPart(q, t, equity) = FlattenSeq(parts)
  BY DEF EntriesPart
<1> HIDE DEF parts
<1>4. /\ FlattenSeq(parts) \in Seq(IntentSet)
      /\ ToSet(FlattenSeq(parts)) = UNION {ToSet(parts[n]) : n \in DOMAIN CarryPairs}
  BY <1>2, PartsOfPairs
<1> QED
  BY <1>2, <1>3, <1>4

\* All exits one call publishes.
LEMMA ExitsPartTyped ==
  ASSUME NEW q, NEW t, NEW call, Book(carry)
  PROVE  /\ ExitsPart(q, t, call) \in Seq(IntentSet)
         /\ \A i \in ToSet(ExitsPart(q, t, call)) : Closes(i)
         /\ \A p \in PairSet : ExitPublished(q, t, p, call) =>
              \E i \in ToSet(ExitsPart(q, t, call)) : i.pair = p /\ Closes(i)
<1> DEFINE parts == [n \in DOMAIN CarryPairs |-> ExitPart(q, t, CarryPairs[n], call)]
<1>1. \A n \in DOMAIN CarryPairs :
        /\ ExitPart(q, t, CarryPairs[n], call) \in Seq(IntentSet)
        /\ \A i \in ToSet(ExitPart(q, t, CarryPairs[n], call)) :
             i.pair = CarryPairs[n] /\ Closes(i)
        /\ ExitPublished(q, t, CarryPairs[n], call) =>
             ToSet(ExitPart(q, t, CarryPairs[n], call)) # {}
  BY ExitPartTyped, PairsFinite
<1>2. /\ parts \in [DOMAIN CarryPairs -> Seq(IntentSet)]
      /\ \A n \in DOMAIN CarryPairs :
           /\ \A i \in ToSet(parts[n]) : i.pair = CarryPairs[n] /\ Closes(i)
           /\ ExitPublished(q, t, CarryPairs[n], call) => ToSet(parts[n]) # {}
  BY <1>1
<1>3. ExitsPart(q, t, call) = FlattenSeq(parts)
  BY DEF ExitsPart
<1> HIDE DEF parts
<1>4. /\ FlattenSeq(parts) \in Seq(IntentSet)
      /\ ToSet(FlattenSeq(parts)) = UNION {ToSet(parts[n]) : n \in DOMAIN CarryPairs}
  BY <1>2, PartsOfPairs
<1>5. \A i \in ToSet(FlattenSeq(parts)) : Closes(i)
  BY <1>2, <1>4
<1>6. ASSUME NEW p \in PairSet, ExitPublished(q, t, p, call)
      PROVE  \E i \in ToSet(FlattenSeq(parts)) : i.pair = p /\ Closes(i)
  <2>1. PICK n \in DOMAIN CarryPairs : CarryPairs[n] = p
    BY PairsFinite
  <2>2. ToSet(parts[n]) # {}
    BY <1>2, <1>6, <2>1
  <2>3. PICK i \in ToSet(parts[n]) : TRUE
    BY <2>2
  <2>4. i.pair = p /\ Closes(i) /\ i \in ToSet(FlattenSeq(parts))
    BY <1>2, <1>4, <2>1, <2>3
  <2> QED
    BY <2>4
<1> QED
  BY <1>3, <1>4, <1>5, <1>6, Zenon

\* All exits of the forced calls.
LEMMA ForcedPartTyped ==
  ASSUME NEW q, NEW t, Book(carry)
  PROVE  /\ ForcedPart(q, t) \in Seq(IntentSet)
         /\ \A i \in ToSet(ForcedPart(q, t)) : Closes(i)
<1> DEFINE parts == [call \in 1..Len(Forced(t)) |-> ExitsPart(q, t, call)]
<1>1. \A call \in 1..Len(Forced(t)) :
        /\ ExitsPart(q, t, call) \in Seq(IntentSet)
        /\ \A i \in ToSet(ExitsPart(q, t, call)) : Closes(i)
  BY ExitsPartTyped
<1>2. parts \in Seq(Seq(IntentSet)) /\ DOMAIN parts = 1..Len(Forced(t))
  <2>1. Len(Forced(t)) \in Nat /\ parts \in [1..Len(Forced(t)) -> Seq(IntentSet)]
    BY <1>1, CallsTyped
  <2> QED
    BY <2>1
<1>3. \A call \in DOMAIN parts : \A i \in ToSet(parts[call]) : Closes(i)
  BY <1>1
<1>4. ForcedPart(q, t) = FlattenSeq(parts)
  BY DEF ForcedPart
<1> HIDE DEF parts
<1>5. /\ FlattenSeq(parts) \in Seq(IntentSet)
      /\ ToSet(FlattenSeq(parts)) = UNION {ToSet(parts[m]) : m \in DOMAIN parts}
  BY <1>2, FlattenMembers
<1> QED
  BY <1>3, <1>4, <1>5

\* What an evaluation publishes opens positions of pairs without one and closes
\* positions that are held, and every exit its last call asks for is among it.
LEMMA FundingIntentsTyped ==
  ASSUME NEW q, NEW t, NEW equity \in Nat, QuotesTyped(q), Book(carry)
  PROVE  /\ FundingIntents(q, t, equity) \in Seq(IntentSet)
         /\ \A i \in ToSet(FundingIntents(q, t, equity)) : Opens(i) \/ Closes(i)
         /\ \A p \in PairSet : ExitPublished(q, t, p, Calls(t)) =>
              \E i \in ToSet(FundingIntents(q, t, equity)) : i.pair = p /\ Closes(i)
<1> DEFINE a == ForcedPart(q, t)
           b == EntriesPart(q, t, equity)
           c == ExitsPart(q, t, Calls(t))
<1>1. FundingIntents(q, t, equity) = (a \o b) \o c
  BY DEF FundingIntents, ForcedPart, EntriesPart, ExitsPart, EntryPart, ExitPart
<1>2. /\ a \in Seq(IntentSet) /\ b \in Seq(IntentSet) /\ c \in Seq(IntentSet)
      /\ \A i \in ToSet(a) : Closes(i)
      /\ \A i \in ToSet(b) : Opens(i)
      /\ \A i \in ToSet(c) : Closes(i)
      /\ \A p \in PairSet : ExitPublished(q, t, p, Calls(t)) =>
           \E i \in ToSet(c) : i.pair = p /\ Closes(i)
  BY ForcedPartTyped, EntriesPartTyped, ExitsPartTyped
<1> HIDE DEF a, b, c
<1> DEFINE ab == a \o b
<1>3. ab \in Seq(IntentSet) /\ ToSet(ab) = ToSet(a) \cup ToSet(b)
  BY <1>2, ConcatMembers
<1> HIDE DEF ab
<1>4. ab \o c \in Seq(IntentSet) /\ ToSet(ab \o c) = ToSet(ab) \cup ToSet(c)
  BY <1>2, <1>3, ConcatMembers
<1>5. ToSet(FundingIntents(q, t, equity)) = ToSet(a) \cup ToSet(b) \cup ToSet(c)
  BY <1>1, <1>3, <1>4 DEF ab
<1>6. FundingIntents(q, t, equity) \in Seq(IntentSet)
  BY <1>1, <1>4 DEF ab
<1> QED
  BY <1>2, <1>5, <1>6

-----------------------------------------------------------------------------
(* What the arbitrage engine publishes.                                    *)

Far(i) == /\ i.buys <=> i.deviation < 0
          /\ i.deviation >= EntryStdDev \/ i.deviation <= -EntryStdDev

\* An entry is for a pair that is flat, at a deviation as far as it takes; an
\* exit is for a position that is held, against the side it is kept with.
Spreads(i) ==
  \/ i.strategy = "basis" /\ spread[i.pair] = Flat /\ Far(i)
  \/ /\ i.strategy = "basis_exit" /\ spread[i.pair] # Flat
     /\ i.buys = ExitBuys(i.pair)

\* What an evaluation publishes of one pair.
SpreadPart(c, p) ==
  CASE SpreadExits(p, c[p]) ->
         <<Intent("basis_exit", p, spread[p][1].notional, ExitBuys(p), 0)>>
    [] SpreadEnters(p, c[p]) ->
         <<Intent("basis", p, SpreadNotional, EntryBuys(c[p]), c[p].deviation)>>
    [] OTHER -> << >>

SpreadBook ==
  \A p \in PairSet : spread[p] # Flat => spread[p][1] \in [notional : Nat, below : BOOLEAN,
                                                           age : Nat]

\* What is traded of a spread is an amount.
LEMMA SpreadNotionalTyped == SpreadNotional \in Nat
<1>1. \A m, n \in Nat : m * n \in Nat
  OBVIOUS
<1>2. \A m \in Nat : m \div 100 \in Nat
  OBVIOUS
<1> QED
  BY <1>1, <1>2, ArbAssumption DEF SpreadNotional

\* It is an entry or an exit, or nothing.
LEMMA SpreadPartTyped ==
  ASSUME NEW c \in [SpreadPairs -> Conditions], NEW p \in PairSet, SpreadBook
  PROVE  /\ SpreadPart(c, p) \in Seq(IntentSet)
         /\ \A i \in ToSet(SpreadPart(c, p)) : Spreads(i)
<1>0. c[p] \in Conditions /\ c[p].deviation \in Int
  BY TradingAssumption, ArbAssumption
<1>1. CASE SpreadExits(p, c[p])
  <2> DEFINE i == Intent("basis_exit", p, spread[p][1].notional, ExitBuys(p), 0)
  <2>1. spread[p] # Flat
    BY <1>1 DEF SpreadExits
  <2>2. spread[p][1].notional \in Nat /\ ExitBuys(p) \in BOOLEAN
    BY <2>1 DEF SpreadBook, ExitBuys
  <2>3. ~SpreadEnters(p, c[p])
    BY <2>1 DEF SpreadEnters
  <2>4. SpreadPart(c, p) = <<i>>
    BY <1>1, <2>3 DEF SpreadPart
  <2>5. i \in IntentSet /\ i.pair = p /\ i.strategy = "basis_exit" /\ i.buys = ExitBuys(p)
    BY <2>2 DEF Intent, IntentSet, Strategies
  <2> HIDE DEF i
  <2>6. Spreads(i) /\ ToSet(<<i>>) = {i} /\ <<i>> \in Seq(IntentSet)
    BY <2>1, <2>5 DEF Spreads, ToSet
  <2> QED
    BY <2>4, <2>6
<1>2. CASE SpreadEnters(p, c[p])
  <2> DEFINE i == Intent("basis", p, SpreadNotional, EntryBuys(c[p]), c[p].deviation)
  <2>1. spread[p] = Flat
    BY <1>2 DEF SpreadEnters
  <2>2. SpreadNotional \in Nat /\ EntryBuys(c[p]) \in BOOLEAN
    BY SpreadNotionalTyped DEF EntryBuys
  <2>3. ~SpreadExits(p, c[p])
    BY <2>1 DEF SpreadExits
  <2>4. SpreadPart(c, p) = <<i>>
    BY <1>2, <2>3 DEF SpreadPart
  <2>5. /\ i \in IntentSet /\ i.pair = p /\ i.strategy = "basis"
        /\ i.deviation = c[p].deviation /\ (i.buys <=> c[p].deviation < 0)
    BY <1>0, <2>2 DEF Intent, IntentSet, Strategies, EntryBuys
  <2>6. c[p].deviation >= EntryStdDev \/ c[p].deviation <= -EntryStdDev
    BY <1>0, <1>2, ArbAssumption DEF SpreadEnters, Distance
  <2> HIDE DEF i
  <2>7. Far(i)
    BY <2>5, <2>6 DEF Far
  <2>8. Spreads(i) /\ ToSet(<<i>>) = {i} /\ <<i>> \in Seq(IntentSet)
    BY <2>1, <2>5, <2>7 DEF Spreads, ToSet
  <2> QED
    BY <2>4, <2>8
<1>3. CASE ~SpreadExits(p, c[p]) /\ ~SpreadEnters(p, c[p])
  <2>1. SpreadPart(c, p) = << >>
    BY <1>3 DEF SpreadPart
  <2>2. << >> \in Seq(IntentSet) /\ ToSet(<< >>) = {}
    BY DEF ToSet
  <2> QED
    BY <2>1, <2>2
<1> QED
  BY <1>1, <1>2, <1>3

\* So is all that an evaluation publishes.
LEMMA SpreadIntentsTyped ==
  ASSUME NEW c \in [SpreadPairs -> Conditions], SpreadBook
  PROVE  /\ SpreadIntents(c) \in Seq(IntentSet)
         /\ \A i \in ToSet(SpreadIntents(c)) : Spreads(i)
<1> DEFINE parts == [n \in DOMAIN CarryPairs |-> SpreadPart(c, CarryPairs[n])]
<1>1. \A n \in DOMAIN CarryPairs :
        /\ SpreadPart(c, CarryPairs[n]) \in Seq(IntentSet)
        /\ \A i \in ToSet(SpreadPart(c, CarryPairs[n])) : Spreads(i)
  BY SpreadPartTyped, PairsFinite
<1>2. /\ parts \in [DOMAIN CarryPairs -> Seq(IntentSet)]
      /\ \A n \in DOMAIN CarryPairs : \A i \in ToSet(parts[n]) : Spreads(i)
  BY <1>1
<1>3. SpreadIntents(c) = FlattenSeq(parts)
  BY DEF SpreadIntents, SpreadPart
<1> HIDE DEF parts
<1>4. /\ FlattenSeq(parts) \in Seq(IntentSet)
      /\ ToSet(FlattenSeq(parts)) = UNION {ToSet(parts[n]) : n \in DOMAIN CarryPairs}
  BY <1>2, PartsOfPairs
<1> QED
  BY <1>2, <1>3, <1>4

-----------------------------------------------------------------------------
(* Types.                                                                  *)

CarryBook ==
  \A p \in PairSet : carry[p] # NoPosition => carry[p][1] \in [notional : Nat, cycles : Nat]

Typed ==
  /\ fundingNotional \in Nat /\ basisNotional \in Nat
  /\ QuotesTyped(quotes)
  /\ intents \in Seq(IntentSet) /\ orders \in Seq(IntentSet)
  /\ DOMAIN carry = PairSet /\ DOMAIN spread = PairSet /\ DOMAIN bought = PairSet
  /\ lowRun \in [PairSet -> Nat]
  /\ CarryBook /\ SpreadBook

\* The books of the two engines are books.
LEMMA BooksTyped == ASSUME CarryBook, SpreadBook PROVE Book(carry) /\ Book(spread)
BY DEF CarryBook, SpreadBook, Book, NoPosition, Flat

\* The elements of a queue are its head and those of its tail.
LEMMA QueueMembers ==
  ASSUME NEW q \in Seq(IntentSet)
  PROVE  /\ \A i \in IntentSet : /\ Append(q, i) \in Seq(IntentSet)
                                 /\ ToSet(Append(q, i)) = ToSet(q) \cup {i}
         /\ q # << >> => /\ Head(q) \in IntentSet /\ Tail(q) \in Seq(IntentSet)
                         /\ Head(q) \in ToSet(q) /\ ToSet(Tail(q)) \subseteq ToSet(q)
<1>1. DOMAIN q = 1..Len(q) /\ Len(q) \in Nat
  OBVIOUS
<1>2. ASSUME NEW i \in IntentSet
      PROVE  /\ Append(q, i) \in Seq(IntentSet)
             /\ ToSet(Append(q, i)) = ToSet(q) \cup {i}
  <2>1. /\ Append(q, i) \in Seq(IntentSet)
        /\ DOMAIN Append(q, i) = 1..(Len(q) + 1)
        /\ \A n \in 1..Len(q) : Append(q, i)[n] = q[n]
        /\ Append(q, i)[Len(q) + 1] = i
    OBVIOUS
  <2>2. 1..(Len(q) + 1) = 1..Len(q) \cup {Len(q) + 1}
    BY <1>1
  <2>3. \A x : x \in ToSet(Append(q, i)) <=> x \in ToSet(q) \cup {i}
    BY <1>1, <2>1, <2>2 DEF ToSet
  <2> QED
    BY <2>1, <2>3
<1>3. ASSUME q # << >>
      PROVE  /\ Head(q) \in IntentSet /\ Tail(q) \in Seq(IntentSet)
             /\ Head(q) \in ToSet(q) /\ ToSet(Tail(q)) \subseteq ToSet(q)
  <2>1. Len(q) >= 1 /\ Head(q) = q[1] /\ Head(q) \in IntentSet /\ Tail(q) \in Seq(IntentSet)
    BY <1>3
  <2>2. /\ DOMAIN Tail(q) = 1..(Len(q) - 1)
        /\ \A n \in 1..(Len(q) - 1) : Tail(q)[n] = q[n + 1] /\ n + 1 \in 1..Len(q)
    BY <1>1, <2>1
  <2>3. \A x \in ToSet(Tail(q)) : x \in ToSet(q)
    BY <1>1, <2>2 DEF ToSet
  <2> QED
    BY <1>1, <2>1, <2>3 DEF ToSet
<1> QED
  BY <1>2, <1>3

\* An evaluation of the funding engine keeps the books.
LEMMA FundingTickTyped ==
  ASSUME Typed, NEW read \in Reads, NEW e \in Equities, FundingTick(read, e)
  PROVE  /\ Typed'
         /\ \A p \in PairSet : /\ carry'[p] = NoPosition <=> carry[p] = NoPosition
                               /\ carry[p] # NoPosition =>
                                    carry'[p][1].notional = carry[p][1].notional
         /\ \A i \in ToSet(intents') : Opens(i) \/ Closes(i)
<1>1. /\ quotes' = QuotesWith(read) /\ intents' = FundingIntents(quotes', samples', e)
      /\ lowRun' = [p \in PairSet |-> LowRunAfter(quotes', p)]
      /\ carry' = [p \in PairSet |->
           IF carry[p] = NoPosition THEN NoPosition
           ELSE << [carry[p][1] EXCEPT
                      !.cycles = CyclesAfter(quotes', p, @, Calls(samples'))] >>]
      /\ UNCHANGED <<allocatorVars, arbVars, orders, bought>>
  BY DEF FundingTick, FundingEvaluation
<1>2. QuotesTyped(quotes')
  <2>1. read \in [Symbols -> Rates \cup {NoRate}] /\ QuotesTyped(quotes)
    BY TradingAssumption DEF Typed
  <2>2. QuotesTyped(QuotesWith(read))
    BY <2>1 DEF QuotesTyped, QuotesWith
  <2> QED
    BY <1>1, <2>2
<1>3. e \in Nat /\ Book(carry)
  BY TradingAssumption, BooksTyped DEF Typed
<1>4. /\ intents' \in Seq(IntentSet)
      /\ \A i \in ToSet(intents') : Opens(i) \/ Closes(i)
  BY <1>1, <1>2, <1>3, FundingIntentsTyped
<1>5. \A n \in Int : n >= 0 => UpTo(n) \in Nat
  BY FundingAssumption DEF UpTo
<1>6. lowRun' \in [PairSet -> Nat]
  <2>1. \A p \in PairSet : LowRunAfter(quotes', p) \in Nat
    BY <1>5 DEF LowRunAfter, Typed
  <2> QED
    BY <1>1, <2>1
<1>7. ASSUME NEW p \in PairSet, carry[p] # NoPosition
      PROVE  /\ carry'[p] # NoPosition
             /\ carry'[p][1] \in [notional : Nat, cycles : Nat]
             /\ carry'[p][1].notional = carry[p][1].notional
  <2> DEFINE r == carry[p][1]
             n == CyclesAfter(quotes', p, r.cycles, Calls(samples'))
  <2>1. r \in [notional : Nat, cycles : Nat]
    BY <1>7 DEF Typed, CarryBook
  <2>2. Calls(samples') \in Nat
    BY CallsTyped
  <2>3. n \in Nat
    BY <1>5, <2>1, <2>2 DEF CyclesAfter
  <2>4. carry'[p] = << [r EXCEPT !.cycles = n] >>
    BY <1>1, <1>7
  <2> HIDE DEF r, n
  <2>5. carry'[p] # << >> /\ carry'[p][1] = [r EXCEPT !.cycles = n]
    BY <2>4
  <2> QED
    BY <2>1, <2>3, <2>5 DEF r, NoPosition
<1>8. \A p \in PairSet : carry[p] = NoPosition => carry'[p] = NoPosition
  BY <1>1
<1>9. CarryBook' /\ DOMAIN carry' = PairSet
  BY <1>1, <1>7, <1>8 DEF CarryBook
<1>10. SpreadBook'
  BY <1>1 DEF SpreadBook, arbVars, Typed
<1>11. /\ fundingNotional' = fundingNotional /\ basisNotional' = basisNotional
       /\ orders' = orders /\ bought' = bought /\ spread' = spread
  BY <1>1 DEF allocatorVars, reserveVars, arbVars
<1>12. Typed'
  BY <1>2, <1>4, <1>6, <1>9, <1>10, <1>11 DEF Typed
<1> QED
  BY <1>4, <1>7, <1>8, <1>12

\* So does one of the arbitrage engine.
LEMMA ArbTickTyped ==
  ASSUME Typed, NEW c \in [SpreadPairs -> Conditions], ArbTick(c)
  PROVE  /\ Typed'
         /\ UNCHANGED <<fundingNotional, basisNotional, carry, spread, lowRun, bought, orders>>
         /\ \A i \in ToSet(intents') : Spreads(i)
<1>1. /\ intents' = SpreadIntents(c) /\ orders' = orders
      /\ fundingNotional' = fundingNotional /\ basisNotional' = basisNotional
      /\ quotes' = quotes /\ carry' = carry /\ spread' = spread
      /\ lowRun' = lowRun /\ bought' = bought
  BY DEF ArbTick, allocatorVars, reserveVars, fundingVars, arbVars, history
<1>2. /\ intents' \in Seq(IntentSet)
      /\ \A i \in ToSet(intents') : Spreads(i)
  BY <1>1, SpreadIntentsTyped DEF Typed
<1>3. CarryBook' /\ SpreadBook'
  BY <1>1 DEF CarryBook, SpreadBook, Typed
<1>4. Typed'
  BY <1>1, <1>2, <1>3 DEF Typed
<1> QED
  BY <1>1, <1>2, <1>4

\* A tick ages the spreads.
LEMMA TickTyped ==
  ASSUME Typed, Tick
  PROVE  /\ Typed'
         /\ UNCHANGED <<fundingNotional, basisNotional, carry, lowRun, bought, intents, orders>>
         /\ \A p \in PairSet : /\ spread'[p] = Flat <=> spread[p] = Flat
                               /\ spread[p] # Flat =>
                                    /\ spread'[p][1].notional = spread[p][1].notional
                                    /\ spread'[p][1].below = spread[p][1].below
<1>1. /\ spread' = [p \in PairSet |-> Aged(p)]
      /\ intents' = intents /\ orders' = orders
      /\ fundingNotional' = fundingNotional /\ basisNotional' = basisNotional
      /\ quotes' = quotes /\ carry' = carry /\ lowRun' = lowRun /\ bought' = bought
  BY DEF Tick, allocatorVars, reserveVars, history
<1>2. ASSUME NEW p \in PairSet, spread[p] # Flat
      PROVE  /\ spread'[p] # Flat
             /\ spread'[p][1] \in [notional : Nat, below : BOOLEAN, age : Nat]
             /\ spread'[p][1].notional = spread[p][1].notional
             /\ spread'[p][1].below = spread[p][1].below
  <2> DEFINE r == spread[p][1]
             n == IF r.age = MaxHold THEN r.age ELSE r.age + 1
  <2>1. r \in [notional : Nat, below : BOOLEAN, age : Nat]
    BY <1>2 DEF Typed, SpreadBook
  <2>2. n \in Nat
    BY <2>1
  <2>3. spread'[p] = << [r EXCEPT !.age = n] >>
    BY <1>1, <1>2 DEF Aged
  <2> HIDE DEF r, n
  <2>4. spread'[p] # << >> /\ spread'[p][1] = [r EXCEPT !.age = n]
    BY <2>3
  <2> QED
    BY <2>1, <2>2, <2>4 DEF r, Flat
<1>3. \A p \in PairSet : spread[p] = Flat => spread'[p] = Flat
  BY <1>1 DEF Aged
<1>4. SpreadBook' /\ DOMAIN spread' = PairSet
  BY <1>1, <1>2, <1>3 DEF SpreadBook
<1>5. CarryBook'
  BY <1>1 DEF CarryBook, Typed
<1>6. Typed'
  BY <1>1, <1>4, <1>5 DEF Typed
<1> QED
  BY <1>1, <1>2, <1>3, <1>6

\* What the allocator reserves is what it passes on.
LEMMA AllocateTyped ==
  ASSUME Typed, Allocate
  PROVE  /\ Typed' /\ Pending' \subseteq Pending
         /\ UNCHANGED <<carry, spread, lowRun, bought>>
         /\ \E i \in IntentSet :
              /\ orders' = Append(orders, i)
              /\ fundingNotional' = fundingNotional + Weight("funding")[i]
              /\ basisNotional' = basisNotional + Weight("basis")[i]
<1> DEFINE i == Head(intents)
<1>1. /\ intents # << >> /\ intents' = Tail(intents) /\ orders' = Append(orders, i)
      /\ Reserve(KindOf(i.strategy), i.notional)
      /\ quotes' = quotes /\ carry' = carry /\ spread' = spread
      /\ lowRun' = lowRun /\ bought' = bought
  BY DEF Allocate, Approve, fundingVars, arbVars, history
<1>2. /\ i \in IntentSet /\ i \in ToSet(intents)
      /\ intents' \in Seq(IntentSet) /\ ToSet(intents') \subseteq ToSet(intents)
      /\ orders' \in Seq(IntentSet) /\ ToSet(orders') = ToSet(orders) \cup {i}
  BY <1>1, QueueMembers DEF Typed
<1> HIDE DEF i
<1>3. /\ KindOf(i.strategy) = "FUNDING" <=> i.strategy = "funding"
      /\ KindOf(i.strategy) = "BASIS" <=> i.strategy = "basis"
  <2>1. i.strategy \in Strategies
    BY <1>2 DEF IntentSet
  <2> QED
    BY <2>1 DEF KindOf, Strategies
<1>4. /\ fundingNotional' = fundingNotional + Weight("funding")[i]
      /\ basisNotional' = basisNotional + Weight("basis")[i]
  BY <1>1, <1>2, <1>3 DEF Reserve, Weight
<1>5. \A s : Weight(s)[i] \in Nat
  BY <1>2 DEF Weight, IntentSet
<1>6. fundingNotional' \in Nat /\ basisNotional' \in Nat
  BY <1>4, <1>5 DEF Typed
<1>7. CarryBook' /\ SpreadBook'
  BY <1>1 DEF CarryBook, SpreadBook, Typed
<1>8. Typed'
  BY <1>1, <1>2, <1>6, <1>7 DEF Typed
<1>9. Pending' \subseteq Pending
  BY <1>2 DEF Pending
<1> QED
  BY <1>1, <1>2, <1>4, <1>8, <1>9

\* What it refuses, and what is refused to it, is gone.
LEMMA RefuseTyped ==
  ASSUME Typed, Refuse
  PROVE  /\ Typed' /\ Pending' \subseteq Pending
         /\ UNCHANGED <<carry, spread, lowRun, bought, fundingNotional, basisNotional, orders>>
<1>1. /\ intents # << >> /\ intents' = Tail(intents) /\ orders' = orders
      /\ fundingNotional' = fundingNotional /\ basisNotional' = basisNotional
      /\ quotes' = quotes /\ carry' = carry /\ spread' = spread
      /\ lowRun' = lowRun /\ bought' = bought
  BY DEF Refuse, allocatorVars, reserveVars, fundingVars, arbVars, history
<1>2. intents' \in Seq(IntentSet) /\ ToSet(intents') \subseteq ToSet(intents)
  BY <1>1, QueueMembers DEF Typed
<1>3. CarryBook' /\ SpreadBook'
  BY <1>1 DEF CarryBook, SpreadBook, Typed
<1>4. Typed'
  BY <1>1, <1>2, <1>3 DEF Typed
<1> QED
  BY <1>1, <1>2, <1>4 DEF Pending

\* The next order leaves the queue.
LEMMA NextOrderTyped ==
  ASSUME Typed, NextOrder, intents' = intents
  PROVE  /\ orders' \in Seq(IntentSet) /\ intents' \in Seq(IntentSet)
         /\ Head(orders) \in IntentSet /\ Head(orders) \in Pending
         /\ Pending' \subseteq Pending
         /\ \A s : /\ OrderedOf(orders', s) \in Nat
                   /\ OrderedOf(orders, s) = Weight(s)[Head(orders)] + OrderedOf(orders', s)
                   /\ Weight(s)[Head(orders)] \in Nat
<1>1. orders # << >> /\ orders' = Tail(orders) /\ intents' = intents
  BY DEF NextOrder
<1>2. /\ Head(orders) \in IntentSet /\ orders' \in Seq(IntentSet)
      /\ Head(orders) \in ToSet(orders) /\ ToSet(orders') \subseteq ToSet(orders)
  BY <1>1, QueueMembers DEF Typed
<1>3. \A s : OrderedOf(orders, s) = Weight(s)[Head(orders)] + OrderedOf(orders', s)
  BY <1>1, QueueSums DEF Typed
<1>4. \A s : OrderedOf(orders', s) \in Nat
  BY <1>2, QueueSums
<1>5. \A s : Weight(s)[Head(orders)] \in Nat
  BY <1>2 DEF Weight, IntentSet
<1> QED
  BY <1>1, <1>2, <1>3, <1>4, <1>5 DEF Pending, Typed

\* An order that nobody attends to changes nothing else.
LEMMA ForgottenTyped ==
  ASSUME Typed, Forgotten
  PROVE  /\ Typed'
         /\ UNCHANGED <<carry, spread, lowRun, bought, fundingNotional, basisNotional, intents>>
<1>1. /\ NextOrder /\ intents' = intents
      /\ fundingNotional' = fundingNotional /\ basisNotional' = basisNotional
      /\ quotes' = quotes /\ carry' = carry /\ spread' = spread
      /\ lowRun' = lowRun /\ bought' = bought
  BY DEF Forgotten, allocatorVars, reserveVars, fundingVars, arbVars, history
<1>2. orders' \in Seq(IntentSet) /\ intents' \in Seq(IntentSet)
  BY <1>1, NextOrderTyped
<1>3. CarryBook' /\ SpreadBook'
  BY <1>1 DEF CarryBook, SpreadBook, Typed
<1>4. Typed'
  BY <1>1, <1>2, <1>3 DEF Typed
<1> QED
  BY <1>1, <1>4

\* A carry position that is filled is entered in the book.
LEMMA FilledFundingTyped ==
  ASSUME Typed, FilledFunding
  PROVE  LET i == Head(orders) IN
         /\ Typed' /\ NextOrder /\ intents' = intents
         /\ i.strategy = "funding" /\ i.pair \in PairSet
         /\ UNCHANGED <<spread, bought, fundingNotional, basisNotional>>
         /\ carry'[i.pair] # NoPosition /\ carry'[i.pair][1].notional = i.notional
         /\ carry'[i.pair][1].cycles = 0 /\ lowRun'[i.pair] = 0
         /\ \A p \in PairSet : p # i.pair => carry'[p] = carry[p] /\ lowRun'[p] = lowRun[p]
<1> DEFINE i == Head(orders)
<1>1. /\ NextOrder /\ intents' = intents /\ i.strategy = "funding"
      /\ fundingNotional' = fundingNotional /\ basisNotional' = basisNotional
      /\ quotes' = quotes /\ spread' = spread /\ bought' = bought
      /\ carry' = [carry EXCEPT ![i.pair] = << [notional |-> i.notional, cycles |-> 0] >>]
      /\ lowRun' = [lowRun EXCEPT ![i.pair] = 0]
  BY DEF FilledFunding, ConfirmEntry, allocatorVars, reserveVars, arbVars
<1>2. i \in IntentSet /\ orders' \in Seq(IntentSet) /\ intents' \in Seq(IntentSet)
  BY <1>1, NextOrderTyped
<1> HIDE DEF i
<1>3. i.pair \in PairSet /\ i.notional \in Nat
  BY <1>2 DEF IntentSet
<1>4. DOMAIN carry = PairSet /\ lowRun \in [PairSet -> Nat] /\ CarryBook /\ SpreadBook
  BY DEF Typed
<1>5. /\ DOMAIN carry' = PairSet
      /\ carry'[i.pair] = << [notional |-> i.notional, cycles |-> 0] >>
      /\ \A p \in PairSet : p # i.pair => carry'[p] = carry[p]
  BY <1>1, <1>3, <1>4
<1>6. /\ lowRun' \in [PairSet -> Nat] /\ lowRun'[i.pair] = 0
      /\ \A p \in PairSet : p # i.pair => lowRun'[p] = lowRun[p]
  BY <1>1, <1>3, <1>4
<1>7. /\ carry'[i.pair] # NoPosition
      /\ carry'[i.pair][1] = [notional |-> i.notional, cycles |-> 0]
  BY <1>5 DEF NoPosition
<1>8. CarryBook'
  BY <1>3, <1>4, <1>5, <1>7 DEF CarryBook
<1>9. SpreadBook'
  BY <1>1, <1>4 DEF SpreadBook
<1>10. Typed'
  BY <1>1, <1>2, <1>5, <1>6, <1>8, <1>9 DEF Typed
<1> QED
  BY <1>1, <1>3, <1>5, <1>6, <1>7, <1>10 DEF i

\* One that is closed leaves it.
LEMMA FilledFundingExitTyped ==
  ASSUME Typed, FilledFundingExit
  PROVE  LET i == Head(orders) IN
         /\ Typed' /\ NextOrder /\ intents' = intents
         /\ i.strategy = "funding_exit" /\ i.pair \in PairSet
         /\ UNCHANGED <<spread, bought, lowRun, basisNotional>>
         /\ carry'[i.pair] = NoPosition
         /\ \A p \in PairSet : p # i.pair => carry'[p] = carry[p]
<1> DEFINE i == Head(orders)
<1>1. /\ NextOrder /\ intents' = intents /\ i.strategy = "funding_exit"
      /\ fundingNotional' = Less(fundingNotional, i.notional)
      /\ basisNotional' = basisNotional
      /\ quotes' = quotes /\ spread' = spread /\ bought' = bought /\ lowRun' = lowRun
      /\ carry' = [carry EXCEPT ![i.pair] = NoPosition]
  BY DEF FilledFundingExit, ConfirmExit, ReleaseNotional, arbVars, history
<1>2. i \in IntentSet /\ orders' \in Seq(IntentSet) /\ intents' \in Seq(IntentSet)
  BY <1>1, NextOrderTyped
<1> HIDE DEF i
<1>3. i.pair \in PairSet /\ i.notional \in Nat
  BY <1>2 DEF IntentSet
<1>4. /\ DOMAIN carry = PairSet /\ CarryBook /\ SpreadBook
      /\ fundingNotional \in Nat /\ basisNotional \in Nat
  BY DEF Typed
<1>5. /\ DOMAIN carry' = PairSet /\ carry'[i.pair] = NoPosition
      /\ \A p \in PairSet : p # i.pair => carry'[p] = carry[p]
  BY <1>1, <1>3, <1>4
<1>6. CarryBook' /\ SpreadBook'
  BY <1>1, <1>3, <1>4, <1>5 DEF CarryBook, SpreadBook
<1>7. fundingNotional' \in Nat /\ basisNotional' \in Nat
  BY <1>1, <1>3, <1>4 DEF Less
<1>8. Typed'
  BY <1>1, <1>2, <1>5, <1>6, <1>7 DEF Typed
<1> QED
  BY <1>1, <1>3, <1>5, <1>8 DEF i

\* A spread position that is filled is entered in its book.
LEMMA FilledSpreadTyped ==
  ASSUME Typed, NEW drift \in Drifts, FilledSpread(drift)
  PROVE  LET i == Head(orders) IN
         /\ Typed' /\ NextOrder /\ intents' = intents
         /\ i \in IntentSet /\ i.strategy = "basis" /\ i.pair \in PairSet
         /\ UNCHANGED <<carry, lowRun, fundingNotional, basisNotional>>
         /\ spread'[i.pair] # Flat /\ spread'[i.pair][1].notional = i.notional
         /\ spread'[i.pair][1].below <=> i.deviation - drift < 0
         /\ bought'[i.pair] = <<i.buys>>
         /\ \A p \in PairSet : p # i.pair => spread'[p] = spread[p] /\ bought'[p] = bought[p]
<1> DEFINE i == Head(orders)
           b == i.deviation - drift < 0
           r == [notional |-> i.notional, below |-> b, age |-> 0]
<1>1. /\ NextOrder /\ intents' = intents /\ i.strategy = "basis"
      /\ fundingNotional' = fundingNotional /\ basisNotional' = basisNotional
      /\ quotes' = quotes /\ carry' = carry /\ lowRun' = lowRun
      /\ spread' = [spread EXCEPT ![i.pair] = <<r>>]
      /\ bought' = [bought EXCEPT ![i.pair] = <<i.buys>>]
  BY DEF FilledSpread, ConfirmSpreadEntry, allocatorVars, reserveVars, fundingVars
<1>2. i \in IntentSet /\ orders' \in Seq(IntentSet) /\ intents' \in Seq(IntentSet)
  BY <1>1, NextOrderTyped
<1>3. /\ r \in [notional : Nat, below : BOOLEAN, age : Nat] /\ r.notional = i.notional
      /\ r.below <=> i.deviation - drift < 0
  <2>1. b \in BOOLEAN /\ i.notional \in Nat
    BY <1>2 DEF IntentSet
  <2> HIDE DEF b
  <2>2. r \in [notional : Nat, below : BOOLEAN, age : Nat] /\ r.notional = i.notional
        /\ r.below = b
    BY <2>1
  <2>3. r.below <=> b
    BY <2>2
  <2> QED
    BY <2>2, <2>3 DEF b
<1>4. i.pair \in PairSet
  BY <1>2 DEF IntentSet
<1> HIDE DEF i, r
<1>5. /\ DOMAIN spread = PairSet /\ DOMAIN bought = PairSet /\ CarryBook /\ SpreadBook
  BY DEF Typed
<1>6. /\ DOMAIN spread' = PairSet /\ spread'[i.pair] = <<r>>
      /\ \A p \in PairSet : p # i.pair => spread'[p] = spread[p]
  BY <1>1, <1>4, <1>5
<1>7. /\ DOMAIN bought' = PairSet /\ bought'[i.pair] = <<i.buys>>
      /\ \A p \in PairSet : p # i.pair => bought'[p] = bought[p]
  BY <1>1, <1>4, <1>5
<1>8. spread'[i.pair] # Flat /\ spread'[i.pair][1] = r
  BY <1>6 DEF Flat
<1>9. SpreadBook'
  BY <1>3, <1>5, <1>6, <1>8 DEF SpreadBook
<1>10. CarryBook'
  BY <1>1, <1>5 DEF CarryBook
<1>11. Typed'
  BY <1>1, <1>2, <1>6, <1>7, <1>9, <1>10 DEF Typed
<1>12. /\ spread'[i.pair][1].notional = i.notional
       /\ spread'[i.pair][1].below <=> i.deviation - drift < 0
  BY <1>3, <1>8
<1> QED
  BY <1>1, <1>2, <1>4, <1>6, <1>7, <1>8, <1>11, <1>12, Zenon DEF i

\* One that is closed leaves it.
LEMMA FilledSpreadExitTyped ==
  ASSUME Typed, FilledSpreadExit
  PROVE  LET i == Head(orders) IN
         /\ Typed' /\ NextOrder /\ intents' = intents
         /\ i.strategy = "basis_exit" /\ i.pair \in PairSet
         /\ UNCHANGED <<carry, lowRun, fundingNotional>>
         /\ spread'[i.pair] = Flat /\ bought'[i.pair] = << >>
         /\ \A p \in PairSet : p # i.pair => spread'[p] = spread[p] /\ bought'[p] = bought[p]
<1> DEFINE i == Head(orders)
<1>1. /\ NextOrder /\ intents' = intents /\ i.strategy = "basis_exit"
      /\ basisNotional' = Less(basisNotional, i.notional)
      /\ fundingNotional' = fundingNotional
      /\ quotes' = quotes /\ carry' = carry /\ lowRun' = lowRun
      /\ spread' = [spread EXCEPT ![i.pair] = Flat]
      /\ bought' = [bought EXCEPT ![i.pair] = << >>]
  BY DEF FilledSpreadExit, ConfirmSpreadExit, ReleaseNotional, fundingVars
<1>2. i \in IntentSet /\ orders' \in Seq(IntentSet) /\ intents' \in Seq(IntentSet)
  BY <1>1, NextOrderTyped
<1> HIDE DEF i
<1>3. i.pair \in PairSet /\ i.notional \in Nat
  BY <1>2 DEF IntentSet
<1>4. /\ DOMAIN spread = PairSet /\ DOMAIN bought = PairSet /\ CarryBook /\ SpreadBook
      /\ fundingNotional \in Nat /\ basisNotional \in Nat
  BY DEF Typed
<1>5. /\ DOMAIN spread' = PairSet /\ spread'[i.pair] = Flat
      /\ \A p \in PairSet : p # i.pair => spread'[p] = spread[p]
  BY <1>1, <1>3, <1>4
<1>6. /\ DOMAIN bought' = PairSet /\ bought'[i.pair] = << >>
      /\ \A p \in PairSet : p # i.pair => bought'[p] = bought[p]
  BY <1>1, <1>3, <1>4
<1>7. CarryBook' /\ SpreadBook'
  BY <1>1, <1>3, <1>4, <1>5 DEF CarryBook, SpreadBook
<1>8. fundingNotional' \in Nat /\ basisNotional' \in Nat
  BY <1>1, <1>3, <1>4 DEF Less
<1>9. Typed'
  BY <1>1, <1>2, <1>5, <1>6, <1>7, <1>8 DEF Typed
<1> QED
  BY <1>1, <1>3, <1>5, <1>6, <1>9 DEF i

\* A reading of the equity changes no reservation.
LEMMA ReadingTyped ==
  ASSUME Typed, NEW r \in Readings, Reading(r)
  PROVE  /\ Typed' /\ Pending' = Pending
         /\ UNCHANGED <<carry, spread, lowRun, bought, fundingNotional, basisNotional, orders>>
<1>1. /\ intents' = intents /\ orders' = orders
      /\ fundingNotional' = fundingNotional /\ basisNotional' = basisNotional
      /\ quotes' = quotes /\ carry' = carry /\ spread' = spread
      /\ lowRun' = lowRun /\ bought' = bought
  BY DEF Reading, UpdateEquity, reserveVars, fundingVars, arbVars, history
<1>2. CarryBook' /\ SpreadBook'
  BY <1>1 DEF CarryBook, SpreadBook, Typed
<1>3. Typed'
  BY <1>1, <1>2 DEF Typed
<1> QED
  BY <1>1, <1>3 DEF Pending

\* Nothing happens when nothing happens.
LEMMA StutterTyped ==
  ASSUME Typed, UNCHANGED tradingVars
  PROVE  /\ Typed' /\ Pending' = Pending
         /\ UNCHANGED <<carry, spread, lowRun, bought, fundingNotional, basisNotional, orders>>
<1>1. /\ intents' = intents /\ orders' = orders
      /\ fundingNotional' = fundingNotional /\ basisNotional' = basisNotional
      /\ quotes' = quotes /\ carry' = carry /\ spread' = spread
      /\ lowRun' = lowRun /\ bought' = bought
  BY DEF tradingVars, allocatorVars, reserveVars, fundingVars, arbVars, history
<1>2. CarryBook' /\ SpreadBook'
  BY <1>1 DEF CarryBook, SpreadBook, Typed
<1>3. Typed'
  BY <1>1, <1>2 DEF Typed
<1> QED
  BY <1>1, <1>3 DEF Pending

\* Every step keeps the types.
LEMMA TypedStep == ASSUME Typed, [Next]_tradingVars PROVE Typed'
<1>1. ASSUME NEW read \in Reads, NEW e \in Equities, FundingTick(read, e) PROVE Typed'
  BY <1>1, FundingTickTyped
<1>2. ASSUME NEW c \in [SpreadPairs -> Conditions], ArbTick(c) PROVE Typed'
  BY <1>2, ArbTickTyped
<1>3. ASSUME NEW drift \in Drifts, FilledSpread(drift) PROVE Typed'
  BY <1>3, FilledSpreadTyped
<1>4. ASSUME NEW r \in Readings, Reading(r) PROVE Typed'
  BY <1>4, ReadingTyped
<1>5. CASE Tick \/ Allocate \/ Refuse \/ Forgotten
  BY <1>5, TickTyped, AllocateTyped, RefuseTyped, ForgottenTyped
<1>6. CASE FilledFunding \/ FilledFundingExit \/ FilledSpreadExit
  BY <1>6, FilledFundingTyped, FilledFundingExitTyped, FilledSpreadExitTyped
<1>7. CASE UNCHANGED tradingVars
  BY <1>7, StutterTyped
<1> QED
  BY <1>1, <1>2, <1>3, <1>4, <1>5, <1>6, <1>7, Zenon DEF Next

\* So they hold throughout.
LEMMA TypedInit == ASSUME Init PROVE Typed
<1>1. /\ fundingNotional = 0 /\ basisNotional = 0 /\ intents = << >> /\ orders = << >>
      /\ quotes = [s \in Symbols |-> NoRate]
      /\ carry = [p \in PairSet |-> NoPosition] /\ spread = [p \in SpreadPairs |-> Flat]
      /\ lowRun = [p \in PairSet |-> 0] /\ bought = [p \in PairSet |-> << >>]
  BY DEF Init, AllocatorInit, FundingInit, ArbInit
<1>2. SpreadPairs = PairSet
  BY TradingAssumption
<1>3. QuotesTyped(quotes)
  BY <1>1 DEF QuotesTyped
<1>4. CarryBook /\ SpreadBook
  BY <1>1, <1>2 DEF CarryBook, SpreadBook
<1> QED
  BY <1>1, <1>2, <1>3, <1>4 DEF Typed

-----------------------------------------------------------------------------
(* What is pending of a pair either opens or closes.                       *)

Opposed(i, j) ==
  \/ i.strategy = "funding" /\ j.strategy = "funding_exit"
  \/ i.strategy = "basis" /\ j.strategy = "basis_exit"

OneWay == \A i, j \in Pending : i.pair = j.pair => ~Opposed(i, j)

\* What is pending is an intent.
LEMMA PendingTyped == ASSUME Typed PROVE Pending \subseteq IntentSet
BY DEF Pending, Typed, ToSet

\* An evaluation finds the queues empty.
LEMMA IdlePending == ASSUME Idle, orders' = orders PROVE Pending' = ToSet(intents')
BY DEF Idle, Pending, ToSet

\* What an evaluation publishes goes one way, and everything else only takes
\* something off the queues.
LEMMA OneWayStep == ASSUME Typed, OneWay, [Next]_tradingVars PROVE OneWay'
<1>1. ASSUME NEW read \in Reads, NEW e \in Equities, FundingTick(read, e) PROVE OneWay'
  <2>1. Idle /\ orders' = orders
    BY <1>1 DEF FundingTick
  <2>2. \A i \in Pending' : Opens(i) \/ Closes(i)
    BY <1>1, <2>1, FundingTickTyped, IdlePending
  <2> QED
    BY <2>2 DEF OneWay, Opposed, Opens, Closes
<1>2. ASSUME NEW c \in [SpreadPairs -> Conditions], ArbTick(c) PROVE OneWay'
  <2>1. Idle /\ orders' = orders
    BY <1>2 DEF ArbTick
  <2>2. \A i \in Pending' : Spreads(i)
    BY <1>2, <2>1, ArbTickTyped, IdlePending
  <2> QED
    BY <2>2 DEF OneWay, Opposed, Spreads
<1>3. CASE Pending' \subseteq Pending
  BY <1>3 DEF OneWay
<1>4. ASSUME NEW drift \in Drifts, FilledSpread(drift) PROVE Pending' \subseteq Pending
  BY <1>4, FilledSpreadTyped, NextOrderTyped
<1>5. ASSUME NEW r \in Readings, Reading(r) PROVE Pending' \subseteq Pending
  BY <1>5, ReadingTyped
<1>6. CASE Tick \/ Allocate \/ Refuse \/ Forgotten
  <2>1. CASE Tick
    BY <1>3, <2>1, TickTyped DEF Pending
  <2>2. CASE Forgotten
    BY <1>3, <2>2, NextOrderTyped DEF Forgotten
  <2> QED
    BY <1>3, <1>6, <2>1, <2>2, AllocateTyped, RefuseTyped
<1>7. CASE FilledFunding \/ FilledFundingExit \/ FilledSpreadExit
  <2>1. NextOrder /\ intents' = intents
    BY <1>7, FilledFundingTyped, FilledFundingExitTyped, FilledSpreadExitTyped
  <2> QED
    BY <1>3, <2>1, NextOrderTyped
<1>8. CASE UNCHANGED tradingVars
  BY <1>3, <1>8, StutterTyped
<1> QED
  BY <1>1, <1>2, <1>3, <1>4, <1>5, <1>6, <1>7, <1>8, Zenon DEF Next

-----------------------------------------------------------------------------
(* The sides of the spread positions.                                      *)

\* No mean moves so far between an entry and its confirmation that the spread
\* changes sides.
DriftsWithin == \A d \in Drifts : -EntryStdDev < d /\ d <= EntryStdDev

FarEntries == \A i \in Pending : i.strategy = "basis" => Far(i)

\* A position is kept with the side it was bought on.
SidesKept ==
  \A p \in PairSet : bought[p] # << >> =>
    spread[p] # Flat /\ bought[p] = <<spread[p][1].below>>

\* An exit that is pending goes against the side its position is kept with.
ExitsAgainst ==
  \A i \in Pending : i.strategy = "basis_exit" /\ bought[i.pair] # << >> =>
    i.buys = ExitBuys(i.pair)

Sides == FarEntries /\ SidesKept /\ ExitsAgainst

\* The side of an entry that is far enough from the mean outlasts the drift.
LEMMA SideOutlastsDrift ==
  ASSUME DriftsWithin, NEW i \in IntentSet, Far(i), NEW d \in Drifts
  PROVE  i.buys <=> i.deviation - d < 0
<1>1. d \in Int /\ -EntryStdDev < d /\ d <= EntryStdDev /\ EntryStdDev \in Nat
  BY TradingAssumption, ArbAssumption DEF DriftsWithin
<1>2. i.deviation \in Int
  BY DEF IntentSet
<1> QED
  BY <1>1, <1>2 DEF Far

\* Steps that take something off the queues and leave the sides alone.
LEMMA SidesUndisturbed ==
  ASSUME Typed, Sides, Typed', Pending' \subseteq Pending, bought' = bought,
         \A p \in PairSet : /\ spread'[p] = Flat <=> spread[p] = Flat
                            /\ spread[p] # Flat => spread'[p][1].below = spread[p][1].below
  PROVE  Sides'
<1>1. FarEntries'
  BY DEF Sides, FarEntries, Far
<1>2. SidesKept'
  BY DEF Sides, SidesKept
<1>3. ASSUME NEW i \in Pending', i.strategy = "basis_exit", bought'[i.pair] # << >>
      PROVE  i.buys = ExitBuys(i.pair)'
  <2>1. i \in Pending /\ i.pair \in PairSet /\ bought[i.pair] # << >>
    <3>1. i \in IntentSet
      BY DEF Pending, Typed, ToSet
    <3> QED
      BY <1>3, <3>1 DEF IntentSet
  <2>2. i.buys = ExitBuys(i.pair) /\ spread[i.pair] # Flat
    BY <1>3, <2>1 DEF Sides, ExitsAgainst, SidesKept
  <2>3. spread'[i.pair][1].below = spread[i.pair][1].below
    BY <2>1, <2>2
  <2> QED
    BY <2>2, <2>3 DEF ExitBuys
<1>4. ExitsAgainst'
  BY <1>3 DEF ExitsAgainst, ExitBuys
<1> QED
  BY <1>1, <1>2, <1>4 DEF Sides

\* An evaluation asks for exits against the sides that are kept.
LEMMA SidesAfterArbTick ==
  ASSUME Typed, Sides, NEW c \in [SpreadPairs -> Conditions], ArbTick(c)
  PROVE  Sides'
<1>1. Idle /\ orders' = orders
  BY DEF ArbTick
<1>2. \A i \in Pending' : Spreads(i)
  BY <1>1, ArbTickTyped, IdlePending
<1>3. spread' = spread /\ bought' = bought
  BY ArbTickTyped
<1>4. FarEntries'
  BY <1>2 DEF FarEntries, Spreads, Far
<1>5. SidesKept'
  BY <1>3 DEF Sides, SidesKept
<1>6. ExitsAgainst'
  BY <1>2, <1>3 DEF ExitsAgainst, Spreads, ExitBuys
<1> QED
  BY <1>4, <1>5, <1>6 DEF Sides

\* One of the funding engine asks for nothing of a spread.
LEMMA SidesAfterFundingTick ==
  ASSUME Typed, Sides, NEW read \in Reads, NEW e \in Equities, FundingTick(read, e)
  PROVE  Sides'
<1>1. Idle /\ orders' = orders /\ spread' = spread /\ bought' = bought
  BY DEF FundingTick, arbVars
<1>2. \A i \in Pending' : Opens(i) \/ Closes(i)
  BY <1>1, FundingTickTyped, IdlePending
<1>3. FarEntries'
  BY <1>2 DEF FarEntries, Opens, Closes
<1>4. SidesKept'
  BY <1>1 DEF Sides, SidesKept
<1>5. ExitsAgainst'
  BY <1>2 DEF ExitsAgainst, Opens, Closes
<1> QED
  BY <1>3, <1>4, <1>5 DEF Sides

\* A position that is filled is kept with the side of its entry: no exit of its
\* pair is pending.
LEMMA SidesAfterFill ==
  ASSUME Typed, OneWay, Sides, DriftsWithin, NEW drift \in Drifts, FilledSpread(drift)
  PROVE  Sides'
<1> DEFINE i == Head(orders)
<1>1. /\ NextOrder /\ intents' = intents /\ i \in IntentSet /\ i.strategy = "basis"
      /\ i.pair \in PairSet /\ spread'[i.pair] # Flat
      /\ spread'[i.pair][1].below <=> i.deviation - drift < 0
      /\ bought'[i.pair] = <<i.buys>>
      /\ \A p \in PairSet : p # i.pair => spread'[p] = spread[p] /\ bought'[p] = bought[p]
      /\ Typed'
  BY FilledSpreadTyped, Zenon
<1>2. i \in Pending /\ Pending' \subseteq Pending
  BY <1>1, NextOrderTyped
<1> HIDE DEF i
<1>3. i.buys <=> i.deviation - drift < 0
  <2>1. Far(i)
    BY <1>1, <1>2 DEF Sides, FarEntries
  <2> QED
    BY <1>1, <2>1, SideOutlastsDrift
<1>4. /\ spread'[i.pair][1].below \in BOOLEAN /\ i.buys \in BOOLEAN
  BY <1>1 DEF Typed, SpreadBook, IntentSet
<1>5. spread'[i.pair][1].below = i.buys
  BY <1>1, <1>3, <1>4
<1>6. FarEntries'
  BY <1>2 DEF Sides, FarEntries, Far
<1>7. SidesKept'
  <2> SUFFICES ASSUME NEW p \in PairSet, bought'[p] # << >>
               PROVE  spread'[p] # Flat /\ bought'[p] = <<spread'[p][1].below>>
    BY DEF SidesKept
  <2>1. CASE p = i.pair
    BY <1>1, <1>5, <2>1
  <2>2. CASE p # i.pair
    BY <1>1, <2>2 DEF Sides, SidesKept
  <2> QED
    BY <2>1, <2>2
<1>8. ASSUME NEW j \in Pending', j.strategy = "basis_exit", bought'[j.pair] # << >>
      PROVE  j.buys = ExitBuys(j.pair)'
  <2>1. j \in Pending /\ j \in IntentSet
    <3>1. j \in Pending
      BY <1>2
    <3> QED
      BY <3>1, PendingTyped
  <2>2. j.pair # i.pair
    BY <1>1, <1>2, <1>8, <2>1 DEF OneWay, Opposed
  <2>3. j.pair \in PairSet
    BY <2>1 DEF IntentSet
  <2>4. spread'[j.pair] = spread[j.pair] /\ bought'[j.pair] = bought[j.pair]
    BY <1>1, <2>2, <2>3
  <2> QED
    BY <1>8, <2>1, <2>4 DEF Sides, ExitsAgainst, ExitBuys
<1>9. ExitsAgainst'
  BY <1>8 DEF ExitsAgainst, ExitBuys
<1> QED
  BY <1>6, <1>7, <1>9 DEF Sides

\* A position that is closed is neither kept nor bought.
LEMMA SidesAfterExit == ASSUME Typed, Sides, FilledSpreadExit PROVE Sides'
<1> DEFINE i == Head(orders)
<1>1. /\ NextOrder /\ intents' = intents /\ i.pair \in PairSet
      /\ bought'[i.pair] = << >>
      /\ \A p \in PairSet : p # i.pair => spread'[p] = spread[p] /\ bought'[p] = bought[p]
  BY FilledSpreadExitTyped
<1>2. Pending' \subseteq Pending
  BY <1>1, NextOrderTyped
<1> HIDE DEF i
<1>3. FarEntries'
  BY <1>2 DEF Sides, FarEntries, Far
<1>4. SidesKept'
  BY <1>1 DEF Sides, SidesKept
<1>5. ASSUME NEW j \in Pending', j.strategy = "basis_exit", bought'[j.pair] # << >>
      PROVE  j.buys = ExitBuys(j.pair)'
  <2>1. j \in Pending /\ j \in IntentSet
    <3>1. j \in Pending
      BY <1>2
    <3> QED
      BY <3>1, PendingTyped
  <2>2. j.pair # i.pair
    BY <1>1, <1>5
  <2>3. j.pair \in PairSet
    BY <2>1 DEF IntentSet
  <2>4. spread'[j.pair] = spread[j.pair] /\ bought'[j.pair] = bought[j.pair]
    BY <1>1, <2>2, <2>3
  <2> QED
    BY <1>5, <2>1, <2>4 DEF Sides, ExitsAgainst, ExitBuys
<1>6. ExitsAgainst'
  BY <1>5 DEF ExitsAgainst, ExitBuys
<1> QED
  BY <1>3, <1>4, <1>6 DEF Sides

\* Every step keeps the sides.
LEMMA SidesStep ==
  ASSUME Typed, OneWay, Sides, DriftsWithin, [Next]_tradingVars PROVE Sides'
<1>0. Typed'
  BY TypedStep
<1>1. ASSUME NEW read \in Reads, NEW e \in Equities, FundingTick(read, e) PROVE Sides'
  BY <1>1, SidesAfterFundingTick
<1>2. ASSUME NEW c \in [SpreadPairs -> Conditions], ArbTick(c) PROVE Sides'
  BY <1>2, SidesAfterArbTick
<1>3. ASSUME NEW drift \in Drifts, FilledSpread(drift) PROVE Sides'
  BY <1>3, SidesAfterFill
<1>4. ASSUME NEW r \in Readings, Reading(r) PROVE Sides'
  BY <1>0, <1>4, ReadingTyped, SidesUndisturbed
<1>5. CASE Tick
  <2>1. Pending' \subseteq Pending
    BY <1>5, TickTyped DEF Pending
  <2> QED
    BY <1>0, <1>5, <2>1, TickTyped, SidesUndisturbed
<1>6. CASE Allocate \/ Refuse
  <2>1. Pending' \subseteq Pending /\ spread' = spread /\ bought' = bought
    BY <1>6, AllocateTyped, RefuseTyped
  <2> QED
    BY <1>0, <2>1, SidesUndisturbed
<1>7. CASE Forgotten \/ FilledFunding \/ FilledFundingExit
  <2>1. NextOrder /\ intents' = intents /\ spread' = spread /\ bought' = bought
    <3>1. CASE Forgotten
      BY <3>1 DEF Forgotten, arbVars, history
    <3> QED
      BY <1>7, <3>1, FilledFundingTyped, FilledFundingExitTyped
  <2>2. Pending' \subseteq Pending
    BY <2>1, NextOrderTyped
  <2> QED
    BY <1>0, <2>1, <2>2, SidesUndisturbed
<1>8. CASE FilledSpreadExit
  BY <1>8, SidesAfterExit
<1>9. CASE UNCHANGED tradingVars
  BY <1>0, <1>9, StutterTyped, SidesUndisturbed
<1> QED
  BY <1>1, <1>2, <1>3, <1>4, <1>5, <1>6, <1>7, <1>8, <1>9, Zenon DEF Next

SidesInv == Typed /\ OneWay /\ Sides

\* The exit of a spread position trades against the side it was entered on, as
\* long as no mean drifts by more than the distance of an entry while the entry
\* is being filled.
THEOREM SpreadExitsReverse ==
  ASSUME DriftsWithin PROVE Spec => []SpreadExitReversesEntry
<1>1. Init => SidesInv
  <2> SUFFICES ASSUME Init PROVE SidesInv
    OBVIOUS
  <2>1. Pending = {} /\ \A p \in PairSet : bought[p] = << >>
    BY DEF Init, Pending, ToSet
  <2> QED
    BY <2>1, TypedInit DEF SidesInv, OneWay, Sides, FarEntries, SidesKept, ExitsAgainst
<1>2. SidesInv /\ [Next]_tradingVars => SidesInv'
  BY TypedStep, OneWayStep, SidesStep DEF SidesInv
<1>3. SidesInv => SpreadExitReversesEntry
  <2> SUFFICES ASSUME SidesInv, NEW n \in DOMAIN intents,
                      intents[n].strategy = "basis_exit", bought[intents[n].pair] # << >>
               PROVE  bought[intents[n].pair] = <<~intents[n].buys>>
    BY DEF SpreadExitReversesEntry
  <2> DEFINE i == intents[n]
  <2>1. i \in Pending /\ i \in IntentSet /\ i.pair \in PairSet
    <3>1. i \in IntentSet /\ i \in Pending
      BY DEF SidesInv, Typed, Pending, ToSet
    <3> QED
      BY <3>1 DEF IntentSet
  <2> HIDE DEF i
  <2>2. i.strategy = "basis_exit" /\ bought[i.pair] # << >>
    BY DEF i
  <2>3. /\ i.buys = ~spread[i.pair][1].below
        /\ spread[i.pair] # Flat /\ bought[i.pair] = <<spread[i.pair][1].below>>
    BY <2>1, <2>2 DEF SidesInv, Sides, ExitsAgainst, SidesKept, ExitBuys
  <2>4. spread[i.pair][1].below \in BOOLEAN
    BY <2>1, <2>3 DEF SidesInv, Typed, SpreadBook
  <2>5. spread[i.pair][1].below = ~i.buys
    BY <2>3, <2>4
  <2> QED
    BY <2>3, <2>5 DEF i
<1> QED
  BY <1>1, <1>2, <1>3, PTL DEF Spec

-----------------------------------------------------------------------------
(* What is reserved covers what is held and on its way.                    *)

\* The engines trade one pair, as deployed.
OnePair == \A p, r \in PairSet : p = r

CoverInv == Typed /\ OneWay /\ ReservedCoversHeld

\* The parts of ReservedCoversHeld are sums over a queue and over a book.
LEMMA CoverParts ==
  /\ HeldFunding = HeldOf(carry) /\ HeldSpreads = HeldOf(spread)
  /\ \A s : Ordered(s) = OrderedOf(orders, s)
BY Zenon DEF HeldFunding, HeldSpreads, Ordered, HeldOf, OrderedOf, NoPosition, Flat

\* It is kept when, of each strategy, the reservation grows at least as much as
\* what is held and ordered.
LEMMA CoverKept ==
  ASSUME ReservedCoversHeld,
         NEW f \in Int, NEW b \in Int,
         fundingNotional \in Int, basisNotional \in Int,
         HeldOf(carry) \in Int, HeldOf(spread) \in Int,
         OrderedOf(orders, "funding") \in Int, OrderedOf(orders, "basis") \in Int,
         HeldOf(carry') \in Int, HeldOf(spread') \in Int,
         OrderedOf(orders', "funding") \in Int, OrderedOf(orders', "basis") \in Int,
         fundingNotional' = fundingNotional + f, basisNotional' = basisNotional + b,
         HeldOf(carry') + OrderedOf(orders', "funding")
           <= HeldOf(carry) + OrderedOf(orders, "funding") + f,
         HeldOf(spread') + OrderedOf(orders', "basis")
           <= HeldOf(spread) + OrderedOf(orders, "basis") + b
  PROVE  ReservedCoversHeld'
<1>1. /\ fundingNotional >= HeldOf(carry) + OrderedOf(orders, "funding")
      /\ basisNotional >= HeldOf(spread) + OrderedOf(orders, "basis")
  BY CoverParts DEF ReservedCoversHeld
<1>2. /\ fundingNotional' >= HeldOf(carry') + OrderedOf(orders', "funding")
      /\ basisNotional' >= HeldOf(spread') + OrderedOf(orders', "basis")
  BY <1>1
<1>3. /\ HeldFunding' = HeldOf(carry') /\ HeldSpreads' = HeldOf(spread')
      /\ Ordered("funding")' = OrderedOf(orders', "funding")
      /\ Ordered("basis")' = OrderedOf(orders', "basis")
  BY Zenon DEF HeldFunding, HeldSpreads, Ordered, HeldOf, OrderedOf, NoPosition, Flat
<1> QED
  BY <1>2, <1>3 DEF ReservedCoversHeld

\* The sums are amounts.
LEMMA SumsTyped ==
  ASSUME Typed
  PROVE  /\ HeldOf(carry) \in Nat /\ HeldOf(spread) \in Nat
         /\ \A s : OrderedOf(orders, s) \in Nat
<1>1. Book(carry) /\ Book(spread)
  BY BooksTyped DEF Typed
<1> QED
  BY <1>1, BookSums, QueueSums DEF Typed

\* So they are after a step.
LEMMA SumsTypedNext ==
  ASSUME Typed'
  PROVE  /\ Book(carry') /\ Book(spread')
         /\ HeldOf(carry') \in Nat /\ HeldOf(spread') \in Nat
         /\ \A s : OrderedOf(orders', s) \in Nat
<1>1. Book(carry') /\ Book(spread')
  BY DEF Typed, CarryBook, SpreadBook, Book, NoPosition, Flat
<1>2. orders' \in Seq(IntentSet)
  BY DEF Typed
<1> QED
  BY <1>1, <1>2, BookSums, QueueSums

\* Steps that leave reservations and orders alone and keep the notionals.
LEMMA CoverUndisturbed ==
  ASSUME Typed, Typed', ReservedCoversHeld,
         UNCHANGED <<fundingNotional, basisNotional, orders>>,
         \A p \in PairSet : /\ carry'[p] = << >> <=> carry[p] = << >>
                            /\ carry[p] # << >> =>
                                 carry'[p][1].notional = carry[p][1].notional,
         \A p \in PairSet : /\ spread'[p] = << >> <=> spread[p] = << >>
                            /\ spread[p] # << >> =>
                                 spread'[p][1].notional = spread[p][1].notional
  PROVE  ReservedCoversHeld'
<1>1. Book(carry) /\ Book(spread)
  BY BooksTyped DEF Typed
<1>2. HeldOf(carry') = HeldOf(carry)
  BY <1>1, BookSums, Zenon
<1>3. HeldOf(spread') = HeldOf(spread)
  BY <1>1, BookSums, Zenon
<1>4. orders' = orders
  OBVIOUS
<1>5. /\ HeldFunding = HeldOf(carry) /\ HeldFunding' = HeldOf(carry')
      /\ HeldSpreads = HeldOf(spread) /\ HeldSpreads' = HeldOf(spread')
      /\ Ordered("funding")' = Ordered("funding") /\ Ordered("basis")' = Ordered("basis")
  BY <1>4, Zenon DEF HeldFunding, HeldSpreads, Ordered, HeldOf, NoPosition, Flat
<1> QED
  BY <1>2, <1>3, <1>5 DEF ReservedCoversHeld

\* The evaluations, and the passing of time.
LEMMA CoverTicks ==
  ASSUME Typed, ReservedCoversHeld
  PROVE  /\ \A read \in Reads, e \in Equities :
              FundingTick(read, e) => ReservedCoversHeld'
         /\ \A c \in [SpreadPairs -> Conditions] : ArbTick(c) => ReservedCoversHeld'
         /\ Tick => ReservedCoversHeld'
<1>1. ASSUME NEW read \in Reads, NEW e \in Equities, FundingTick(read, e)
      PROVE  ReservedCoversHeld'
  <2>1. /\ UNCHANGED <<fundingNotional, basisNotional, orders>> /\ spread' = spread
    BY <1>1 DEF FundingTick, allocatorVars, reserveVars, arbVars
  <2>2. /\ Typed'
        /\ \A p \in PairSet : /\ carry'[p] = NoPosition <=> carry[p] = NoPosition
                              /\ carry[p] # NoPosition =>
                                   carry'[p][1].notional = carry[p][1].notional
    BY <1>1, FundingTickTyped
  <2> QED
    BY <2>1, <2>2, CoverUndisturbed DEF NoPosition
<1>2. ASSUME NEW c \in [SpreadPairs -> Conditions], ArbTick(c)
      PROVE  ReservedCoversHeld'
  BY <1>2, ArbTickTyped, CoverUndisturbed
<1>3. ASSUME Tick PROVE ReservedCoversHeld'
  <2>1. /\ Typed' /\ UNCHANGED <<fundingNotional, basisNotional, orders>> /\ carry' = carry
        /\ \A p \in PairSet : /\ spread'[p] = Flat <=> spread[p] = Flat
                              /\ spread[p] # Flat =>
                                   spread'[p][1].notional = spread[p][1].notional
    BY <1>3, TickTyped
  <2> QED
    BY <2>1, CoverUndisturbed DEF Flat
<1> QED
  BY <1>1, <1>2, <1>3

\* What is passed on is reserved first.
LEMMA CoverAllocate == ASSUME Typed, ReservedCoversHeld, Allocate PROVE ReservedCoversHeld'
<1>1. PICK i \in IntentSet :
        /\ orders' = Append(orders, i)
        /\ fundingNotional' = fundingNotional + Weight("funding")[i]
        /\ basisNotional' = basisNotional + Weight("basis")[i]
  BY AllocateTyped
<1>2. Typed' /\ carry' = carry /\ spread' = spread
  BY AllocateTyped
<1>3. \A s : /\ OrderedOf(orders', s) = OrderedOf(orders, s) + Weight(s)[i]
             /\ Weight(s)[i] \in Nat
  <2>1. \A s : Weight(s)[i] \in Nat
    BY DEF Weight, IntentSet
  <2> QED
    BY <1>1, <2>1, QueueSums DEF Typed
<1>4. /\ HeldOf(carry) \in Nat /\ HeldOf(spread) \in Nat
      /\ \A s : OrderedOf(orders, s) \in Nat
  BY SumsTyped
<1>5. /\ HeldOf(carry') \in Nat /\ HeldOf(spread') \in Nat
      /\ \A s : OrderedOf(orders', s) \in Nat
  BY <1>2, SumsTypedNext
<1>6. HeldOf(carry') = HeldOf(carry) /\ HeldOf(spread') = HeldOf(spread)
  BY <1>2
<1> DEFINE f == Weight("funding")[i]
           b == Weight("basis")[i]
<1>7. f \in Nat /\ b \in Nat
  BY <1>3
<1>8. /\ OrderedOf(orders', "funding") = OrderedOf(orders, "funding") + f
      /\ OrderedOf(orders', "basis") = OrderedOf(orders, "basis") + b
  BY <1>3
<1>9. fundingNotional' = fundingNotional + f /\ basisNotional' = basisNotional + b
      /\ fundingNotional \in Int /\ basisNotional \in Int
  BY <1>1 DEF Typed
<1> HIDE DEF f, b
<1>10. /\ HeldOf(carry') + OrderedOf(orders', "funding")
            <= HeldOf(carry) + OrderedOf(orders, "funding") + f
       /\ HeldOf(spread') + OrderedOf(orders', "basis")
            <= HeldOf(spread) + OrderedOf(orders, "basis") + b
  BY <1>4, <1>6, <1>7, <1>8
<1> QED
  BY <1>4, <1>5, <1>7, <1>9, <1>10, CoverKept

\* An order that leaves the queue without a fill is covered no less.
LEMMA CoverForgotten == ASSUME Typed, ReservedCoversHeld, Forgotten PROVE ReservedCoversHeld'
<1>1. Typed' /\ carry' = carry /\ spread' = spread
      /\ fundingNotional' = fundingNotional /\ basisNotional' = basisNotional
  BY ForgottenTyped
<1>2. NextOrder /\ intents' = intents
  BY DEF Forgotten
<1>3. \A s : /\ OrderedOf(orders', s) \in Nat
             /\ OrderedOf(orders, s) = Weight(s)[Head(orders)] + OrderedOf(orders', s)
             /\ Weight(s)[Head(orders)] \in Nat
  BY <1>2, NextOrderTyped
<1>4. \A s : OrderedOf(orders, s) \in Nat /\ OrderedOf(orders', s) <= OrderedOf(orders, s)
  <2> SUFFICES ASSUME NEW s
               PROVE  OrderedOf(orders, s) \in Nat
                      /\ OrderedOf(orders', s) <= OrderedOf(orders, s)
    OBVIOUS
  <2> QED
    BY <1>3
<1>5. HeldOf(carry) \in Nat /\ HeldOf(spread) \in Nat
  BY SumsTyped
<1>6. /\ fundingNotional \in Int /\ basisNotional \in Int
      /\ fundingNotional' = fundingNotional + 0 /\ basisNotional' = basisNotional + 0
  BY <1>1 DEF Typed
<1>7. HeldOf(carry') = HeldOf(carry) /\ HeldOf(spread') = HeldOf(spread)
  BY <1>1
<1>8. /\ HeldOf(carry') + OrderedOf(orders', "funding")
           <= HeldOf(carry) + OrderedOf(orders, "funding") + 0
      /\ HeldOf(spread') + OrderedOf(orders', "basis")
           <= HeldOf(spread) + OrderedOf(orders, "basis") + 0
  BY <1>3, <1>4, <1>5, <1>7
<1> QED
  BY <1>3, <1>4, <1>5, <1>6, <1>7, <1>8, CoverKept

\* A fill moves the notional from the queue to the book.
LEMMA CoverFilledFunding ==
  ASSUME Typed, ReservedCoversHeld, FilledFunding PROVE ReservedCoversHeld'
<1> DEFINE i == Head(orders)
<1>1. /\ Typed' /\ NextOrder /\ intents' = intents /\ i.strategy = "funding"
      /\ i.pair \in PairSet /\ spread' = spread
      /\ fundingNotional' = fundingNotional /\ basisNotional' = basisNotional
      /\ carry'[i.pair] # << >> /\ carry'[i.pair][1].notional = i.notional
      /\ \A p \in PairSet : p # i.pair => carry'[p] = carry[p]
  BY FilledFundingTyped DEF NoPosition
<1>2. /\ i \in IntentSet
      /\ \A s : /\ OrderedOf(orders', s) \in Nat
                /\ OrderedOf(orders, s) = Weight(s)[i] + OrderedOf(orders', s)
                /\ Weight(s)[i] \in Nat
  BY <1>1, NextOrderTyped
<1> HIDE DEF i
<1>3. Weight("funding")[i] = i.notional /\ i.notional \in Nat
  BY <1>1, <1>2 DEF Weight, IntentSet
<1>4. HeldOf(carry') <= HeldOf(carry) + i.notional
  <2>1. Book(carry) /\ Book(carry')
    BY <1>1, BooksTyped, SumsTypedNext DEF Typed
  <2>2. HeldOf(carry') <= HeldOf(carry) + carry'[i.pair][1].notional
    BY <1>1, <2>1, BookEntry
  <2> QED
    BY <1>1, <2>2
<1>5. /\ HeldOf(carry) \in Nat /\ HeldOf(spread) \in Nat
      /\ HeldOf(carry') \in Nat /\ HeldOf(spread') = HeldOf(spread)
      /\ \A s : OrderedOf(orders, s) \in Nat
  BY <1>1, SumsTyped, SumsTypedNext
<1>6. /\ fundingNotional \in Int /\ basisNotional \in Int
      /\ fundingNotional' = fundingNotional + 0 /\ basisNotional' = basisNotional + 0
  BY <1>1 DEF Typed
<1>7. /\ OrderedOf(orders, "funding") = i.notional + OrderedOf(orders', "funding")
      /\ OrderedOf(orders', "basis") <= OrderedOf(orders, "basis")
      /\ OrderedOf(orders', "funding") \in Nat /\ OrderedOf(orders', "basis") \in Nat
  BY <1>2, <1>3
<1>8. /\ HeldOf(carry') + OrderedOf(orders', "funding")
           <= HeldOf(carry) + OrderedOf(orders, "funding") + 0
      /\ HeldOf(spread') + OrderedOf(orders', "basis")
           <= HeldOf(spread) + OrderedOf(orders, "basis") + 0
  BY <1>3, <1>4, <1>5, <1>7
<1> QED
  BY <1>5, <1>6, <1>7, <1>8, CoverKept

\* The same of a spread.
LEMMA CoverFilledSpread ==
  ASSUME Typed, ReservedCoversHeld, NEW drift \in Drifts, FilledSpread(drift)
  PROVE  ReservedCoversHeld'
<1> DEFINE i == Head(orders)
<1>1. /\ Typed' /\ NextOrder /\ intents' = intents /\ i.strategy = "basis"
      /\ i.pair \in PairSet /\ carry' = carry
      /\ fundingNotional' = fundingNotional /\ basisNotional' = basisNotional
      /\ spread'[i.pair] # << >> /\ spread'[i.pair][1].notional = i.notional
      /\ \A p \in PairSet : p # i.pair => spread'[p] = spread[p]
  BY FilledSpreadTyped DEF Flat
<1>2. /\ i \in IntentSet
      /\ \A s : /\ OrderedOf(orders', s) \in Nat
                /\ OrderedOf(orders, s) = Weight(s)[i] + OrderedOf(orders', s)
                /\ Weight(s)[i] \in Nat
  BY <1>1, NextOrderTyped
<1> HIDE DEF i
<1>3. Weight("basis")[i] = i.notional /\ i.notional \in Nat
  BY <1>1, <1>2 DEF Weight, IntentSet
<1>4. HeldOf(spread') <= HeldOf(spread) + i.notional
  <2>1. Book(spread) /\ Book(spread')
    BY <1>1, BooksTyped, SumsTypedNext DEF Typed
  <2>2. HeldOf(spread') <= HeldOf(spread) + spread'[i.pair][1].notional
    BY <1>1, <2>1, BookEntry
  <2> QED
    BY <1>1, <2>2
<1>5. /\ HeldOf(carry) \in Nat /\ HeldOf(spread) \in Nat
      /\ HeldOf(spread') \in Nat /\ HeldOf(carry') = HeldOf(carry)
      /\ \A s : OrderedOf(orders, s) \in Nat
  BY <1>1, SumsTyped, SumsTypedNext
<1>6. /\ fundingNotional \in Int /\ basisNotional \in Int
      /\ fundingNotional' = fundingNotional + 0 /\ basisNotional' = basisNotional + 0
  BY <1>1 DEF Typed
<1>7. /\ OrderedOf(orders, "basis") = i.notional + OrderedOf(orders', "basis")
      /\ OrderedOf(orders', "funding") <= OrderedOf(orders, "funding")
      /\ OrderedOf(orders', "funding") \in Nat /\ OrderedOf(orders', "basis") \in Nat
  BY <1>2, <1>3
<1>8. /\ HeldOf(carry') + OrderedOf(orders', "funding")
           <= HeldOf(carry) + OrderedOf(orders, "funding") + 0
      /\ HeldOf(spread') + OrderedOf(orders', "basis")
           <= HeldOf(spread) + OrderedOf(orders, "basis") + 0
  BY <1>3, <1>4, <1>5, <1>7
<1> QED
  BY <1>5, <1>6, <1>7, <1>8, CoverKept

\* Nothing of a strategy is ordered that none of the orders belongs to.
LEMMA NoneOrdered ==
  ASSUME NEW s, NEW q \in Seq(IntentSet), \A i \in ToSet(q) : i.strategy # s
  PROVE  OrderedOf(q, s) = 0
<1>1. \A n \in DOMAIN q : q[n].strategy # s
  BY DEF ToSet
<1> QED
  BY <1>1, QueueSums

\* The exit of the only pair leaves nothing to be covered: its position is
\* closed, and no entry is pending next to an exit.  What a repeated exit
\* releases is at most what is reserved.
LEMMA CoverFilledFundingExit ==
  ASSUME Typed, OneWay, OnePair, ReservedCoversHeld, FilledFundingExit
  PROVE  ReservedCoversHeld'
<1> DEFINE i == Head(orders)
<1>1. /\ Typed' /\ NextOrder /\ intents' = intents /\ i.strategy = "funding_exit"
      /\ i.pair \in PairSet /\ spread' = spread /\ basisNotional' = basisNotional
      /\ carry'[i.pair] = << >>
  BY FilledFundingExitTyped DEF NoPosition
<1>2. /\ i \in IntentSet /\ i \in Pending /\ Pending' \subseteq Pending
      /\ orders' \in Seq(IntentSet)
      /\ OrderedOf(orders', "basis") \in Nat
      /\ OrderedOf(orders, "basis")
           = Weight("basis")[i] + OrderedOf(orders', "basis")
      /\ Weight("basis")[i] \in Nat
  BY <1>1, NextOrderTyped
<1> HIDE DEF i
<1>3. HeldOf(carry') = 0
  <2>1. \A p \in PairSet : carry'[p] = << >>
    BY <1>1 DEF OnePair
  <2>2. Book(carry')
    BY <1>1, SumsTypedNext
  <2> QED
    BY <2>1, <2>2, BookSums
<1>4. OrderedOf(orders', "funding") = 0
  <2>1. ASSUME NEW j \in ToSet(orders') PROVE j.strategy # "funding"
    <3>1. j \in Pending' /\ j \in Pending
      BY <1>2 DEF Pending
    <3>2. j \in IntentSet
      BY <3>1, PendingTyped
    <3>3. j.pair \in PairSet
      BY <3>2 DEF IntentSet
    <3>4. j.pair = i.pair
      BY <1>1, <3>3 DEF OnePair
    <3> QED
      BY <1>1, <1>2, <3>1, <3>4 DEF OneWay, Opposed
  <2> QED
    BY <1>2, <2>1, NoneOrdered
<1>5. fundingNotional' \in Nat /\ basisNotional \in Nat
  BY <1>1 DEF Typed
<1>6. /\ basisNotional >= HeldSpreads + Ordered("basis")
      /\ HeldSpreads = HeldOf(spread) /\ Ordered("basis") = OrderedOf(orders, "basis")
  BY CoverParts DEF ReservedCoversHeld
<1>7. HeldOf(spread) \in Nat
  BY SumsTyped
<1>8. /\ HeldFunding' = HeldOf(carry') /\ HeldSpreads' = HeldOf(spread')
      /\ Ordered("funding")' = OrderedOf(orders', "funding")
      /\ Ordered("basis")' = OrderedOf(orders', "basis")
  BY Zenon DEF HeldFunding, HeldSpreads, Ordered, HeldOf, OrderedOf, NoPosition, Flat
<1>9. basisNotional' >= HeldOf(spread') + OrderedOf(orders', "basis")
  BY <1>1, <1>2, <1>5, <1>6, <1>7
<1>10. fundingNotional' >= HeldOf(carry') + OrderedOf(orders', "funding")
  BY <1>3, <1>4, <1>5
<1> QED
  BY <1>8, <1>9, <1>10 DEF ReservedCoversHeld

\* The same of a spread.
LEMMA CoverFilledSpreadExit ==
  ASSUME Typed, OneWay, OnePair, ReservedCoversHeld, FilledSpreadExit
  PROVE  ReservedCoversHeld'
<1> DEFINE i == Head(orders)
<1>1. /\ Typed' /\ NextOrder /\ intents' = intents /\ i.strategy = "basis_exit"
      /\ i.pair \in PairSet /\ carry' = carry /\ fundingNotional' = fundingNotional
      /\ spread'[i.pair] = << >>
  BY FilledSpreadExitTyped DEF Flat
<1>2. /\ i \in IntentSet /\ i \in Pending /\ Pending' \subseteq Pending
      /\ orders' \in Seq(IntentSet)
      /\ OrderedOf(orders', "funding") \in Nat
      /\ OrderedOf(orders, "funding")
           = Weight("funding")[i] + OrderedOf(orders', "funding")
      /\ Weight("funding")[i] \in Nat
  BY <1>1, NextOrderTyped
<1> HIDE DEF i
<1>3. HeldOf(spread') = 0
  <2>1. \A p \in PairSet : spread'[p] = << >>
    BY <1>1 DEF OnePair
  <2>2. Book(spread')
    BY <1>1, SumsTypedNext
  <2> QED
    BY <2>1, <2>2, BookSums
<1>4. OrderedOf(orders', "basis") = 0
  <2>1. ASSUME NEW j \in ToSet(orders') PROVE j.strategy # "basis"
    <3>1. j \in Pending' /\ j \in Pending
      BY <1>2 DEF Pending
    <3>2. j \in IntentSet
      BY <3>1, PendingTyped
    <3>3. j.pair \in PairSet
      BY <3>2 DEF IntentSet
    <3>4. j.pair = i.pair
      BY <1>1, <3>3 DEF OnePair
    <3> QED
      BY <1>1, <1>2, <3>1, <3>4 DEF OneWay, Opposed
  <2> QED
    BY <1>2, <2>1, NoneOrdered
<1>5. basisNotional' \in Nat /\ fundingNotional \in Nat
  BY <1>1 DEF Typed
<1>6. /\ fundingNotional >= HeldFunding + Ordered("funding")
      /\ HeldFunding = HeldOf(carry) /\ Ordered("funding") = OrderedOf(orders, "funding")
  BY CoverParts DEF ReservedCoversHeld
<1>7. HeldOf(carry) \in Nat
  BY SumsTyped
<1>8. /\ HeldFunding' = HeldOf(carry') /\ HeldSpreads' = HeldOf(spread')
      /\ Ordered("funding")' = OrderedOf(orders', "funding")
      /\ Ordered("basis")' = OrderedOf(orders', "basis")
  BY Zenon DEF HeldFunding, HeldSpreads, Ordered, HeldOf, OrderedOf, NoPosition, Flat
<1>9. fundingNotional' >= HeldOf(carry') + OrderedOf(orders', "funding")
  BY <1>1, <1>2, <1>5, <1>6, <1>7
<1>10. basisNotional' >= HeldOf(spread') + OrderedOf(orders', "basis")
  BY <1>3, <1>4, <1>5
<1> QED
  BY <1>8, <1>9, <1>10 DEF ReservedCoversHeld

\* Every step keeps the cover.
LEMMA CoverStep ==
  ASSUME Typed, OneWay, OnePair, ReservedCoversHeld, [Next]_tradingVars
  PROVE  ReservedCoversHeld'
<1>0. Typed'
  BY TypedStep
<1>1. ASSUME NEW read \in Reads, NEW e \in Equities, FundingTick(read, e)
      PROVE  ReservedCoversHeld'
  BY <1>1, CoverTicks
<1>2. ASSUME NEW c \in [SpreadPairs -> Conditions], ArbTick(c) PROVE ReservedCoversHeld'
  BY <1>2, CoverTicks
<1>3. CASE Tick
  BY <1>3, CoverTicks
<1>4. ASSUME NEW drift \in Drifts, FilledSpread(drift) PROVE ReservedCoversHeld'
  BY <1>4, CoverFilledSpread
<1>5. ASSUME NEW r \in Readings, Reading(r) PROVE ReservedCoversHeld'
  BY <1>0, <1>5, ReadingTyped, CoverUndisturbed
<1>6. CASE Allocate \/ Forgotten \/ FilledFunding
  BY <1>6, CoverAllocate, CoverForgotten, CoverFilledFunding
<1>7. CASE FilledFundingExit \/ FilledSpreadExit
  BY <1>7, CoverFilledFundingExit, CoverFilledSpreadExit
<1>8. CASE Refuse
  BY <1>0, <1>8, RefuseTyped, CoverUndisturbed
<1>9. CASE UNCHANGED tradingVars
  BY <1>0, <1>9, StutterTyped, CoverUndisturbed
<1> QED
  BY <1>1, <1>2, <1>3, <1>4, <1>5, <1>6, <1>7, <1>8, <1>9, Zenon DEF Next

\* With one pair, as deployed, the allocator's reservations cover what the
\* engines hold and what is on its way to them, although a regime may have the
\* same position closed, and released, several times over.
THEOREM ReservationsCover == ASSUME OnePair PROVE Spec => []ReservedCoversHeld
<1>1. Init => CoverInv
  <2> SUFFICES ASSUME Init PROVE CoverInv
    OBVIOUS
  <2>1. /\ orders = << >> /\ intents = << >>
        /\ \A p \in PairSet : carry[p] = << >> /\ spread[p] = << >>
    BY TradingAssumption DEF Init, FundingInit, ArbInit, NoPosition, Flat
  <2>2. fundingNotional = 0 /\ basisNotional = 0
    BY DEF Init, AllocatorInit
  <2>3. Typed /\ Book(carry) /\ Book(spread)
    BY TypedInit, BooksTyped DEF Typed
  <2>4. HeldOf(carry) = 0 /\ HeldOf(spread) = 0
    BY <2>1, <2>3, BookSums
  <2>5. \A s : OrderedOf(orders, s) = 0
    <3>1. orders \in Seq(IntentSet) /\ ToSet(orders) = {}
      BY <2>1, <2>3 DEF Typed, ToSet
    <3> QED
      BY <3>1, NoneOrdered
  <2>6. ReservedCoversHeld
    BY <2>2, <2>4, <2>5, CoverParts DEF ReservedCoversHeld
  <2>7. OneWay
    BY <2>1 DEF OneWay, Pending, ToSet
  <2> QED
    BY <2>3, <2>6, <2>7 DEF CoverInv
<1>2. CoverInv /\ [Next]_tradingVars => CoverInv'
  BY TypedStep, OneWayStep, CoverStep DEF CoverInv
<1>3. CoverInv => ReservedCoversHeld
  BY DEF CoverInv
<1> QED
  BY <1>1, <1>2, <1>3, PTL DEF Spec

-----------------------------------------------------------------------------
(* The caps, whatever the engines ask for.                                 *)

PeakInv == Typed /\ AllocatorInv

\* The steps that do not call the allocator.
LEMMA AllocatorUndisturbed ==
  ASSUME AllocatorInv, UNCHANGED allocatorVars PROVE AllocatorInv'
BY DEF allocatorVars, reserveVars, capitalVars, AllocatorInv, AllocatorTypeOK,
       CapitalBelowPeak, MaxCapital, WithinPeakShares, Deployed

\* The steps that do call it with the head of a queue.
LEMMA PeakQueues ==
  ASSUME Typed, AllocatorInv
  PROVE  /\ Allocate => AllocatorInv'
         /\ FilledFundingExit => AllocatorInv'
         /\ FilledSpreadExit => AllocatorInv'
<1>1. ASSUME Allocate PROVE AllocatorInv'
  <2> DEFINE i == Head(intents)
  <2>1. intents # << >> /\ Approve(KindOf(i.strategy), i.notional)
    BY <1>1 DEF Allocate
  <2>2. i \in IntentSet
    BY <2>1, QueueMembers DEF Typed
  <2> HIDE DEF i
  <2>3. i.notional \in Nat /\ i.strategy \in Strategies
    BY <2>2 DEF IntentSet
  <2>4. KindOf(i.strategy) \in Kinds
    BY <2>3 DEF KindOf, Kinds, Strategies
  <2> QED
    BY <2>1, <2>3, <2>4, AllocatorAssumption, ApproveKeeps
<1>2. ASSUME FilledFundingExit \/ FilledSpreadExit PROVE AllocatorInv'
  <2> DEFINE i == Head(orders)
  <2>1. /\ orders # << >>
        /\ ReleaseNotional("FUNDING", i.notional) \/ ReleaseNotional("BASIS", i.notional)
    BY <1>2 DEF FilledFundingExit, FilledSpreadExit, NextOrder
  <2>2. i \in IntentSet
    BY <2>1, QueueMembers DEF Typed
  <2> HIDE DEF i
  <2>3. i.notional \in Nat /\ "FUNDING" \in Kinds /\ "BASIS" \in Kinds
    BY <2>2 DEF IntentSet, Kinds
  <2> QED
    BY <2>1, <2>3, AllocatorAssumption, ReleaseKeeps
<1> QED
  BY <1>1, <1>2

\* Every step keeps the caps.
LEMMA PeakStep == ASSUME Typed, AllocatorInv, [Next]_tradingVars PROVE AllocatorInv'
<1>1. ASSUME NEW read \in Reads, NEW e \in Equities, FundingTick(read, e)
      PROVE  AllocatorInv'
  BY <1>1, AllocatorUndisturbed DEF FundingTick
<1>2. ASSUME NEW c \in [SpreadPairs -> Conditions], ArbTick(c) PROVE AllocatorInv'
  BY <1>2, AllocatorUndisturbed DEF ArbTick
<1>3. ASSUME NEW drift \in Drifts, FilledSpread(drift) PROVE AllocatorInv'
  BY <1>3, AllocatorUndisturbed DEF FilledSpread
<1>4. ASSUME NEW r \in Readings, Reading(r) PROVE AllocatorInv'
  <2>1. r.equity \in Int /\ r.drawdown \in Int
    BY AllocatorAssumption DEF AllocatorAssumption
  <2>2. UpdateEquity(r.equity, r.drawdown)
    BY <1>4 DEF Reading
  <2> QED
    BY <2>1, <2>2, AllocatorAssumption, ReadingKeeps
<1>5. CASE Tick \/ Refuse \/ Forgotten \/ FilledFunding
  BY <1>5, AllocatorUndisturbed DEF Tick, Refuse, Forgotten, FilledFunding
<1>6. CASE Allocate \/ FilledFundingExit \/ FilledSpreadExit
  BY <1>6, PeakQueues
<1>7. CASE UNCHANGED tradingVars
  BY <1>7, AllocatorUndisturbed DEF tradingVars
<1> QED
  BY <1>1, <1>2, <1>3, <1>4, <1>5, <1>6, <1>7, Zenon DEF Next

\* Whatever the engines publish, and however often an exit is released, no
\* strategy has more reserved than its share of the peak equity, nor both
\* together more than what the cash reserve leaves of it.
THEOREM TradingWithinPeak == Spec => []WithinPeakShares
<1>1. Init => PeakInv
  BY TypedInit, InitHolds, AllocatorAssumption DEF Init, PeakInv
<1>2. PeakInv /\ [Next]_tradingVars => PeakInv'
  BY TypedStep, PeakStep DEF PeakInv
<1>3. PeakInv => WithinPeakShares
  BY DEF PeakInv, AllocatorInv
<1> QED
  BY <1>1, <1>2, <1>3, PTL DEF Spec

-----------------------------------------------------------------------------
(* A low differential asks for the exit.                                   *)

\* The engine's count of a position is never behind the number of evaluations
\* that saw its differential low: a forced call counts too.
CountsLow == \A p \in PairSet : carry[p] # NoPosition => lowRun[p] <= carry[p][1].cycles

LowInv == Typed /\ CountsLow

\* More cycles count for more.
LEMMA UpToMonotone ==
  ASSUME NEW m \in Nat, NEW n \in Nat, m <= n PROVE UpTo(m) <= UpTo(n)
BY FundingAssumption DEF UpTo

\* One evaluation adds at least one to the count.
LEMMA FundingTickCounts ==
  ASSUME LowInv, NEW read \in Reads, NEW e \in Equities, FundingTick(read, e),
         NEW p \in PairSet, carry[p] # NoPosition
  PROVE  /\ carry'[p][1].cycles
              = CyclesAfter(quotes', p, carry[p][1].cycles, Calls(samples'))
         /\ lowRun'[p] <= carry'[p][1].cycles
         /\ intents' = FundingIntents(quotes', samples', e)
<1> DEFINE r == carry[p][1]
           n == CyclesAfter(quotes', p, r.cycles, Calls(samples'))
<1>1. /\ carry' = [s \in PairSet |->
           IF carry[s] = NoPosition THEN NoPosition
           ELSE << [carry[s][1] EXCEPT
                      !.cycles = CyclesAfter(quotes', s, @, Calls(samples'))] >>]
      /\ lowRun' = [s \in PairSet |-> LowRunAfter(quotes', s)]
      /\ intents' = FundingIntents(quotes', samples', e)
  BY DEF FundingTick, FundingEvaluation
<1>2. carry'[p] = << [r EXCEPT !.cycles = n] >> /\ lowRun'[p] = LowRunAfter(quotes', p)
  BY <1>1
<1>3. r \in [notional : Nat, cycles : Nat] /\ lowRun[p] \in Nat /\ lowRun[p] <= r.cycles
  BY DEF LowInv, Typed, CarryBook, CountsLow
<1>4. Calls(samples') \in Nat \ {0}
  BY CallsTyped
<1>5. UpTo(lowRun[p] + 1) <= UpTo(r.cycles + Calls(samples'))
  BY <1>3, <1>4, UpToMonotone
<1>6. LowRunAfter(quotes', p) <= n
  <2>0. IsLow(quotes', p) => ~(~Quoted(quotes', p) \/ Reversed(quotes', p))
    BY FundingAssumption DEF IsLow, Reversed
  <2>1. CASE ~Quoted(quotes', p) \/ Reversed(quotes', p)
    BY <1>3, <2>0, <2>1 DEF LowRunAfter, CyclesAfter
  <2>2. CASE ~(~Quoted(quotes', p) \/ Reversed(quotes', p)) /\ IsLow(quotes', p)
    BY <1>5, <2>2 DEF LowRunAfter, CyclesAfter
  <2>3. CASE ~(~Quoted(quotes', p) \/ Reversed(quotes', p)) /\ ~IsLow(quotes', p)
    BY <2>3 DEF LowRunAfter, CyclesAfter
  <2> QED
    BY <2>1, <2>2, <2>3
<1> HIDE DEF r, n
<1>7. carry'[p][1] = [r EXCEPT !.cycles = n]
  BY <1>2
<1>8. carry'[p][1].cycles = n
  BY <1>3, <1>7
<1> QED
  BY <1>1, <1>2, <1>6, <1>8 DEF r, n

\* The count is kept up by every step.
LEMMA CountsLowStep == ASSUME LowInv, [Next]_tradingVars PROVE CountsLow'
<1>0. Typed /\ CountsLow
  BY DEF LowInv
<1>1. ASSUME UNCHANGED <<carry, lowRun>> PROVE CountsLow'
  BY <1>0, <1>1 DEF CountsLow
<1>2. ASSUME NEW read \in Reads, NEW e \in Equities, FundingTick(read, e)
      PROVE  CountsLow'
  <2>1. \A p \in PairSet : carry'[p] = NoPosition <=> carry[p] = NoPosition
    BY <1>0, <1>2, FundingTickTyped
  <2> QED
    BY <1>2, <2>1, FundingTickCounts DEF CountsLow
<1>3. ASSUME NEW c \in [SpreadPairs -> Conditions], ArbTick(c) PROVE CountsLow'
  BY <1>0, <1>1, <1>3, ArbTickTyped
<1>4. ASSUME NEW drift \in Drifts, FilledSpread(drift) PROVE CountsLow'
  BY <1>0, <1>1, <1>4, FilledSpreadTyped
<1>5. ASSUME NEW r \in Readings, Reading(r) PROVE CountsLow'
  BY <1>0, <1>1, <1>5, ReadingTyped
<1>6. CASE FilledFunding
  <2> DEFINE i == Head(orders)
  <2>1. /\ carry'[i.pair][1].cycles = 0 /\ lowRun'[i.pair] = 0
        /\ \A p \in PairSet : p # i.pair => carry'[p] = carry[p] /\ lowRun'[p] = lowRun[p]
    BY <1>0, <1>6, FilledFundingTyped
  <2> HIDE DEF i
  <2> QED
    BY <1>0, <2>1 DEF CountsLow
<1>7. CASE FilledFundingExit
  <2> DEFINE i == Head(orders)
  <2>1. /\ carry'[i.pair] = NoPosition /\ lowRun' = lowRun
        /\ \A p \in PairSet : p # i.pair => carry'[p] = carry[p]
    BY <1>0, <1>7, FilledFundingExitTyped
  <2> HIDE DEF i
  <2> QED
    BY <1>0, <2>1 DEF CountsLow
<1>8. CASE Tick \/ Allocate \/ Refuse \/ Forgotten
  BY <1>0, <1>1, <1>8, TickTyped, AllocateTyped, RefuseTyped, ForgottenTyped
<1>9. CASE FilledSpreadExit \/ UNCHANGED tradingVars
  BY <1>0, <1>1, <1>9, FilledSpreadExitTyped, StutterTyped
<1> QED
  BY <1>2, <1>3, <1>4, <1>5, <1>6, <1>7, <1>8, <1>9, Zenon DEF Next

\* The evaluation that sees the differential of a position reversed, or low for
\* the last of the configured number of times, publishes its exit: the closing
\* call of EvaluateExits asks for it whatever the forced ones before it did.
LEMMA LowAsksExit ==
  ASSUME LowInv, NEW read \in Reads, NEW e \in Equities, FundingTick(read, e),
         NEW p \in PairSet, carry[p] # NoPosition,
         Reversed(quotes', p) \/ (IsLow(quotes', p) /\ lowRun'[p] = NegativeExitCycles)
  PROVE  \E n \in DOMAIN intents' :
           intents'[n].strategy = "funding_exit" /\ intents'[n].pair = p
<1> DEFINE last == Calls(samples')
           n == CyclesAfter(quotes', p, carry[p][1].cycles, last)
<1>1. /\ intents' = FundingIntents(quotes', samples', e) /\ lowRun'[p] <= n
  BY FundingTickCounts
<1>2. last \in Nat /\ ~(last < last)
  BY CallsTyped
<1> HIDE DEF last
<1>3. ExitAt(quotes', p, last)
  BY <1>1 DEF ExitAt
<1>4. ExitPublished(quotes', samples', p, last)
  BY <1>2, <1>3 DEF ExitPublished, last
<1>5. QuotesTyped(quotes') /\ Book(carry) /\ e \in Nat
  BY FundingTickTyped, BooksTyped, TradingAssumption DEF LowInv, Typed
<1>6. \E i \in ToSet(FundingIntents(quotes', samples', e)) : i.pair = p /\ Closes(i)
  BY <1>4, <1>5, FundingIntentsTyped DEF last
<1> QED
  BY <1>1, <1>6 DEF ToSet, Closes

\* A position whose differential has reversed, or has been low for the
\* configured number of evaluations, is asked to be closed in the evaluation
\* that sees it.
THEOREM LowCarryIsClosed == Spec => LowCarryAsksExit
<1>1. Init => LowInv
  BY TypedInit DEF LowInv, CountsLow, Init, FundingInit
<1>2. LowInv /\ [Next]_tradingVars => LowInv'
  BY TypedStep, CountsLowStep DEF LowInv
<1>3. LowInv => (\A read \in Reads, e \in Equities :
        FundingTick(read, e) =>
          \A p \in PairSet :
            /\ carry[p] # NoPosition
            /\ Reversed(quotes', p) \/ (IsLow(quotes', p) /\ lowRun'[p] = NegativeExitCycles)
            => \E n \in DOMAIN intents' :
                 intents'[n].strategy = "funding_exit" /\ intents'[n].pair = p)
  BY LowAsksExit
<1> QED
  BY <1>1, <1>2, <1>3, PTL DEF Spec, LowCarryAsksExit

==============================================================================
