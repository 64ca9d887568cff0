--------------------------- MODULE CapitalAllocator ---------------------------
(***************************************************************************)
(* The capital allocator (internal/allocator): notional reserved for the   *)
(* two strategies, under caps in percent of the current equity that a      *)
(* drawdown scales down.                                                   *)
(***************************************************************************)
EXTENDS Integers, Sequences

CONSTANTS
  InitialCapital,   \* InitialCapitalUSD
  FundingMaxPct, BasisMaxPct, CashReservePct,
  DrawdownScaling,
  Notionals,        \* bound: notionals per leg that are asked for
  Readings          \* bound: [equity, drawdown] given to UpdateEquity, the
                    \* drawdown in tenths of a percent

\* What validate asks of a configuration.
ASSUME AllocatorAssumption ==
  /\ InitialCapital \in Nat \ {0}
  /\ FundingMaxPct \in Nat /\ BasisMaxPct \in Nat /\ CashReservePct \in Nat
  /\ FundingMaxPct + BasisMaxPct + CashReservePct <= 100
  /\ DrawdownScaling \in BOOLEAN
  /\ Notionals \subseteq Nat
  /\ Readings \subseteq [equity : Int, drawdown : Int]

\* What Approve reads in the name of a strategy; EXIT and SAFETY come first.
Kinds == {"EXIT", "SAFETY", "FUNDING", "BASIS", "UNKNOWN"}

VARIABLES
  fundingNotional, basisNotional,
  currentEquity, peakEquity, drawdown

reserveVars   == <<fundingNotional, basisNotional>>
capitalVars   == <<currentEquity, peakEquity, drawdown>>
allocatorVars == <<reserveVars, capitalVars>>

AllocatorTypeOK ==
  /\ fundingNotional \in Nat /\ basisNotional \in Nat
  /\ currentEquity \in Int /\ peakEquity \in Nat
  /\ drawdown \in Int

AllocatorInit ==
  /\ fundingNotional = 0 /\ basisNotional = 0
  /\ currentEquity = InitialCapital /\ peakEquity = InitialCapital
  /\ drawdown = 0

-----------------------------------------------------------------------------

MaxCapital == IF currentEquity <= 0 THEN InitialCapital ELSE currentEquity

\* scaleFactor in percent: half at a drawdown of 5%, never less than a quarter.
ScaleFactor ==
  IF ~DrawdownScaling \/ drawdown <= 0 THEN 100
  ELSE IF drawdown >= 75 THEN 25 ELSE 100 - drawdown

\* amount is within pct percent of the capital, scaled.
WithinShare(amount, pct) == amount * 10000 <= MaxCapital * pct * ScaleFactor

\* Mutant: the intent itself is left out of the sum.
ChecksOnlyReserved(kind, notional) ==
  \/ kind = "FUNDING" /\ WithinShare(fundingNotional, FundingMaxPct)
  \/ kind = "BASIS"   /\ WithinShare(basisNotional, BasisMaxPct)

WithinStrategyCap(kind, notional) ==
  \/ kind = "FUNDING" /\ WithinShare(fundingNotional + notional, FundingMaxPct)
  \/ kind = "BASIS"   /\ WithinShare(basisNotional + notional, BasisMaxPct)

Deployed == fundingNotional + basisNotional

LeavesReserve(notional) ==
  /\ WithinShare(Deployed + notional, 100 - CashReservePct)
  /\ (Deployed + notional) * 100 <= MaxCapital * (100 - CashReservePct)

Approves(kind, notional) ==
  \/ kind \in {"EXIT", "SAFETY"}
  \/ WithinStrategyCap(kind, notional) /\ LeavesReserve(notional)

Reserve(kind, notional) ==
  /\ fundingNotional' = fundingNotional + (IF kind = "FUNDING" THEN notional ELSE 0)
  /\ basisNotional'   = basisNotional + (IF kind = "BASIS" THEN notional ELSE 0)

Approve(kind, notional) ==
  /\ Approves(kind, notional)
  /\ Reserve(kind, notional)
  /\ UNCHANGED capitalVars

\* What is left of a reservation, never less than nothing.
Less(reserved, notional) == IF reserved < notional THEN 0 ELSE reserved - notional

\* Mutant: whatever is closed is released from the funding strategy.
ReleasesFunding(kind, notional) ==
  /\ fundingNotional' = Less(fundingNotional, notional)
  /\ UNCHANGED <<basisNotional, capitalVars>>

ReleaseNotional(kind, notional) ==
  /\ fundingNotional' = IF kind = "FUNDING" THEN Less(fundingNotional, notional)
                        ELSE fundingNotional
  /\ basisNotional' = IF kind = "BASIS" THEN Less(basisNotional, notional)
                      ELSE basisNotional
  /\ UNCHANGED capitalVars

UpdateEquity(equity, dd) ==
  /\ currentEquity' = equity /\ drawdown' = dd
  /\ peakEquity' = IF equity > peakEquity THEN equity ELSE peakEquity
  /\ UNCHANGED reserveVars

AllocatorNext ==
  \/ \E k \in Kinds, n \in Notionals : Approve(k, n)
  \/ \E k \in {"FUNDING", "BASIS"}, n \in Notionals : ReleaseNotional(k, n)
  \/ \E r \in Readings : UpdateEquity(r.equity, r.drawdown)

AllocatorSpec == AllocatorInit /\ [][AllocatorNext]_allocatorVars

-----------------------------------------------------------------------------
(* Properties.                                                             *)

\* Whatever equity and drawdown do, and in whatever order approvals and
\* releases come, neither strategy holds more than its share of the highest
\* equity there has been, nor the two together more than what the cash
\* reserve leaves of it (Approve, engine.go:43).  Of the current equity they
\* may: a reservation outlives the equity it was judged by.
WithinPeakShares ==
  /\ fundingNotional * 100 <= peakEquity * FundingMaxPct
  /\ basisNotional * 100 <= peakEquity * BasisMaxPct
  /\ Deployed * 100 <= peakEquity * (100 - CashReservePct)
=============================================================================
