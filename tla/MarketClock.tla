----------------------------- MODULE MarketClock -----------------------------
(***************************************************************************)
(* What the market data feed and the circuit breaker have in common: the   *)
(* symbols, and the wall clock that quotes are stamped and judged by.  The *)
(* clocks of the exchange and of the processes are taken to agree.         *)
(***************************************************************************)
EXTENDS Integers, Sequences, FiniteSets

CONSTANTS
  Symbols,
  MaxTime          \* bound: last tick explored

ASSUME ClockAssumption == MaxTime \in Nat

VARIABLE now       \* a Unix time is never zero
=============================================================================
