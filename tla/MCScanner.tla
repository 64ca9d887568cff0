----------------------------- MODULE MCScanner -----------------------------
(* A small instance of Scanner. *)
EXTENDS Scanner

CONSTANTS btc

MCSymbols == <<btc>>
MCDailyStopLoss == -20

\* A price with swings on both sides rises to the target of a long trade, then
\* falls below stops with a volatility beyond the limit of a stop.
MCMarketAt ==
  LET swings == <<[isHigh |-> FALSE, price |-> 199], [isHigh |-> TRUE, price |-> 201]>>
      near   == [atr |-> 0, swings |-> swings]
      wild   == [atr |-> 3, swings |-> << >>]
      at(price, candles) == btc :> [price |-> price, candles |-> candles]
  IN  <<at(200, near), at(203, near), at(201, wild), at(197, wild)>>

MCBalanceAt == <<40, 40, 32, 32>>

\* Long and short alike, short alone since the long signals are weak, and too
\* few or too weak for any alert.
MCFindings ==
  LET found(n, strong) == [score |-> n, strong |-> strong]
  IN  {[LONG |-> found(5, TRUE), SHORT |-> found(3, TRUE)],
       [LONG |-> found(5, FALSE), SHORT |-> found(5, TRUE)],
       [LONG |-> found(2, TRUE), SHORT |-> found(5, FALSE)]}
=============================================================================
