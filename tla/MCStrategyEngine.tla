--------------------------- MODULE MCStrategyEngine ---------------------------
(* A small instance of StrategyEngine: two pairs and the default limits. *)
EXTENDS StrategyEngine

CONSTANTS btc, sol

MCPairList == <<btc, sol>>

C(corr, diff, regime, z, sd) ==
  [corr |-> corr, diff |-> diff, regime |-> regime, z |-> z, sd |-> sd, beta |-> 10]

\* One condition for each way the selector can judge a pair.
MCConditions ==
  { C(90, 300, "BULLISH", 0, 20),    \* carry pays well, spread converged
    C(90, 2, "BULLISH", 25, 20),     \* low differential, rich primary
    C(90, 2, "BULLISH", -25, 20),    \* low differential, cheap primary
    C(90, 2, "NEUTRAL", 10, 20),     \* low differential, nothing pays
    C(90, -40, "PERSISTENT", 10, 20), \* reversed, in a persistent regime
    C(60, 60, "NEUTRAL", 25, 20) }   \* uncorrelated
=============================================================================
