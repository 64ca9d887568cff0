--------------------------- MODULE MCChallengeLoop ---------------------------
(***************************************************************************)
(* Instances of ChallengeLoop for TLC, in the units of MCChallengeDaemon.  *)
(***************************************************************************)
EXTENDS ChallengeLoop

CONSTANTS btc, eth

Pair(symbol, perLeg, profit) ==
  [symbol |-> symbol, legs |-> <<perLeg, perLeg>>, profit |-> profit]

\* 300 per leg passes the risk check (15 of 30) but not the funded cap of
\* 250; 125 per leg is the whole cap at once; 60 per leg fits twice.
MCIntents == {Pair(btc, 60, 0), Pair(eth, 125, 0), Pair(btc, 300, 0),
              [symbol |-> eth, legs |-> <<55, 65>>, profit |-> 20]}

MCEquities == {890, 955, 1000}

\* The loop tracks positions itself and records no trades.
NoExposures == {}
NoPnLs == {}
=============================================================================
