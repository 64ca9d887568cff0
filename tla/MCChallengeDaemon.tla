-------------------------- MODULE MCChallengeDaemon --------------------------
(***************************************************************************)
(* Instances of ChallengeDaemon for TLC.  One unit of money is 100 USD, so *)
(* the shipped balance of 100000 USD is 1000; the percentages are the      *)
(* shipped ones.                                                           *)
(***************************************************************************)
EXTENDS ChallengeDaemon, FiniteSets

CONSTANTS btc, eth

\* A losing streak: 955 is a hard daily loss, 910 the same from 955 and a
\* hard overall loss, 890 a breach of the overall limit only.
MCEquities == {890, 910, 955, 1000, 1030}

MCPnLs == {-20, 40}

Pair(symbol, perLeg, profit) ==
  [symbol |-> symbol, legs |-> <<perLeg, perLeg>>, profit |-> profit]

\* 400 per leg risks 20 of the 30 allowed; 700 per leg risks 35.
MCIntents == {Pair(btc, 400, 0), Pair(btc, 400, 20), Pair(btc, 700, 0)}

MCExposures == {[notional |-> 120, margin |-> 60]}
=============================================================================
