---------------------------- MODULE MCCarryTrading ----------------------------
(* A small instance of CarryTrading: the deployed pair, in units of 100 USD. *)
EXTENDS CarryTrading

CONSTANTS btc, eth

MCPairs == <<[primary |-> btc, hedge |-> eth]>>
MCSpreadPairs == {[primary |-> btc, hedge |-> eth]}

\* The tiers of DefaultConfig, in tenths of a basis point.
MCTiers == <<[min |-> 300, max |-> 100000, pct |-> 60],
             [min |-> 100, max |-> 300, pct |-> 40],
             [min |-> 0, max |-> 100, pct |-> 20]>>

C(deviation, enough, dispersed, pays) ==
  [deviation |-> deviation, enough |-> enough, dispersed |-> dispersed, pays |-> pays]

MCConditions == { C(2, TRUE, TRUE, TRUE), C(-2, TRUE, TRUE, TRUE), C(0, TRUE, TRUE, FALSE),
                  C(1, FALSE, TRUE, TRUE) }

MCReadings == {[equity |-> 800, drawdown |-> 50], [equity |-> 1200, drawdown |-> 0],
               [equity |-> 0, drawdown |-> 100]}
MCNotionals == {}
MCDrifts == {-1, 1}
MCRates == {-3, 0, 350}

R(primary, hedge) == (btc :> primary) @@ (eth :> hedge)

\* Carry that pays, with a hedge that costs or not; nothing to gain, with
\* both rates negative or zero; a reversed differential.
MCReads == {R(350, -3), R(350, 0), R(-3, -3), R(0, 0), R(-3, 0)}
=============================================================================
