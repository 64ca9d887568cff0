------------------------------ MODULE MCFeedGate ------------------------------
(***************************************************************************)
(* Instances of FeedGate for TLC, with the percentages of cmd/risk-daemon  *)
(* and ticks for its windows, cooldowns and delays.                        *)
(***************************************************************************)
EXTENDS FeedGate

CONSTANTS btc

\* From the one to the other a move of 6%, back one of 5.7%; the second has a
\* spread of 10 basis points against the 6 allowed.
MCTickers == {[price |-> 1000, bid |-> 1000, ask |-> 1000, rate |-> 0],
              [price |-> 1060, bid |-> 999, ask |-> 1000, rate |-> 3]}
MCTicks == {[price |-> t.price, bid |-> t.bid, ask |-> t.ask] : t \in MCTickers}
MCSettledRates == {5}
MCBackoffs == <<1>>
=============================================================================
