------------------------------ MODULE MCRiskLoop ------------------------------
(***************************************************************************)
(* Instances of RiskLoop for TLC, in the units of MCRiskDaemon; a tick is  *)
(* five seconds of polling or a coarser step of the day.                   *)
(***************************************************************************)
EXTENDS RiskLoop

\* Soft and hard daily losses, an overall halt.
MCEquities == {895, 955, 968, 1000}

\* Of an equity of 1000: quiet, critical, halt.
MCMargins == {100, 780, 900}

Held(side, quantity) == [side |-> side, quantity |-> quantity]

\* Flat, a hedged pair, and an open leg.
MCExchangeBooks == { << >>,
                     <<Held("LONG", 10), Held("SHORT", 10)>>,
                     <<Held("LONG", 10)>> }
NoBooks == {}
=============================================================================
