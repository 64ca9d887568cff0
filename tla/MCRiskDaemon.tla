----------------------------- MODULE MCRiskDaemon -----------------------------
(***************************************************************************)
(* Instances of RiskDaemon for TLC.  One unit of money is 100 USD; the     *)
(* percentages are those of cmd/risk-daemon.                               *)
(***************************************************************************)
EXTENDS RiskDaemon

\* From 1000: 965 is a soft daily loss, 925 a hard one or, on a later day,
\* safe mode overall, 895 an overall halt; 0 is an empty account.
MCEquities == {0, 895, 925, 965, 1000}

Leg(side, size) == [side |-> side, size |-> size]

\* Flat, hedged within a twentieth, and an unhedged book.
MCBooks == { << >>,
             <<Leg("Buy", 21), Leg("Sell", 19)>>,
             <<Leg("Buy", 19), Leg("Sell", 24)>> }
=============================================================================
