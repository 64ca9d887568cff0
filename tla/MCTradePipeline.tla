--------------------------- MODULE MCTradePipeline ---------------------------
(***************************************************************************)
(* Instances of TradePipeline for TLC.                                     *)
(***************************************************************************)
EXTENDS TradePipeline

CONSTANTS i1, s1
=============================================================================
