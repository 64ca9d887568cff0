------------------------------ MODULE MCExecutor ------------------------------
(***************************************************************************)
(* Instances of Executor for TLC.  A tick is a second or so: the drift     *)
(* limit of the router is two.                                             *)
(***************************************************************************)
EXTENDS Executor
=============================================================================
