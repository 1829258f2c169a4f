----------------------------- MODULE MCAutoTrade -----------------------------
(***************************************************************************)
(* Instances of AutoTrade for TLC.                                         *)
(***************************************************************************)
EXTENDS AutoTrade
=============================================================================
