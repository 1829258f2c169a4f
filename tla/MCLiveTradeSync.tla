-------------------------- MODULE MCLiveTradeSync ---------------------------
(***************************************************************************)
(* An instance of LiveTradeSync for TLC: the auto-trade loop persists      *)
(* through the broker's store, an API worker synchronises orders through   *)
(* its own, as container.py builds them.                                   *)
(***************************************************************************)
EXTENDS LiveTradeSync

CONSTANTS loop, api, broker, sync, krw

SeparateStores == [t \in Thread |-> IF t \in Syncer THEN sync ELSE broker]

OneSymbol == [o \in Order |-> krw]
=============================================================================
