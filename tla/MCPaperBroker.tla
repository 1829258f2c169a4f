--------------------------- MODULE MCPaperBroker ----------------------------
(***************************************************************************)
(* Instances of PaperBroker for TLC: ten quantity units make a coin.       *)
(***************************************************************************)
EXTENDS PaperBroker

CONSTANTS btc, eth, loop

\* No symbol is treated differently from another.
Interchangeable == Permutations(Symbol)
=============================================================================
