--------------------------- MODULE MCLedgerStore ----------------------------
(***************************************************************************)
(* Instances of LedgerStore for TLC: the auto-trade loop and one API       *)
(* worker, on one store or on the two stores that container.py builds.     *)
(***************************************************************************)
EXTENDS LedgerStore, TLC

CONSTANTS loop, api, broker, sync

\* Both threads persist through the broker's store.
SharedStore == [t \in Thread |-> broker]

\* The API worker runs LiveTradeSyncService, which has a store of its own.
SeparateStores == [t \in Thread |-> IF t = api THEN sync ELSE broker]

\* Trades, and the files no name refers to, are interchangeable.
Interchangeable == Permutations(Trade) \cup Permutations(Inode)
=============================================================================
