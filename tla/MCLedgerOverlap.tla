-------------------------- MODULE MCLedgerOverlap ---------------------------
(***************************************************************************)
(* LedgerOverlap on the threads and stores of MCLedgerStore.               *)
(***************************************************************************)
EXTENDS MCLedgerStore, LedgerOverlap
=============================================================================
