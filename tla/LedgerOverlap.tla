--------------------------- MODULE LedgerOverlap ----------------------------
(***************************************************************************)
(* What several threads can lose on one ledger store.                      *)
(*                                                                         *)
(* append_trade_log_entry, update_latest_open_trade_log and _persist_state *)
(* load the ledger before save() takes the lock: a log that is renamed     *)
(* into place while another thread is between its load and its rename is   *)
(* missing from what that thread will write.                               *)
(***************************************************************************)
EXTENDS LedgerStore

VARIABLE overrun  \* no part of the code: the trades appended over such a thread

overlapVars == <<vars, overrun>>

\* u has opened or loaded the ledger and may still write it.
HoldsCopy(u) == pc[u] \in {"read", "acquire"} \cup InSave /\ req[u].kind # "load"

\* The append of t reaches the file in this step.
Lands(t) == pc[t] = "replace" /\ path' # path /\ pc'[t] = "idle" /\ req[t].kind = "append"

OverlapInit == Init /\ overrun = {}

OverlapNext ==
    /\ Next
    /\ overrun' = overrun \cup
          {req[t].trade : t \in {u \in Thread : Lands(u) /\ \E v \in Thread \ {u} : HoldsCopy(v)}}

OverlapSpec == OverlapInit /\ [][OverlapNext]_overlapVars
-----------------------------------------------------------------------------
(***************************************************************************)
(* Properties.                                                             *)
(***************************************************************************)

\* A trade log whose append has returned is on file from then on, through the
\* writes of the other threads and the death of the process at any step, unless
\* another operation had loaded the ledger before it landed and was still to
\* write it: nothing but that overlap loses a log.
LogsLostToOverlapOnly == acked \ overrun \subseteq TradesIn(FileLedger.logs)
-----------------------------------------------------------------------------
(***************************************************************************)
(* Inductive strengthening, for LedgerStoreProofs.                         *)
(***************************************************************************)

\* The ledger a thread is about to edit, or has edited and will write.
CopyOf(t) == IF pc[t] = "read" THEN disk[fd[t]].ledger ELSE payload[t]

\* A trade no one overran is on file and in every copy that may replace the
\* file.
OverlapInv ==
    /\ \A t \in Thread : pc[t] \in {"acquire"} \cup InSave =>
          /\ req[t].kind # "load"
          /\ req[t].kind = "append" => req[t].trade \in TradesIn(payload[t].logs)
    /\ \A t \in Thread : pc[t] = "replace" => disk[tmp] = WholeFile(payload[t])
    /\ \A k \in acked \ overrun :
          /\ k \in TradesIn(FileLedger.logs)
          /\ \A t \in Thread : HoldsCopy(t) => k \in TradesIn(CopyOf(t).logs)
=============================================================================
