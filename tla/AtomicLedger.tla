---------------------------- MODULE AtomicLedger ----------------------------
(***************************************************************************)
(* What the callers of LedgerStore rely on: a ledger on which every        *)
(* operation takes effect in one step, or, when the process dies first,    *)
(* not at all.                                                             *)
(***************************************************************************)
EXTENDS LedgerData

VARIABLE ledger

TypeOK == ledger \in Ledger

Init == ledger = EmptyLedger

\* PaperBroker._persist_state replaces the book and keeps the trade logs.
Persist == \E b \in Book : ledger' = WithBook(ledger, b)

\* append_trade_log_entry adds one open entry, once per trade.
AppendLog ==
    \E tr \in Trade \ TradesIn(ledger.logs), s \in Symbol :
        ledger' = WithAppended(ledger, tr, s)

\* update_latest_open_trade_log closes the last open entry of a symbol.
CloseLog ==
    \E s \in Symbol, k \in DOMAIN ledger.logs :
        /\ IsLatestOpen(ledger.logs, s, k)
        /\ ledger' = WithClosed(ledger, k)

Next == Persist \/ AppendLog \/ CloseLog

Spec == Init /\ [][Next]_ledger
=============================================================================
