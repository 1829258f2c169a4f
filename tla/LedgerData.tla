----------------------------- MODULE LedgerData -----------------------------
(***************************************************************************)
(* What a ledger file holds, and what each operation of LedgerStore does   *)
(* to the payload it has loaded (services/ledger_store.py).                *)
(*                                                                         *)
(* The JSON object has two parts that different callers own: the broker's  *)
(* book (cash, positions, orders, counters), which PaperBroker writes as a *)
(* whole, and the trade_logs list, which is appended to and updated in     *)
(* place.  A book is an element of Book: its contents play no part in how  *)
(* the file is written.                                                    *)
(***************************************************************************)
EXTENDS Naturals, Sequences

CONSTANTS
    Book,      \* the broker snapshots that can be persisted
    NoBook,    \* the book of a payload that has no broker keys yet
    ResetBook, \* the book of the ledger that stands in for a corrupt file
    Trade,     \* the trade identifiers (uuid4 in the code)
    Symbol     \* the traded symbols

ASSUME BookAssumption == NoBook \in Book /\ ResetBook \in Book

Entry == [trade : Trade, symbol : Symbol, open : BOOLEAN]

Ledger == [book : Book, logs : Seq(Entry)]

\* `self.load() or {}` when the file does not exist.
EmptyLedger == [book |-> NoBook, logs |-> <<>>]

\* Mutated form of CorruptedLedger: the stand-in has no trade_logs.
CorruptedWithoutLogs == [book |-> ResetBook]

\* What load() returns for a file that json cannot decode.
CorruptedLedger == [book |-> ResetBook, logs |-> <<>>]

\* The identifiers recorded in a list of trade logs.
TradesIn(logs) == {logs[i].trade : i \in DOMAIN logs}

\* The backwards scan of update_latest_open_trade_log stops at k.
IsLatestOpen(logs, s, k) ==
    /\ k \in DOMAIN logs
    /\ logs[k].symbol = s /\ logs[k].open
    /\ \A j \in DOMAIN logs : j > k => ~(logs[j].symbol = s /\ logs[j].open)

\* Mutated form of WithBook: the payload is built without **existing.
WithBookOnly(ledger, b) == [book |-> b, logs |-> <<>>]

\* payload = {**existing, "cash_balance": ..., ...}: the trade logs survive.
WithBook(ledger, b) == [ledger EXCEPT !.book = b]

WithAppended(ledger, tr, s) ==
    [ledger EXCEPT !.logs = Append(@, [trade |-> tr, symbol |-> s, open |-> TRUE])]

WithClosed(ledger, k) == [ledger EXCEPT !.logs[k].open = FALSE]
=============================================================================
