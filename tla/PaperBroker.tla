---------------------------- MODULE PaperBroker -----------------------------
(***************************************************************************)
(* services/paper_broker.py: the simulated account.                        *)
(*                                                                         *)
(* The account lives in memory (book) and in the ledger file (ledger).  A  *)
(* submitted order passes the broker's checks, changes the account in      *)
(* memory, changes the trade logs on file, and only then is the account    *)
(* persisted.  The process may die in between, and either operation of the *)
(* file may raise: submit ends there, and the account in memory keeps what *)
(* it has, to be persisted by whatever is done next.                       *)
(*                                                                         *)
(* The object has no lock, and its methods change the account by several   *)
(* statements.  They are modelled as one thread executes them, with        *)
(* nothing between the statements that touch memory only, and with each    *)
(* operation of the ledger file as one step (SerialStoreIsAtomic of        *)
(* LedgerStoreProofs).  Calls that overlap are not modelled: SerialUse     *)
(* excludes them, here and in everything that is checked or proved.        *)
(***************************************************************************)
EXTENDS ExitRules, FiniteSets, SequencesExt

CONSTANTS
    Symbol,
    Thread,        \* the thread that uses the broker
    NoOrder,       \* the order of a thread that has none under way
    StartingCash,
    MaxBuys,       \* max_consecutive_buys
    ExposureBps,   \* max_symbol_exposure_pct
    MeaningfulNotional, \* min_meaningful_position_notional
    DustQty, SmallQty, DustNotional, \* 1e-6, 0.001 and 100 of the dust rule
    StopEnabled, StopBps,            \* atr_stop_enabled, stop_atr_multiplier
    Tp1Bps,                          \* tp1_ratio
    Price, Size,   \* prices and order sizes to explore
    Holding,       \* [qty, avg, cash] reported by the exchange
    MaxOrders, MaxFaults         \* bounds of the exploration

ASSUME BrokerAssumption ==
    /\ {StartingCash, MeaningfulNotional, DustQty, SmallQty, DustNotional} \subseteq Nat
    /\ StopBps \in 0 .. BasisPoints
    /\ {ExposureBps, Tp1Bps, MaxBuys, MaxOrders, MaxFaults} \subseteq Nat
    /\ StopEnabled \in BOOLEAN
    /\ Price \subseteq Nat \ {0} /\ Size \subseteq Nat \ {0}
    /\ Holding \subseteq [qty : Nat, avg : Nat, cash : Nat]
    /\ IsFiniteSet(Symbol) /\ IsFiniteSet(Size) /\ IsFiniteSet(Holding)

\* One thread at a time: there is never a second one between two steps of it.
ASSUME SerialUse == \A t, u \in Thread : t = u

\* tp stands for the reason: a first-target sell that was filled.
Fill == [symbol : Symbol, side : {"buy", "sell"}, tp : BOOLEAN]

\* last[s] = 0 stands for a symbol that last_prices does not have.  dropped is
\* no part of the code: it adds up the cost of what the dust rule has forgotten
\* and what the exchange's numbers have taken from cash and cost.
Account ==
    [cash : Int, pos : [Symbol -> Position], last : [Symbol -> Nat], realized : Int,
     losing : Nat, buys : [Symbol -> Nat], orders : Seq(Fill), dropped : Int]

NewAccount ==
    [cash |-> StartingCash, pos |-> [s \in Symbol |-> NoPosition],
     last |-> [s \in Symbol |-> 0], realized |-> 0,
     losing |-> 0, buys |-> [s \in Symbol |-> 0], orders |-> <<>>, dropped |-> 0]

INSTANCE LedgerData
    WITH Book <- Account, NoBook <- NewAccount, ResetBook <- NewAccount, Trade <- Nat

VARIABLES
    book,       \* the account in memory
    ledger,     \* the ledger file: the persisted account and the trade logs
    order,      \* the order each thread is working on
    stage,      \* how far submit has got with it
    crashes,    \* how often the process has died
    raises,     \* how often an operation of the file has raised
    unlogged    \* no part of the code: the buys whose log could not be appended

vars == <<book, ledger, order, stage, crashes, raises, unlogged>>

\* What a cycle asks for; tp marks a forced exit whose reason is TP1.
Request == [side : {"buy", "sell"}, symbol : Symbol, size : Size, price : Price, tp : BOOLEAN]

\* A checked order: its request with the amounts submit has computed.
Order ==
    [side : {"buy", "sell"}, symbol : Symbol, price : Price, tp : BOOLEAN,
     qty : Nat, exec : Nat, notional : Nat, fee : Nat, streak : Nat]

Stage == {"idle", "checked", "filled", "logged"}

TypeOK ==
    /\ book \in Account
    /\ ledger \in Ledger
    /\ order \in [Thread -> Order \cup {NoOrder}]
    /\ stage \in [Thread -> Stage]
    /\ crashes \in 0 .. MaxFaults
    /\ raises \in 0 .. MaxFaults
    /\ unlogged \in [Symbol -> Nat]

Init ==
    /\ book = NewAccount
    /\ ledger = EmptyLedger
    /\ order = [t \in Thread |-> NoOrder]
    /\ stage = [t \in Thread |-> "idle"]
    /\ crashes = 0
    /\ raises = 0
    /\ unlogged = [s \in Symbol |-> 0]
-----------------------------------------------------------------------------
(***************************************************************************)
(* submit: pricing and checks.                                             *)
(***************************************************************************)

\* Mutated form of ExecutedPrice: slippage raises the price of a sell too.
ExecutedPriceRaised(side, price) == Share(price, BasisPoints + SlipBps)

ExecutedPrice(side, price) ==
    Share(price, IF side = "buy" THEN BasisPoints + SlipBps ELSE BasisPoints - SlipBps)

\* A sell is cut to what the account holds.
Priced(b, r) ==
    LET s == r.symbol
        exec == ExecutedPrice(r.side, r.price)
        qty == IF r.side = "sell" THEN Smaller(r.size, b.pos[s].qty) ELSE r.size
        notional == Amount(qty, exec)
    IN  [side |-> r.side, symbol |-> s, price |-> r.price, tp |-> r.tp,
         qty |-> qty, exec |-> exec, notional |-> notional,
         fee |-> Share(notional, FeeBps), streak |-> b.buys[s]]

\* _current_total_equity, with a symbol valued at a given price.
TotalEquity(b, s, price) ==
    LET value(u) == Cost(b.pos[u].qty,
                         IF u = s THEN price
                         ELSE IF b.last[u] # 0 THEN b.last[u] ELSE b.pos[u].avg)
    IN  b.cash + RoundDiv(FoldSet(LAMBDA u, sum : value(u) + sum, 0, Symbol), Scale)

WithinExposure(b, o) ==
    (Cost(b.pos[o.symbol].qty, o.price) + o.notional * Scale) * BasisPoints
        <= TotalEquity(b, o.symbol, o.price) * Scale * ExposureBps

\* The order passes every rejection above orders.append.
Accepts(b, o) ==
    /\ o.notional >= MinNotional
    /\ o.side = "buy" =>
          /\ o.streak < MaxBuys
          /\ o.notional + o.fee <= b.cash
          /\ WithinExposure(b, o)
-----------------------------------------------------------------------------
(***************************************************************************)
(* submit: the fill.                                                       *)
(***************************************************************************)

\* _cleanup_dust_position: a position too small to sell is forgotten.
IsDust(pos, price) ==
    \/ pos.qty < DustQty
    \/ Cost(pos.qty, price) < DustNotional * Scale /\ pos.qty < SmallQty

Cleaned(pos, price) ==
    IF IsDust(pos, price) THEN [pos EXCEPT !.qty = 0, !.avg = 0] ELSE pos

\* The cost of what the dust rule forgets.
Dropped(pos, price) == IF IsDust(pos, price) THEN Cost(pos.qty, pos.avg) ELSE 0

\* Mutated form of Bought: the fee is left out of the average price, and a spent
\* target stays spent.
BoughtCarelessly(pos, o) ==
    LET qty == pos.qty + o.qty
    IN  [pos EXCEPT
            !.qty = qty,
            !.avg = RoundDiv(Cost(pos.qty, pos.avg) + o.notional * Scale, qty),
            !.stop = IF StopEnabled THEN Share(o.exec, BasisPoints - StopBps) ELSE @,
            !.tp1 = IF TpEnabled THEN Share(o.exec, BasisPoints + Tp1Bps) ELSE @,
            !.trail = 0]

\* The average price carries the fee; stop and target start anew.
Bought(pos, o) ==
    LET qty == pos.qty + o.qty
        cost == Cost(pos.qty, pos.avg) + (o.notional + o.fee) * Scale
    IN  [pos EXCEPT
            !.qty = qty,
            !.avg = RoundDiv(cost, qty),
            !.stop = IF StopEnabled THEN Share(o.exec, BasisPoints - StopBps) ELSE @,
            !.tp1 = IF TpEnabled THEN Share(o.exec, BasisPoints + Tp1Bps) ELSE @,
            !.tp1Done = IF TpEnabled THEN FALSE ELSE @,
            !.trail = 0]

\* Mutated form of Sold: the first target is armed again.
SoldUnspent(rest, o) == [rest EXCEPT !.avg = IF rest.qty = 0 THEN 0 ELSE @]

\* What a sell leaves of a position: forced by the target, it spends it.
Sold(rest, o) ==
    [rest EXCEPT !.avg = IF rest.qty = 0 THEN 0 ELSE @, !.tp1Done = @ \/ o.tp]

\* orders.append and last_prices, which even a late rejection leaves behind.
WithOrder(b, o) ==
    [b EXCEPT
        !.orders = Append(@, [symbol |-> o.symbol, side |-> o.side, tp |-> o.tp]),
        !.last[o.symbol] = o.price]

AfterBuy(b, o) ==
    [WithOrder(b, o) EXCEPT
        !.pos[o.symbol] = Cleaned(Bought(@, o), o.exec),
        !.dropped = @ + Dropped(Bought(b.pos[o.symbol], o), o.exec),
        !.cash = @ - (o.notional + o.fee),
        !.buys[o.symbol] = o.streak + 1]

\* Mutated form of LosingStreak: a winning sell takes one loss back.
LosingStreakDown(n, profit) == IF profit < 0 THEN n + 1 ELSE n - 1

LosingStreak(n, profit) == IF profit < 0 THEN n + 1 ELSE 0

AfterSell(b, o) ==
    LET pos == b.pos[o.symbol]
        qty == Smaller(o.qty, pos.qty)
        rest == [pos EXCEPT !.qty = @ - qty]
        profit == (o.exec - pos.avg) * qty - o.fee * Scale
    IN  [WithOrder(b, o) EXCEPT
            !.pos[o.symbol] = Sold(Cleaned(rest, o.exec), o),
            !.dropped = @ + Dropped(rest, o.exec),
            !.realized = @ + RoundDiv(profit, Scale),
            !.cash = @ + Amount(qty, o.exec) - o.fee,
            !.buys[o.symbol] = 0,
            !.losing = LosingStreak(@, profit)]

\* append_trade_log_entry.
WithTradeLog(l, s) == WithAppended(l, Len(l.logs) + 1, s)

\* update_latest_open_trade_log: nothing to save when no entry is open.
WithTradeLogClosed(l, s) ==
    IF \E k \in DOMAIN l.logs : IsLatestOpen(l.logs, s, k)
    THEN WithClosed(l, CHOOSE k \in DOMAIN l.logs : IsLatestOpen(l.logs, s, k))
    ELSE l

\* What a filled order does to the trade logs.
WithTrade(l, o) ==
    IF o.side = "buy" THEN WithTradeLog(l, o.symbol) ELSE WithTradeLogClosed(l, o.symbol)

\* Mutated form of Restored: a restart always clears the streaks.
RestoredFresh(b) == [b EXCEPT !.buys = [s \in Symbol |-> 0]]

\* _load_state: the streaks are kept only while some position is worth
\* managing.  Its other branch converts files of an older format.
Restored(b) ==
    IF \E s \in Symbol : Cost(b.pos[s].qty, b.pos[s].avg) >= MeaningfulNotional * Scale
    THEN b
    ELSE [b EXCEPT !.buys = [s \in Symbol |-> 0]]
-----------------------------------------------------------------------------
(***************************************************************************)
(* Steps.                                                                  *)
(***************************************************************************)

\* A rejected order changes nothing and is no step.
Check(t, r) ==
    /\ stage[t] = "idle"
    /\ Len(book.orders) < MaxOrders /\ Len(ledger.logs) < MaxOrders
    /\ Accepts(book, Priced(book, r))
    /\ order' = [order EXCEPT ![t] = Priced(book, r)]
    /\ stage' = [stage EXCEPT ![t] = "checked"]
    /\ UNCHANGED <<book, ledger, crashes, raises, unlogged>>

\* submit returns or raises.
EndSubmit(t) ==
    /\ order' = [order EXCEPT ![t] = NoOrder]
    /\ stage' = [stage EXCEPT ![t] = "idle"]

Buy(t) ==
    /\ stage[t] = "checked" /\ order[t].side = "buy"
    /\ book' = AfterBuy(book, order[t])
    /\ stage' = [stage EXCEPT ![t] = "filled"]
    /\ UNCHANGED <<ledger, order, crashes, raises, unlogged>>

\* The exact value of the position is at least the minimum.
Sellable(o) == Executable(book.pos[o.symbol].qty, o.exec)

Sell(t) ==
    /\ stage[t] = "checked" /\ order[t].side = "sell" /\ Sellable(order[t])
    /\ book' = AfterSell(book, order[t])
    /\ stage' = [stage EXCEPT ![t] = "filled"]
    /\ UNCHANGED <<ledger, order, crashes, raises, unlogged>>

\* The second minimum check of a sell does not round: it can refuse an order
\* that the first one let through and that is already among the orders.
SellRejectedLate(t) ==
    LET o == order[t]
    IN  /\ stage[t] = "checked" /\ o.side = "sell" /\ ~Sellable(o)
        /\ book' = WithOrder(book, [o EXCEPT !.tp = FALSE])
        /\ EndSubmit(t)
        /\ UNCHANGED <<ledger, crashes, raises, unlogged>>

LogTrade(t) ==
    /\ stage[t] = "filled"
    /\ ledger' = WithTrade(ledger, order[t])
    /\ stage' = [stage EXCEPT ![t] = "logged"]
    /\ UNCHANGED <<book, order, crashes, raises, unlogged>>

\* An operation of the file raises, and nothing of what was done is undone.
Raise == crashes + raises < MaxFaults /\ raises' = raises + 1

\* The append or the update raises: without effect, or after the rename of
\* another store has put its temporary file into place.
LogTradeRaises(t) ==
    LET o == order[t]
    IN  /\ stage[t] = "filled" /\ Raise
        /\ \/ ledger' = WithTrade(ledger, o) /\ UNCHANGED unlogged
           \/ /\ UNCHANGED ledger
              /\ unlogged' = [unlogged EXCEPT ![o.symbol] = IF o.side = "buy" THEN @ + 1 ELSE @]
        /\ EndSubmit(t)
        /\ UNCHANGED <<book, crashes>>

\* _persist_state saves account b, or raises.
Save(b) ==
    \/ ledger' = WithBook(ledger, b) /\ UNCHANGED raises
    \/ ledger' \in {WithBook(ledger, b), ledger} /\ Raise

\* The end of submit.
Persist(t) ==
    /\ stage[t] = "logged"
    /\ Save(book)
    /\ EndSubmit(t)
    /\ UNCHANGED <<book, crashes, unlogged>>

\* evaluate_exit_rules moves the trailing stop in memory only.
EvaluateExit(t, s, price) ==
    /\ stage[t] = "idle"
    /\ book' = [book EXCEPT !.pos[s] = AfterExitRules(@, price)]
    /\ UNCHANGED <<ledger, order, stage, crashes, raises, unlogged>>

\* An operation that changes the account in memory and persists it at once.
Commit(t, b) ==
    /\ stage[t] = "idle"
    /\ book' = b
    /\ Save(b)
    /\ UNCHANGED <<order, stage, crashes, unlogged>>

MarkPrice(t, s, price) == Commit(t, [book EXCEPT !.last[s] = price])

\* sync_exchange_position overwrites quantity, average price and cash; the
\* stop, the target, the trailing stop and the streaks stay.
SyncExchangePosition(t, s, h) ==
    LET avg == IF h.qty > 0 THEN h.avg ELSE 0
        was == book.cash * Scale + Cost(book.pos[s].qty, book.pos[s].avg)
        is == h.cash * Scale + Cost(h.qty, avg)
    IN  Commit(t, [book EXCEPT !.pos[s] = [@ EXCEPT !.qty = h.qty, !.avg = avg],
                               !.cash = h.cash, !.dropped = @ + was - is])

\* The trade logs stay in the file.
Reset(t) == Commit(t, NewAccount)

\* The process dies and is started again: memory is loaded from the file.
Crash ==
    /\ crashes + raises < MaxFaults
    /\ crashes' = crashes + 1
    /\ book' = Restored(ledger.book)
    /\ order' = [t \in Thread |-> NoOrder]
    /\ stage' = [t \in Thread |-> "idle"]
    /\ UNCHANGED <<ledger, raises, unlogged>>

FillStep(t) ==
    \/ Buy(t) \/ Sell(t) \/ SellRejectedLate(t)
    \/ LogTrade(t) \/ LogTradeRaises(t) \/ Persist(t)

SubmitStep(t) ==
    \/ \E r \in Request : (r.tp => r.side = "sell" /\ TpEnabled) /\ Check(t, r)
    \/ FillStep(t)

ThreadStep(t) ==
    \/ SubmitStep(t)
    \/ \E s \in Symbol, p \in Price : EvaluateExit(t, s, p) \/ MarkPrice(t, s, p)
    \/ \E s \in Symbol, h \in Holding : SyncExchangePosition(t, s, h)
    \/ Reset(t)

Next == (\E t \in Thread : ThreadStep(t)) \/ Crash

Spec == Init /\ [][Next]_vars
-----------------------------------------------------------------------------
(***************************************************************************)
(* Properties.                                                             *)
(***************************************************************************)

\* Money is neither made nor lost by bookkeeping: cash and the cost of what is
\* held add up to the starting cash and the realized profit, in memory and on
\* file.  Each fill may round three times: the average price, which weighs as
\* much as the position is large, the profit and the cash.  A position is no
\* larger than its orders and what the exchange has reported.
Held(b) == FoldSet(LAMBDA s, sum : Cost(b.pos[s].qty, b.pos[s].avg) + sum, 0, Symbol)

Imbalance(b) == (b.cash - StartingCash - b.realized) * Scale + Held(b) + b.dropped

Largest(S) == Max(S \cup {0})

LargestPosition(b) == Len(b.orders) * Largest(Size) + Largest({h.qty : h \in Holding})

RoundingAllowed(b) == Len(b.orders) * (Scale + LargestPosition(b) \div 2)

BooksBalance ==
    \A b \in {book, ledger.book} :
        Imbalance(b) \in -RoundingAllowed(b) .. RoundingAllowed(b)

\* The orders of a symbol never hold more than max_consecutive_buys buys in a
\* row, restarts included: they reload the streak or find nothing held.
OrdersBetween(b, s, i, j) == {k \in i .. j : b.orders[k].symbol = s}

BuyStreakCapped ==
    \A s \in Symbol : \A i, j \in DOMAIN book.orders :
        LET mine == OrdersBetween(book, s, i, j)
        IN  (\A k \in mine : book.orders[k].side = "buy") => Cardinality(mine) <= MaxBuys

\* Each buy of the persisted account has its trade log on file, unless the append
\* has raised: the log comes first, the crash may come at any time, and
\* persisting the account keeps the logs.
BuysOf(b, s) ==
    {i \in DOMAIN b.orders : b.orders[i].symbol = s /\ b.orders[i].side = "buy"}

LogsOf(l, s) == {k \in DOMAIN l.logs : l.logs[k].symbol = s}

EveryBuyLogged ==
    \A s \in Symbol :
        Cardinality(BuysOf(ledger.book, s)) <= Cardinality(LogsOf(ledger, s)) + unlogged[s]

\* Filling an order costs the account at least the fee, at the price it was
\* ordered at, but for the rounding of one amount: slippage never works in its
\* favour, whichever the side.
EquityAt(b, s, price) == b.cash * Scale + Cost(b.pos[s].qty, price)

FillsCostTheFee ==
    [][\A t \in Thread :
          LET o == order[t]
              loss == EquityAt(book, o.symbol, o.price) - EquityAt(book', o.symbol, o.price)
          IN  stage[t] = "checked" /\ stage'[t] = "filled" =>
                  2 * (o.fee * Scale - loss) <= Scale]_vars

\* The trailing stop of a position only rises.  It is taken away by a buy and
\* by a reset, and a restart may go back to the one on file.
TrailingNeverLoosens ==
    [][\A s \in Symbol :
          \/ book'.pos[s].trail >= book.pos[s].trail
          \/ \E t \in Thread : stage'[t] = "filled" /\ order[t].side = "buy" /\ order[t].symbol = s
          \/ book' = NewAccount
          \/ crashes' > crashes]_vars

\* The target of a position counts as spent exactly when the orders show it: a
\* sell at the target, and no buy of the symbol since.  So a position that a buy
\* opens or tops up never inherits a spent target, and no late rejection, dust,
\* sync, failed save or restart spends a target or arms it again.
SpentAt(b, s, i) ==
    /\ b.orders[i].symbol = s /\ b.orders[i].tp
    /\ BuysOf(b, s) \subseteq 1 .. i

SpentTargetsWereSold ==
    \A b \in {book, ledger.book}, s \in Symbol :
        b.pos[s].tp1Done <=> \E i \in DOMAIN b.orders : SpentAt(b, s, i)
=============================================================================
