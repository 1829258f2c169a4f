--------------------------- MODULE AutoTradeRound ---------------------------
(***************************************************************************)
(* One run of the automatic trading loop after another, with the amounts   *)
(* that AutoTrade leaves open: which symbols a run evaluates, what it      *)
(* finds, decides and orders, and what the exchange makes of the order.    *)
(*                                                                         *)
(* The process is armed, and one run is under way at a time.  The account  *)
(* is read once at the start of a run and the balance of a symbol before   *)
(* its strategies are evaluated; an armed cycle may trade in between.  The *)
(* market moves between runs.                                              *)
(***************************************************************************)
EXTENDS LiveSizing

CONSTANTS
    TopN,           \* dynamic_symbol_top_n
    Verdict,        \* what the selector can make of the candles: for each symbol
                    \* a class and a score
    Strategies,     \* the enabled strategies, in their order
    Opinion,        \* what the cycles of a symbol can yield: a regime, and a review
                    \* for each strategy
    CycleQty,       \* the quantities that an armed cycle orders
    Price,          \* what the market can do: a price for each symbol
    StartingKrw,
    NoTrade, NoScheduler,
    MaxOrders       \* bound of the exploration

Action == {"buy", "sell", "hold"}

\* The smallest order buys something at every price.
ASSUME AutoTradeRoundAssumption ==
    /\ {TopN, StartingKrw, MaxOrders} \subseteq Nat
    /\ CycleQty \subseteq Nat \ {0}
    /\ Price \subseteq [Symbol -> 1 .. MinNotional * Scale]
    /\ Verdict \subseteq
         [Symbol -> [class : {"strict", "soft", "rejected", "none"}, score : Int]]
    /\ \A v \in Verdict, s, t \in Symbol :
          s # t /\ v[s].class = v[t].class /\ v[s].class # "none" => v[s].score # v[t].score
    /\ Strategies \in Seq(STRING) /\ Len(Strategies) > 0
    /\ \A opinion \in Opinion :
          opinion.review \in
            [Range(Strategies) -> [action : Action, confidence : Nat, target : Nat]]

VARIABLES
    cash, held, avg,    \* the account on the exchange
    price,              \* the market
    dynamic,            \* dynamic_symbol_selection, read at start-up
    peak,               \* _peak_price_by_symbol, 0 where it has none
    scheduler,          \* _scheduler
    phase,              \* where the run is; rest between two runs
    view,               \* the account as it was read at the start of the run
    selected,           \* the selector has returned symbols in this run
    todo,               \* the symbols still to be evaluated
    asset,              \* asset_base of the symbol being evaluated
    found,              \* the candidates of the run
    rest,               \* the indices of the executable buys not yet tried
    trade,              \* what _submit_trade was called with
    placed              \* the number of orders on the exchange

exchange == <<cash, held, avg, price>>
vars == <<cash, held, avg, price, dynamic, peak, scheduler, phase, view, selected, todo,
          asset, found, rest, trade, placed>>

Override == [reason : {"none", "stop_loss", "take_profit_trailing_stop"}, ratio : 0 .. BasisPoints]
CandidateType ==
    [symbol : Symbol, strategy : Range(Strategies), action : Action, confidence : Nat,
     target : Nat, override : Override, price : Nat \ {0}, qty : Nat]
TradeType == [symbol : Symbol, side : {"buy", "sell"}, price : Nat \ {0}, qty : Nat]

Phase == {"rest", "scan", "evaluate", "decide", "preview", "create"}

\* Everything the run keeps has its type, and a trade is in hand exactly while
\* one is being submitted.
RoundTypeOK ==
    /\ cash \in Nat
    /\ {held, avg, peak} \subseteq [Symbol -> Nat]
    /\ \/ scheduler = NoScheduler
       \/ scheduler \in [all : Seq(Symbol), count : Nat] /\ scheduler.count \in 1 .. Len(scheduler.all)
    /\ phase \in Phase
    /\ todo \in Seq(Symbol)
    /\ found \in Seq(CandidateType) /\ rest \subseteq DOMAIN found
    /\ IF phase \in {"preview", "create"} THEN trade \in TradeType ELSE trade = NoTrade
    /\ placed \in 0 .. MaxOrders

Account(ticker) ==
    [cash |-> cash, held |-> held, avg |-> avg, price |-> price, ticker |-> ticker]

AtRest ==
    /\ phase = "rest"
    /\ view = Account(TRUE)
    /\ selected = FALSE
    /\ todo = <<>> /\ found = <<>> /\ rest = {}
    /\ asset = [qty |-> 0, avg |-> 0]
    /\ trade = NoTrade

RoundInit ==
    /\ cash = StartingKrw
    /\ held = [s \in Symbol |-> 0] /\ avg = [s \in Symbol |-> 0]
    /\ price \in Price
    /\ dynamic \in BOOLEAN
    /\ peak = [s \in Symbol |-> 0]
    /\ scheduler = NoScheduler
    /\ placed = 0
    /\ AtRest
-----------------------------------------------------------------------------
(***************************************************************************)
(* The exchange.                                                           *)
(***************************************************************************)

\* What the exchange makes of an accepted order to buy for a notional, or to
\* sell a quantity, at the market price.
Bought(s, notional) ==
    LET qty == (notional * Scale) \div price[s]
        total == held[s] + qty
    IN  /\ cash' = cash - notional - Share(notional, FeeBps)
        /\ held' = [held EXCEPT ![s] = total]
        /\ avg' = [avg EXCEPT ![s] = RoundDiv(held[s] * avg[s] + qty * price[s], total)]

Sold(s, qty) ==
    LET proceeds == Amount(qty, price[s])
    IN  /\ cash' = cash + proceeds - Share(proceeds, FeeBps)
        /\ held' = [held EXCEPT ![s] = @ - qty]
        /\ avg' = [avg EXCEPT ![s] = IF held[s] = qty THEN 0 ELSE @]

Execute(t, preview) ==
    /\ placed < MaxOrders
    /\ placed' = placed + 1
    /\ IF t.side = "buy" THEN Bought(t.symbol, preview.notional) ELSE Sold(t.symbol, preview.qty)
    /\ UNCHANGED price

\* The preview reads the account anew.
Preview(t) ==
    IF t.side = "buy" THEN PreviewBuy(t, cash) ELSE PreviewSell(t, held[t.symbol])

MarketMoves ==
    /\ phase = "rest"
    /\ price' \in Price \ {price}
    /\ view' = [view EXCEPT !.price = price']
    /\ UNCHANGED <<cash, held, avg, dynamic, peak, scheduler, phase, selected, todo, asset,
                   found, rest, trade, placed>>
-----------------------------------------------------------------------------
(***************************************************************************)
(* The symbols of a run.                                                   *)
(***************************************************************************)

FirstOf(seq, n) == SubSeq(seq, 1, Smaller(Len(seq), n))

\* The symbols of a set by the scores the selector gives them, the best first.
Ranked(S, verdicts) ==
    Listings(S, LAMBDA s, t : verdicts[s].score >= verdicts[t].score)

\* The symbols that the selector puts into a class; no two of them score the
\* same.
InClass(class, verdicts) == {s \in Symbol : verdicts[s].class = class}

\* What select returns: breakouts and range rebounds, then the soft breakouts.  A
\* symbol with too short a history, or whose candles could not be fetched, is in
\* no class.
SelectedSymbols(verdicts) ==
    {FirstOf(strict \o soft, TopN) : strict \in Ranked(InClass("strict", verdicts), verdicts),
                                    soft \in Ranked(InClass("soft", verdicts), verdicts)}

\* ranked_fallback_symbols: the best of those it rejects.
FallbackSymbols(verdicts) ==
    {FirstOf(ranked, TopN) :
        ranked \in Ranked({s \in InClass("rejected", verdicts) : verdicts[s].score > 0}, verdicts)}

Slice(seq) == FirstOf(seq, Larger(1, TopN))

\* The list with the held symbols it lacks at its end, the most valuable first.
WithHeld(seq, account) ==
    {seq \o others : others \in
        Listings(HeldSymbols(account) \ Range(seq),
                 LAMBDA s, t : AssetValue(account, s) >= AssetValue(account, t))}

\* The scheduler is kept as long as the list of symbols stays the same, with the
\* number of priority symbols it was built with.
Scheduled(seq, priority) ==
    IF scheduler # NoScheduler /\ scheduler.all = seq
    THEN scheduler
    ELSE [all |-> seq, count |-> priority]

\* get_priority_symbols: the batches of the others are never asked for.
PrioritySymbols(sched) == SubSeq(sched.all, 1, sched.count)

ScanSymbols(account, seq, isSelected) ==
    LET count == IF isSelected THEN Len(seq) ELSE Smaller(Len(seq), Larger(1, TopN))
        sched == Scheduled(seq, count)
    IN  /\ scheduler' = sched
        /\ todo' = PrioritySymbols(sched)
        /\ view' = account
        /\ selected' = isSelected
        /\ phase' = "scan"
        /\ UNCHANGED <<cash, held, avg, price, dynamic, peak, asset, found, rest, trade, placed>>

\* The account is read, with or without the prices, and the cooldown is over.
StartConfigured ==
    /\ phase = "rest" /\ ~dynamic
    /\ \E ticker \in BOOLEAN : ScanSymbols(Account(ticker), Symbols, FALSE)

StartSelected ==
    /\ phase = "rest" /\ dynamic
    /\ \E ticker \in BOOLEAN, verdicts \in Verdict :
       \E chosen \in SelectedSymbols(verdicts) \ {<<>>} :
       \E seq \in WithHeld(chosen, Account(ticker)) :
          ScanSymbols(Account(ticker), seq, TRUE)

\* The selector returned nothing: the best of those it rejected, or the first of
\* the configured ones.
StartFallback ==
    /\ phase = "rest" /\ dynamic
    /\ \E ticker \in BOOLEAN, verdicts \in Verdict :
       \E ranked \in FallbackSymbols(verdicts) :
       \E seq \in WithHeld(Slice(IF ranked = <<>> THEN Symbols ELSE ranked), Account(ticker)) :
          /\ <<>> \in SelectedSymbols(verdicts)
          /\ ScanSymbols(Account(ticker), seq, FALSE)
-----------------------------------------------------------------------------
(***************************************************************************)
(* The evaluation of a symbol: _collect_symbol_candidates.                 *)
(***************************************************************************)

FetchAsset ==
    /\ phase = "scan" /\ todo # <<>>
    /\ asset' = [qty |-> held[Head(todo)], avg |-> avg[Head(todo)]]
    /\ phase' = "evaluate"
    /\ UNCHANGED <<cash, held, avg, price, dynamic, peak, scheduler, view, selected, todo,
                   found, rest, trade, placed>>

\* A strategy cycle submits what it has approved itself.
CycleTrade(side, qty) ==
    LET t == [symbol |-> Head(todo), side |-> side, price |-> price[Head(todo)], qty |-> qty]
    IN  /\ phase = "evaluate"
        /\ Preview(t).allowed
        /\ Execute(t, Preview(t))
        /\ UNCHANGED <<dynamic, peak, scheduler, phase, view, selected, todo, asset, found,
                       rest, trade>>

\* Mutated form of WithPeak: the latest price takes the peak's place.
WithLatestPrice(s) ==
    IF Exitable(asset.qty, asset.avg, price[s]) THEN [peak EXCEPT ![s] = price[s]] ELSE peak

\* The override of each strategy updates the peak, all with the same price.
WithPeak(s) ==
    IF Exitable(asset.qty, asset.avg, price[s])
    THEN [peak EXCEPT ![s] = NextPeak(@, price[s])]
    ELSE peak

\* The candidates of the symbol, one of each strategy: all of them are evaluated
\* on the same candles and the same asset.
Collected(opinion) ==
    LET s == Head(todo)
    IN  [i \in DOMAIN Strategies |->
            Candidate(s, Strategies[i], opinion.review[Strategies[i]], asset, price[s], peak[s])]

\* The regime that the run chooses by: "unknown", which is normalised to this one.
\* _decision_summary puts what the classifier found into the review only, and the
\* run looks for it beside the review.
RegimeRead == "uncertain"

\* One candidate at most is left of the symbol.
Collect(opinion) ==
    LET s == Head(todo)
    IN  /\ phase = "evaluate"
        /\ found' = found \o Choose(Collected(opinion), RegimeRead)
        /\ peak' = WithPeak(s)
        /\ todo' = Tail(todo)
        /\ phase' = IF Len(todo) = 1 THEN "decide" ELSE "scan"
        /\ asset' = [qty |-> 0, avg |-> 0]
        /\ UNCHANGED <<cash, held, avg, price, dynamic, scheduler, view, selected, rest,
                       trade, placed>>
-----------------------------------------------------------------------------
(***************************************************************************)
(* The decision: run_once after the evaluation, on the account of its      *)
(* start.                                                                  *)
(***************************************************************************)

\* The indices of the candidates that buy, and of those that can be executed.
Buys == {i \in DOMAIN found : found[i].action = "buy"}
ExecutableBuys == {i \in Buys : BuyExecutable(view, found[i])}

\* A candidate that sells is managed, which the rest of the dust filter asks for.
Sells ==
    {i \in DOMAIN found :
        /\ found[i].action = "sell"
        /\ Buys # {} => AtLeastMin(found[i].qty, found[i].price)}

BestBuyOf(indices) == Foremost(found, indices, ScoresMore)
BestSell == found[Foremost(found, Sells, SellBefore)]

BuyTrade(c) ==
    [symbol |-> c.symbol, side |-> "buy", price |-> c.price, qty |-> BuyQty(view, c)]
SellTrade(c) ==
    [symbol |-> c.symbol, side |-> "sell", price |-> c.price, qty |-> SellQty(c)]

Try(t, fallbacks) ==
    /\ trade' = t
    /\ rest' = fallbacks
    /\ phase' = "preview"
    /\ UNCHANGED <<cash, held, avg, price, dynamic, peak, scheduler, view, selected, todo,
                   asset, found, placed>>

\* A better executable buy comes before a sell that is no stop-loss.
BuyOutranksSell ==
    /\ BestSell.override.reason # "stop_loss"
    /\ ExecutableBuys # {}
    /\ ScoresMore(found[BestBuyOf(ExecutableBuys)], BestSell)

DecideSell ==
    /\ phase = "decide" /\ Sells # {}
    /\ ~BuyOutranksSell
    /\ Try(SellTrade(BestSell), {})

DecideBuyOverSell ==
    /\ phase = "decide" /\ Sells # {}
    /\ BuyOutranksSell
    /\ Try(BuyTrade(found[BestBuyOf(ExecutableBuys)]), {})

\* The executable buys are tried from the best on.
TryBuysOf(indices) ==
    LET best == BestBuyOf(indices) IN Try(BuyTrade(found[best]), indices \ {best})

DecideBuy ==
    /\ phase = "decide" /\ Sells = {}
    /\ ExecutableBuys # {}
    /\ TryBuysOf(ExecutableBuys)

\* The run is over, with a result or an exception.
EndRun ==
    /\ phase' = "rest"
    /\ view' = [cash |-> cash', held |-> held', avg |-> avg', price |-> price, ticker |-> TRUE]
    /\ selected' = FALSE
    /\ todo' = <<>> /\ found' = <<>> /\ rest' = {}
    /\ asset' = [qty |-> 0, avg |-> 0]
    /\ trade' = NoTrade

\* Nothing to do, or no buy that is large enough.
DecideNothing ==
    /\ phase = "decide" /\ Sells = {} /\ ExecutableBuys = {}
    /\ UNCHANGED <<cash, held, avg, price, dynamic, peak, scheduler, placed>>
    /\ EndRun
-----------------------------------------------------------------------------
(***************************************************************************)
(* _submit_trade.                                                          *)
(***************************************************************************)

\* submit_order previews once more, on the same account, and orders that.
PreviewAllowed ==
    /\ phase = "preview"
    /\ Preview(trade).allowed
    /\ phase' = "create"
    /\ UNCHANGED <<cash, held, avg, price, dynamic, peak, scheduler, view, selected, todo,
                   asset, found, rest, trade, placed>>

NextBuy ==
    /\ phase = "preview" /\ ~Preview(trade).allowed
    /\ rest # {}
    /\ TryBuysOf(rest)

PreviewBlocked ==
    /\ phase = "preview" /\ ~Preview(trade).allowed
    /\ rest = {}
    /\ UNCHANGED <<cash, held, avg, price, dynamic, peak, scheduler, placed>>
    /\ EndRun

Create ==
    /\ phase = "create"
    /\ Execute(trade, Preview(trade))
    /\ EndRun
    /\ UNCHANGED <<dynamic, peak, scheduler>>

\* A call to the exchange or the run history raises.
RunFails ==
    /\ phase # "rest"
    /\ UNCHANGED <<cash, held, avg, price, dynamic, peak, scheduler, placed>>
    /\ EndRun

\* Peaks and scheduler are kept in memory only.
Restart ==
    /\ peak' = [s \in Symbol |-> 0]
    /\ scheduler' = NoScheduler
    /\ UNCHANGED <<cash, held, avg, price, dynamic, placed>>
    /\ EndRun

RoundNext ==
    \/ StartConfigured \/ StartSelected \/ StartFallback
    \/ FetchAsset
    \/ \E side \in {"buy", "sell"}, qty \in CycleQty : CycleTrade(side, qty)
    \/ \E opinion \in Opinion : Collect(opinion)
    \/ DecideSell \/ DecideBuyOverSell \/ DecideBuy \/ DecideNothing
    \/ PreviewAllowed \/ NextBuy \/ PreviewBlocked \/ Create
    \/ RunFails \/ Restart \/ MarketMoves

RoundSpec == RoundInit /\ [][RoundNext]_vars
-----------------------------------------------------------------------------
(***************************************************************************)
(* Properties.                                                             *)
(***************************************************************************)

\* Nothing was ordered since the run has read the account.
Undisturbed == view.cash = cash /\ view.held = held /\ view.avg = avg

InLoss(s) ==
    Exitable(held[s], avg[s], price[s]) /\ LossAtLeast(price[s], avg[s], StopLossBps)

\* A position at its stop-loss is sold, and whole, before a run does anything
\* else: whatever its strategies say, and whatever else could be traded.
StopLossFirst ==
    phase \in {"preview", "create"} /\ Undisturbed =>
        \A s \in Range(PrioritySymbols(scheduler)) :
            InLoss(s) => /\ trade.side = "sell"
                         /\ InLoss(trade.symbol)
                         /\ trade.qty = held[trade.symbol]

\* A buy keeps the account within max_total_exposure and the symbol within
\* max_symbol_exposure, after the raise to the minimum and all roundings.
BuysStayInRoom ==
    phase = "create" /\ trade.side = "buy" /\ Undisturbed =>
        LET notional == Preview(trade).notional
            equity == view.cash + Exposure(view)
        IN  /\ Exposure(view) + notional <= Share(equity, TotalBps)
            /\ AssetValue(view, trade.symbol) + notional <= Share(equity, SymbolBps)

\* An order that is submitted is one the exchange accepts: it is worth the
\* minimum, and the account holds what it spends, also after an armed cycle has
\* traded in the same run.
ExchangeNeverRejects ==
    phase = "create" =>
        IF trade.side = "buy"
        THEN LET notional == Preview(trade).notional
             IN  notional >= MinNotional /\ notional + Share(notional, FeeBps) <= cash
        ELSE LET qty == Preview(trade).qty
             IN  qty <= held[trade.symbol] /\ AtLeastMin(qty, trade.price)

\* The price that a trailing stop is measured from never falls while the process
\* lives, whatever the run it is in comes to.
PeaksOnlyRise ==
    [][peak' = [s \in Symbol |-> 0] \/ \A s \in Symbol : peak'[s] >= peak[s]]_vars

\* A buy that a strategy asks for, worth an order and of a strategy that the
\* selection allows in the regime of the market, makes its symbol a candidate
\* (test_auto_trade_uses_ranked_dynamic_fallback_slice_when_selector_returns_zero).
AllowedBuysFound ==
    [][\A opinion \in Opinion :
          /\ Collect(opinion)
          /\ \E c \in Range(Collected(opinion)) :
                c.action = "buy" /\ Selectable(c, opinion.regime)
          => Len(found') > Len(found)]_vars
=============================================================================
