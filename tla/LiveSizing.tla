----------------------------- MODULE LiveSizing -----------------------------
(***************************************************************************)
(* What a run of the automatic trading loop decides about one candidate:   *)
(* the exit override, choice, score and sizes of auto_trade_service.py,    *)
(* exit/application/evaluator.py and strategy_selection_service.py, the    *)
(* values of account_service.py, the preview of live_execution_service.py  *)
(* and the ticks of exchange_rules_service.py.                             *)
(*                                                                         *)
(* Nothing is on order, so the locked balances are left out.               *)
(***************************************************************************)
EXTENDS Money, Orderings

CONSTANTS
    Symbols,        \* settings.symbols, in their order
    Ladder,         \* the tick sizes: records of a price and the tick from there on
    MinKrw,         \* auto_trade_min_krw_balance
    AllocationBps,  \* auto_trade_target_allocation_pct
    TotalBps,       \* auto_trade_max_total_exposure_pct
    SymbolBps,      \* max_symbol_exposure_pct
    Meaningful,     \* auto_trade_meaningful_order_notional
    MinManaged,     \* auto_trade_min_managed_position_notional
    StopLossBps,    \* auto_trade_stop_loss_pct
    TakeProfitBps,  \* auto_trade_partial_take_profit_pct
    TrailBps,       \* auto_trade_trailing_stop_pct
    SellRatioBps,   \* auto_trade_partial_sell_ratio
    Thousand        \* the amount that stands for 1000 KRW in a score

Symbol == Range(Symbols)

ASSUME LiveSizingAssumption ==
    /\ Symbols \in Seq(STRING) /\ Len(Symbols) > 0 /\ IsInjective(Symbols)
    /\ Ladder \subseteq [from : Nat, tick : Nat \ {0}]
    /\ \E rung \in Ladder : rung.from = 0
    /\ {MinKrw, TotalBps, SymbolBps, Meaningful, MinManaged} \subseteq Nat
    /\ {StopLossBps, TakeProfitBps, TrailBps} \subseteq Nat
    /\ {AllocationBps, SellRatioBps} \subseteq 1 .. BasisPoints
    /\ Thousand \in Nat \ {0}

AtLeastMin(qty, price) == Cost(qty, price) >= MinNotional * Scale
-----------------------------------------------------------------------------
(***************************************************************************)
(* The account as one answer of the exchange shows it: cash, and quantity, *)
(* average and market price of each symbol; ticker says that the prices    *)
(* could be fetched.                                                       *)
(***************************************************************************)

\* What a holding counts for: its market value, without prices its cost.
AssetValue(account, s) ==
    Amount(account.held[s], IF account.ticker THEN account.price[s] ELSE account.avg[s])

Exposure(account) ==
    LET upTo[n \in 0 .. Len(Symbols)] ==
            IF n = 0 THEN 0 ELSE upTo[n - 1] + AssetValue(account, Symbols[n])
    IN  upTo[Len(Symbols)]

\* The configured symbols held for at least what is managed or can be sold.
HeldSymbols(account) ==
    {s \in Symbol : account.held[s] > 0
                    /\ AssetValue(account, s) >= Smaller(MinManaged, MinNotional)}
-----------------------------------------------------------------------------
(***************************************************************************)
(* The candidate of a strategy.                                            *)
(***************************************************************************)

NoOverride == [reason |-> "none", ratio |-> 0]

\* evaluate_live_exit_override; 0 stands for a peak that is not known.
NextPeak(peak, price) == Larger(peak, price)

LiveExit(avg, price, peak) ==
    LET top == NextPeak(peak, price)
    IN  IF LossAtLeast(price, avg, StopLossBps)
        THEN [reason |-> "stop_loss", ratio |-> BasisPoints]
        ELSE IF /\ GainAtLeast(top, avg, TakeProfitBps)
                /\ price > avg
                /\ LossAtLeast(price, top, TrailBps)
        THEN [reason |-> "take_profit_trailing_stop", ratio |-> SellRatioBps]
        ELSE NoOverride

\* A holding that an exit override can sell: worth managing by its cost, and
\* worth an order by its price.
Managed(qty, avg) == Amount(qty, avg) >= MinManaged
Exitable(qty, avg, price) == qty > 0 /\ avg > 0 /\ Managed(qty, avg) /\ AtLeastMin(qty, price)

\* The candidate made of a strategy's review.  A signal to sell what cannot be
\* sold is held back.
Candidate(s, strategy, review, asset, price, peak) ==
    LET exitable == Exitable(asset.qty, asset.avg, price)
        override == IF exitable THEN LiveExit(asset.avg, price, peak) ELSE NoOverride
        action == IF override # NoOverride THEN "sell"
                  ELSE IF review.action = "sell" /\ ~exitable THEN "hold"
                  ELSE review.action
    IN  [symbol |-> s, strategy |-> strategy, action |-> action,
         confidence |-> review.confidence, target |-> review.target,
         override |-> override, price |-> price, qty |-> asset.qty]

\* round(confidence * 100 + min(target_notional / 1000, 20), 6) without the
\* fractions.
Score(c) ==
    IF c.action = "hold" THEN 0
    ELSE c.confidence * Thousand + 100 * Smaller(c.target, 20 * Thousand)

\* StrategySelectionService.  The table has one entry that differs by symbol.
AllowedStrategies(s, regime) ==
    IF regime = "trend_up" THEN {"trend_following"}
    ELSE IF regime = "uncertain" \/ (regime = "trend_down" /\ s = "SOL/KRW")
    THEN {"mean_reversion", "dca"}
    ELSE {"trend_following", "mean_reversion", "dca"}

Selectable(c, regime) ==
    /\ c.action # "hold"
    /\ c.action = "sell" \/ c.strategy \in AllowedStrategies(c.symbol, regime)
    /\ ~(c.action = "buy" /\ c.strategy = "trend_following" /\ regime = "trend_down")
    /\ ~(c.action = "buy" /\ c.target < MinNotional)

ScoresMore(c, d) == Score(c) > Score(d)

\* The candidate of a symbol, as a sequence of none or one.
Choose(candidates, regime) ==
    LET filtered == {i \in DOMAIN candidates : Selectable(candidates[i], regime)}
    IN  IF filtered = {} THEN <<>>
        ELSE <<candidates[Foremost(candidates, filtered, ScoresMore)]>>

Priority(c) ==
    CASE c.override.reason = "none" -> 0
      [] c.override.reason = "stop_loss" -> 300
      [] OTHER -> 200

\* Mutated form of SellBefore: the score alone decides.
SellBeforeByScore(c, d) == ScoresMore(c, d)

SellBefore(c, d) ==
    Priority(c) > Priority(d) \/ (Priority(c) = Priority(d) /\ ScoresMore(c, d))
-----------------------------------------------------------------------------
(***************************************************************************)
(* Sizes.                                                                  *)
(***************************************************************************)

\* The largest notional that leaves the fee in the account.
Affordable(cash) == (cash * BasisPoints) \div (BasisPoints + FeeBps)

\* Mutated form of BuyTarget: the raise to the minimum comes after the caps.
BuyTargetRaisedLast(account, s, reviewed) ==
    LET exposure == Exposure(account)
        equity == account.cash + exposure
        room == Larger(0, Share(equity, TotalBps) - exposure)
        symbolRoom == Larger(0, Share(equity, SymbolBps) - AssetValue(account, s))
        capped == Smaller(Smaller(Share(account.cash, AllocationBps), reviewed), room)
    IN  Larger(MinNotional, Smaller(Smaller(capped, symbolRoom), Affordable(account.cash)))

\* What a buy may spend: a share of the cash and what the risk controller has
\* reviewed, within the room of the whole account, raised to the minimum if
\* that room allows, and within the room of the symbol and the cash.
BuyTarget(account, s, reviewed) ==
    LET exposure == Exposure(account)
        equity == account.cash + exposure
        room == Larger(0, Share(equity, TotalBps) - exposure)
        symbolRoom == Larger(0, Share(equity, SymbolBps) - AssetValue(account, s))
        capped == Smaller(Smaller(Share(account.cash, AllocationBps), reviewed), room)
        raised == IF room >= MinNotional THEN Larger(capped, MinNotional) ELSE capped
    IN  Smaller(Smaller(raised, symbolRoom), Affordable(account.cash))

\* _buy_candidate_is_executable; the skips of _handle_buy are its negation.
BuyExecutable(account, c) ==
    /\ account.cash >= MinKrw
    /\ c.target >= MinNotional
    /\ BuyTarget(account, c.symbol, c.target) >= Meaningful

BuyQty(account, c) == (BuyTarget(account, c.symbol, c.target) * Scale) \div c.price

\* The override's part of the balance, otherwise as much as the confidence
\* says, and the whole balance when that part is too small to sell.
SellQty(c) ==
    LET ratio == IF c.override # NoOverride THEN c.override.ratio
                 ELSE Smaller(Larger(c.confidence, 2500), BasisPoints)
        part == Share(c.qty, ratio)
    IN  IF ~AtLeastMin(part, c.price) /\ AtLeastMin(c.qty, c.price) THEN c.qty ELSE part
-----------------------------------------------------------------------------
(***************************************************************************)
(* preview_order.                                                          *)
(***************************************************************************)

Tick(price) ==
    LET below == {rung \in Ladder : rung.from <= price}
    IN  (CHOOSE rung \in below : \A other \in below : other.from <= rung.from).tick

Normalized(price) == (price \div Tick(price)) * Tick(price)

\* A market order to buy names what it spends: at least the minimum, and no more
\* than the cash pays with the fee.
PreviewBuy(trade, cash) ==
    LET asked == Larger(MinNotional, Amount(trade.qty, trade.price))
        notional == Smaller(asked, RoundDiv(cash * BasisPoints, BasisPoints + FeeBps))
    IN  [notional |-> notional, qty |-> 0,
         allowed |-> notional >= MinNotional /\ notional + Share(notional, FeeBps) <= cash]

\* Mutated form of PreviewSell: the quantity is not trimmed to the balance.
PreviewSellUntrimmed(trade, balance) ==
    LET notional == RoundDiv(Cost(trade.qty, Normalized(trade.price)) * (BasisPoints - SlipBps),
                             BasisPoints * Scale)
    IN  [notional |-> notional, qty |-> trade.qty, allowed |-> notional >= MinNotional]

\* Mutated form of PreviewSell: what is left of the balance may be too small.
PreviewSellUnchecked(trade, balance) ==
    LET qty == Smaller(trade.qty, balance) IN [notional |-> 0, qty |-> qty, allowed |-> qty > 0]

\* A market order to sell names a quantity, no more than the balance; it must
\* be worth the minimum after slippage.
PreviewSell(trade, balance) ==
    LET qty == Smaller(trade.qty, balance)
        notional == RoundDiv(Cost(qty, Normalized(trade.price)) * (BasisPoints - SlipBps),
                             BasisPoints * Scale)
    IN  [notional |-> notional, qty |-> qty, allowed |-> notional >= MinNotional]
=============================================================================
