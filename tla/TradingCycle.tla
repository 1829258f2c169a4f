---------------------------- MODULE TradingCycle -----------------------------
(***************************************************************************)
(* services/trading_cycle.py: one strategy cycle on the account.           *)
(*                                                                         *)
(* The strategy gives a signal, the strategy's and the broker's exit rules *)
(* may replace it by a forced exit, routing and the risk controller may    *)
(* hold it back, the risk controller sizes it, and what is approved goes   *)
(* to the paper broker, or to the exchange when the process is armed       *)
(* (live_mode "live" and confirmed).  The price is marked, which persists  *)
(* the account, before the order is submitted.                             *)
(*                                                                         *)
(* Candles are abstracted to what the rules read of them: the latest       *)
(* price, the signal and the market classification.                        *)
(***************************************************************************)
EXTENDS PaperBroker, RiskControl

CONSTANTS
    NoReview,
    Confidence,         \* confidences a strategy may have, in basis points
    Market,             \* market classifications to explore
    StrategyStopBps, StrategyTakeBps, \* stop_loss_pct, take_profit_pct
    ReboundBps,         \* managed_rebound_exit_threshold
    SidewayFilter,      \* sideway_filter_enabled and its thresholds
    GapThreshold, RangeThreshold, BlockOnLow,
    BreakoutException,  \* sideway_filter_breakout_exception_enabled
    BreakoutGap, BreakoutMomentum, AllowBearish, AllowLow,
    UncertainBlock,     \* uncertain_block_enabled
    TrendRegimes, RangeRegimes \* strategy_allowed_regimes

Regime == {"trend_up", "trend_down", "sideways", "uncertain"}

\* What MarketRegimeClassifier says of the candles, numbers in basis points.
MarketInfo ==
    [regime : Regime, gap : Int, range : Nat, momentum : Int, vol : Volatility, bias : Bias]

ASSUME CycleAssumption ==
    /\ Confidence \subseteq 0 .. BasisPoints
    /\ Market \subseteq MarketInfo
    /\ {StrategyStopBps, StrategyTakeBps, ReboundBps} \subseteq Nat \ {0}
    /\ {GapThreshold, RangeThreshold} \subseteq Nat
    /\ {BreakoutGap, BreakoutMomentum} \subseteq Int
    /\ {SidewayFilter, BlockOnLow, BreakoutException, AllowBearish, AllowLow,
        UncertainBlock} \subseteq BOOLEAN
    /\ TrendRegimes \subseteq Regime /\ RangeRegimes \subseteq Regime

VARIABLES
    review,     \* the reviewed signal a thread has in hand
    armed,      \* whether this process trades on the exchange
    sent        \* orders sent to the exchange

cycleVars == <<vars, review, armed, sent>>

\* mean_reversion and dca are the range strategies.
Strategy == {"trend_following", "mean_reversion", "dca"}

\* review["approved"] and what the submission reads of the review.
Review ==
    [symbol : Symbol, side : {"buy", "sell", "hold"}, approved : BOOLEAN, size : Nat,
     price : Price, tp : BOOLEAN, conf : 0 .. BasisPoints]

CycleTypeOK ==
    /\ TypeOK
    /\ review \in [Thread -> Review \cup {NoReview}]
    /\ armed \in BOOLEAN
    /\ sent \in Seq(Fill)

CycleInit ==
    /\ Init
    /\ review = [t \in Thread |-> NoReview]
    /\ armed = FALSE
    /\ sent = <<>>
-----------------------------------------------------------------------------
(***************************************************************************)
(* Signals and exits.                                                      *)
(***************************************************************************)

\* With fewer than eight candles a strategy holds and gives no hints.
NoHint == [stop |-> 0, take |-> 0, rebound |-> 0, reversal |-> FALSE]

HintOf(strategy, reversal) ==
    IF strategy = "trend_following"
    THEN [stop |-> StrategyStopBps, take |-> StrategyTakeBps, rebound |-> 0, reversal |-> reversal]
    ELSE [stop |-> 0, take |-> 0, rebound |-> ReboundBps, reversal |-> FALSE]

\* mean_reversion is at least half sure of a buy, dca exactly.
BuyConfidence(strategy, c) ==
    CASE strategy = "trend_following" -> c
      [] strategy = "mean_reversion" -> Larger(c, BasisPoints \div 2)
      [] strategy = "dca" -> BasisPoints \div 2

\* generate_signal: a strategy holds while a position is open, and leaves its
\* exit to the hints.
Signals(pos, strategy) ==
    LET silent == [strategy |-> strategy, action |-> "hold", conf |-> 0, hint |-> NoHint]
        buys == {[silent EXCEPT !.action = "buy", !.conf = BuyConfidence(strategy, c)] :
                    c \in Confidence}
        sells == {[silent EXCEPT !.action = "sell", !.conf = c] : c \in Confidence}
    IN  {silent} \cup
        IF pos.qty > 0
        THEN {[silent EXCEPT !.hint = HintOf(strategy, r)] : r \in BOOLEAN}
        ELSE IF strategy = "dca" THEN buys
        ELSE buys \cup sells

\* exit_priority: _exit_priority_value of the broker's exits, below them the
\* strategy's.
ExitPriority(source, reason) ==
    IF source = "strategy" THEN 100
    ELSE IF reason = "atr_stop" THEN 240
    ELSE IF reason \in {"trailing_stop", "timeout"} THEN 230
    ELSE 220

\* _resolve_exit_signal: the exit with the highest priority, or Hold.
ResolveExit(pos, price, hint, late) ==
    LET own == StrategyExit(pos, price, hint)
        brokers == PositionExit(pos, price, late)
    IN  IF brokers.reason = "hold" THEN own
        ELSE IF own.reason = "hold" THEN brokers
        ELSE IF ExitPriority("broker", brokers.reason) > ExitPriority("strategy", own.reason)
        THEN brokers ELSE own
-----------------------------------------------------------------------------
(***************************************************************************)
(* Routing.                                                                *)
(***************************************************************************)

TrendInSideways(strategy, m) == strategy = "trend_following" /\ m.regime = "sideways"

\* _should_block_for_sideways
FlatMarket(strategy, m) ==
    /\ SidewayFilter /\ TrendInSideways(strategy, m)
    /\ \/ BlockOnLow /\ m.vol = "low"
       \/ m.gap \in 1 - GapThreshold .. GapThreshold - 1
       \/ m.range < RangeThreshold

\* _check_sideways_exception_pass
BreakoutPass(strategy, m) ==
    /\ BreakoutException /\ TrendInSideways(strategy, m)
    /\ m.momentum > BreakoutMomentum
    /\ m.gap >= BreakoutGap
    /\ AllowBearish \/ m.bias # "bearish"
    /\ AllowLow \/ m.vol # "low"

\* _route_block_reason: a sell is never blocked by its regime.
RegimeBlocked(strategy, action, m) ==
    /\ action # "sell"
    /\ IF strategy = "trend_following"
       THEN m.regime \notin TrendRegimes \/ (UncertainBlock /\ m.regime = "uncertain")
       ELSE m.regime \notin RangeRegimes \cup {"uncertain"}

\* Mutated form of HeldBack: forced exits are routed like entries.
HeldBackForced(strategy, action, force, m) ==
    /\ ~BreakoutPass(strategy, m)
    /\ \/ FlatMarket(strategy, m)
       \/ RegimeBlocked(strategy, action, m)
       \/ TrendInSideways(strategy, m) /\ "sideways" \notin TrendRegimes

HeldBack(strategy, action, force, m) ==
    /\ ~force
    /\ ~BreakoutPass(strategy, m)
    /\ \/ FlatMarket(strategy, m)
       \/ RegimeBlocked(strategy, action, m)
       \/ TrendInSideways(strategy, m) /\ "sideways" \notin TrendRegimes
-----------------------------------------------------------------------------
(***************************************************************************)
(* The cycle.                                                              *)
(***************************************************************************)

\* The review of signal g for symbol s, its exits resolved and its size set:
\* a forced sell has its exit's, another sell the position's.
Reviewed(b, s, price, g, m, late, blackout) ==
    LET pos == b.pos[s]
        trend == g.strategy = "trend_following"
        exit == ResolveExit(pos, price, g.hint, late)
        force == exit.reason # "hold"
        action == IF force THEN "sell" ELSE g.action
        side == IF HeldBack(g.strategy, action, force, m) THEN "hold" ELSE action
        approved == Approved(trend, side, force, m.bias, blackout)
        size == IF side = "buy" THEN EntrySize(g.conf, b.cash, b.losing, m.vol, price)
                ELSE IF force /\ exit.qty # 0 THEN Smaller(exit.qty, pos.qty)
                ELSE pos.qty
    IN  [symbol |-> s, side |-> side, approved |-> approved, size |-> IF approved THEN size ELSE 0,
         price |-> price, tp |-> force /\ exit.reason = "partial_take_profit", conf |-> g.conf]

\* The reviews a cycle can come to, whatever the strategy, market and hour.
Reviews(b, s, price) ==
    LET signals == UNION {Signals(b.pos[s], strategy) : strategy \in Strategy}
    IN  {Reviewed(b, s, price, g, m, late, blackout) :
            g \in signals, m \in Market, late \in BOOLEAN, blackout \in BOOLEAN}

\* Signal, exits, routing, review and mark_price, which may raise.
Evaluate(t, s, price) ==
    /\ review[t] = NoReview
    /\ Len(book.orders) + Len(sent) < MaxOrders /\ Len(ledger.logs) < MaxOrders
    /\ Commit(t, [book EXCEPT !.pos[s] = AfterExitRules(@, price), !.last[s] = price])
    /\ IF raises' = raises
       THEN \E r \in Reviews(book, s, price) : review' = [review EXCEPT ![t] = r]
       ELSE UNCHANGED review
    /\ UNCHANGED <<armed, sent>>

Approving(t) == review[t] # NoReview /\ review[t].approved

RequestOf(r) == [side |-> r.side, symbol |-> r.symbol, size |-> r.size, price |-> r.price, tp |-> r.tp]

DropReview(t) == review' = [review EXCEPT ![t] = NoReview]

\* Nothing approved: the cycle ends.
EndCycle(t) ==
    /\ review[t] # NoReview /\ ~review[t].approved
    /\ DropReview(t)
    /\ UNCHANGED <<vars, armed, sent>>

SubmitToBroker(t) ==
    /\ Approving(t) /\ ~armed
    /\ Check(t, RequestOf(review[t]))
    /\ DropReview(t)
    /\ UNCHANGED <<armed, sent>>

RejectedByBroker(t) ==
    /\ Approving(t) /\ ~armed
    /\ ~Accepts(book, Priced(book, RequestOf(review[t])))
    /\ DropReview(t)
    /\ UNCHANGED <<vars, armed, sent>>

\* The exchange's order leaves the paper account alone; it may be blocked.
SubmitToExchange(t) ==
    /\ Approving(t) /\ armed
    /\ LET r == review[t]
       IN  sent' \in {sent, Append(sent, [symbol |-> r.symbol, side |-> r.side, tp |-> r.tp])}
    /\ DropReview(t)
    /\ UNCHANGED <<vars, armed>>

\* The rest of the broker's submit.
FinishSubmit(t) ==
    /\ FillStep(t)
    /\ UNCHANGED <<review, armed, sent>>

\* A shadow cycle overwrites the position before it evaluates; the operator
\* resets the account.
ChangeAccount(t) ==
    /\ review[t] = NoReview
    /\ \/ \E s \in Symbol, h \in Holding : SyncExchangePosition(t, s, h)
       \/ Reset(t)
    /\ UNCHANGED <<review, armed, sent>>

\* The process may be started again with other settings.
Restart ==
    /\ Crash
    /\ review' = [t \in Thread |-> NoReview]
    /\ armed' \in BOOLEAN
    /\ UNCHANGED sent

CycleStep(t) ==
    \/ \E s \in Symbol, p \in Price : Evaluate(t, s, p)
    \/ EndCycle(t) \/ SubmitToBroker(t) \/ RejectedByBroker(t) \/ SubmitToExchange(t)
    \/ FinishSubmit(t)
    \/ ChangeAccount(t)

CycleNext == (\E t \in Thread : CycleStep(t)) \/ Restart

CycleSpec == CycleInit /\ [][CycleNext]_cycleVars
-----------------------------------------------------------------------------
(***************************************************************************)
(* Properties.                                                             *)
(***************************************************************************)

\* No entry is made against an exit: when the broker's rules want to sell at
\* the price of a review, it is an approved sell of what they want sold,
\* whatever the strategy, the market, the hour and the settings say.
ExitsOutrankSignals ==
    \A t \in Thread :
        review[t] # NoReview =>
            LET r == review[t]
                exit == PositionExit(book.pos[r.symbol], r.price, FALSE)
            IN  exit.reason # "hold" => r.approved /\ r.side = "sell" /\ r.size = exit.qty

\* The first target of a position is sold once: between two such sells of a
\* symbol the account has bought again.  The restart and the exchange's numbers
\* do not arm the target anew.
TargetSpentOnce ==
    \A i, j \in DOMAIN book.orders :
        LET a == book.orders[i]
            b == book.orders[j]
        IN  i < j /\ a.tp /\ b.tp /\ a.symbol = b.symbol =>
                \E k \in i + 1 .. j - 1 :
                    book.orders[k].symbol = a.symbol /\ book.orders[k].side = "buy"

\* An approved entry is one the account can pay: what the broker will ask for,
\* slippage and fee included, exceeds the cash by rounding at most, half a
\* quantity unit, half an amount of the price of what is bought, and two
\* amounts; the fee no more than doubles the first two.
ApprovedEntriesAffordable ==
    \A t \in Thread :
        Approving(t) /\ review[t].side = "buy" =>
            LET o == Priced(book, RequestOf(review[t]))
            IN  2 * Scale * (o.notional + o.fee - 2 - book.cash) <= 2 * (o.exec + o.qty)

\* In normal mode an entry that asks for at least an order, and has the cash for
\* it, becomes a position whose first target can be sold: the slice is less
\* than the position, and the broker takes it after slippage.
TargetedEntry(r) ==
    /\ r.approved /\ r.side = "buy" /\ book.pos[r.symbol].qty = 0
    /\ RiskMode(book.losing) = "normal"
    /\ Targeted(r.conf, book.cash)
    /\ Affordable(book.cash) >= TargetEntry

EntriesCanTakeProfit ==
    \A t \in Thread :
        review[t] # NoReview /\ TargetedEntry(review[t]) =>
            LET o == Priced(book, RequestOf(review[t]))
                pos == AfterBuy(book, o).pos[o.symbol]
                slice == TakeProfitQty(pos.qty, pos.tp1)
            IN  /\ slice < pos.qty
                /\ Amount(slice, ExecutedPrice("sell", pos.tp1)) >= MinNotional
=============================================================================
