----------------------------- MODULE ExitRules ------------------------------
(***************************************************************************)
(* features/exit/application/evaluator.py: the exit decision for one       *)
(* position at one price.                                                  *)
(*                                                                         *)
(* Stop, take-profit and trailing prices are 0 when the code has None: the *)
(* code tests them for truth, and a price is positive.  trailing_active    *)
(* and trailing_stop_price are always set and cleared together, so the     *)
(* trailing price stands for both.                                         *)
(***************************************************************************)
EXTENDS Money

CONSTANTS
    TpEnabled,          \* partial_take_profit_enabled
    TpSizeBps,          \* tp1_size_pct
    TrailEnabled,       \* trailing_stop_enabled
    TrailActivationBps, \* trailing_activation_ratio
    TrailDistanceBps,   \* trailing_distance_ratio
    TimeoutEnabled,     \* timeout_exit_enabled
    MinProgressBps      \* min_progress_pct

ASSUME ExitAssumption ==
    /\ {TpEnabled, TrailEnabled, TimeoutEnabled} \subseteq BOOLEAN
    /\ TpSizeBps \in 1 .. BasisPoints
    /\ TrailDistanceBps \in 0 .. BasisPoints - 1
    /\ {TrailActivationBps, MinProgressBps} \subseteq Nat

Position ==
    [qty : Nat, avg : Nat, stop : Nat, tp1 : Nat, tp1Done : BOOLEAN, trail : Nat]

NoPosition ==
    [qty |-> 0, avg |-> 0, stop |-> 0, tp1 |-> 0, tp1Done |-> FALSE, trail |-> 0]

\* Whether an order for qty at a price reaches the minimum notional.
Executable(qty, price) == Cost(qty, price) >= MinNotional * Scale

TrailingStop(price) == Share(price, BasisPoints - TrailDistanceBps)

\* Mutated form of Ratchet: the stop follows the price down as well.
RatchetBoth(trail, price) == TrailingStop(price)

\* The trailing stop moves with the price, and only upwards.
Ratchet(trail, price) ==
    IF trail = 0 THEN TrailingStop(price) ELSE Larger(trail, TrailingStop(price))

\* Half of the position, raised to the smallest executable quantity, and the
\* whole of it when what remains could not be sold any more.
TakeProfitQty(qty, price) ==
    LET half == Share(qty, TpSizeBps)
        bumped ==
            IF ~Executable(half, price) /\ Executable(qty, price)
            THEN Smaller(qty, CeilDiv(MinNotional * Scale * BasisPoints,
                                      price * (BasisPoints - SlipBps)))
            ELSE half
        rest == qty - bumped
    IN  IF rest > 0 /\ ~Executable(rest, price) THEN qty ELSE bumped

TakesProfit(pos, price) ==
    TpEnabled /\ ~pos.tp1Done /\ pos.tp1 # 0 /\ price >= pos.tp1

\* The trailing stop after the position has been evaluated at a price.
NextTrail(pos, price) ==
    IF TrailEnabled /\ (TakesProfit(pos, price)
                          \/ GainAtLeast(price, pos.avg, TrailActivationBps))
    THEN Ratchet(pos.trail, price)
    ELSE pos.trail

Hold == [reason |-> "hold", qty |-> 0]

SellAll(pos, reason) == [reason |-> reason, qty |-> pos.qty]

\* evaluate_position_exit: the first rule that applies decides.  timedOut says
\* that the position is older than max_holding_minutes.  The broker passes no
\* trend_reversal.
PositionExit(pos, price, timedOut) ==
    LET trail == NextTrail(pos, price)
    IN  IF pos.qty = 0 \/ pos.avg = 0 THEN Hold
        ELSE IF TakesProfit(pos, price)
        THEN [reason |-> "partial_take_profit", qty |-> TakeProfitQty(pos.qty, price)]
        ELSE IF trail # 0 /\ price <= trail THEN SellAll(pos, "trailing_stop")
        ELSE IF pos.stop # 0 /\ price <= pos.stop THEN SellAll(pos, "atr_stop")
        ELSE IF TimeoutEnabled /\ timedOut /\ ~GainAtLeast(price, pos.avg, MinProgressBps)
        THEN SellAll(pos, "timeout")
        ELSE Hold

\* What a strategy tells about an open position, in basis points; 0 stands for
\* a hint that the signal does not carry.
Hint == [stop : Nat, take : Nat, rebound : Nat, reversal : BOOLEAN]

\* evaluate_strategy_exit.  Every exit sells the whole position.
StrategyExit(pos, price, hint) ==
    IF pos.qty = 0 \/ pos.avg = 0 THEN Hold
    ELSE IF hint.stop # 0 /\ LossAtLeast(price, pos.avg, hint.stop)
    THEN SellAll(pos, "stop_loss")
    ELSE IF hint.take # 0 /\ GainAtLeast(price, pos.avg, hint.take)
    THEN SellAll(pos, "take_profit")
    ELSE IF hint.rebound # 0 /\ GainAtLeast(price, pos.avg, hint.rebound)
    THEN SellAll(pos, "rebound")
    ELSE IF hint.reversal
    THEN SellAll(pos, "trend_reversal")
    ELSE Hold

\* The evaluator's position_updates, as evaluate_exit_rules applies them.
AfterExitRules(pos, price) ==
    IF pos.qty = 0 \/ pos.avg = 0
    THEN pos
    ELSE [pos EXCEPT !.trail = NextTrail(pos, price)]
=============================================================================
