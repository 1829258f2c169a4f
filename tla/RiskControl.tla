---------------------------- MODULE RiskControl -----------------------------
(***************************************************************************)
(* risk/controller.py: whether a signal may trade, and the budget of an    *)
(* entry.                                                                  *)
(*                                                                         *)
(* The code carries an exact budget from one rule to the next and rounds   *)
(* the quantity it buys; here every share of the budget is an amount.      *)
(***************************************************************************)
EXTENDS ExitRules

CONSTANTS
    MaxScaleBps,     \* max_confidence_position_scale
    BaseEntry,       \* base_entry_notional
    RiskBps,         \* risk_control_risk_per_trade_pct
    VolatilityBps,   \* volatility_size_multipliers
    ModeBps,         \* risk_mode_multipliers
    ReducedAfter,    \* losing_streak_threshold_reduced
    MinimalAfter,    \* losing_streak_threshold_minimal
    TimeFilter,      \* time_blacklist_filter_enabled
    BiasFilter       \* higher_tf_bias_filter_enabled

Volatility == {"low", "normal", "high"}
Bias == {"bullish", "neutral", "bearish"}

ASSUME RiskAssumption ==
    /\ {MaxScaleBps, RiskBps, BaseEntry, ReducedAfter, MinimalAfter} \subseteq Nat
    /\ VolatilityBps \in [Volatility -> Nat]
    /\ ModeBps \in [{"normal", "reduced", "minimal"} -> Nat]
    /\ {TimeFilter, BiasFilter} \subseteq BOOLEAN

RiskMode(losing) ==
    IF losing >= MinimalAfter THEN "minimal"
    ELSE IF losing >= ReducedAfter THEN "reduced"
    ELSE "normal"

\* raw_tp1_floor: of an entry this large the target's share is an order.
TargetFloor == CeilDiv(MinNotional * BasisPoints, TpSizeBps)

\* tp1_executable_entry: and it still is after the slippage of the sale.
TargetEntry == CeilDiv(TargetFloor * BasisPoints, BasisPoints - SlipBps)

\* What the confidence asks for, before any cap.
Asked(conf, cash) ==
    LET scaled == Share(Share(cash, conf), MaxScaleBps)
    IN  IF conf >= BasisPoints \div 2 /\ cash >= BaseEntry THEN Larger(scaled, BaseEntry) ELSE scaled

\* Whether tp1_executable_entry is set for the entry.
Targeted(conf, cash) == TpEnabled /\ Asked(conf, cash) >= MinNotional

Wanted(conf, cash) ==
    LET asked == Asked(conf, cash)
        least ==
            IF Targeted(conf, cash)
            THEN IF asked >= TargetFloor /\ cash >= TargetEntry THEN TargetEntry ELSE asked
            ELSE IF cash >= MinNotional THEN MinNotional ELSE asked
    IN  Smaller(Larger(asked, least), cash)

RiskCap(conf, cash) ==
    LET cap == Larger(10 * Share(cash, RiskBps), MinNotional)
    IN  IF Targeted(conf, cash) /\ cash >= TargetEntry THEN Larger(cap, TargetEntry) ELSE cap

\* The largest notional the cash pays for, before and after the fee.
AffordableWithoutFee(cash) == (cash * BasisPoints) \div (BasisPoints + SlipBps)

Affordable(cash) ==
    (AffordableWithoutFee(cash) * BasisPoints) \div (BasisPoints + FeeBps)

\* Mutated form of EntryBudget: a shrunk budget is not raised again.
EntryBudgetUnraised(conf, cash, losing, vol) ==
    LET capped == Smaller(Wanted(conf, cash), RiskCap(conf, cash))
        shrunk == Share(Share(capped, VolatilityBps[vol]), ModeBps[RiskMode(losing)])
    IN  Smaller(shrunk, Affordable(cash))

\* Volatility and losses shrink the budget; in normal mode it is raised again
\* to what the target needs, or to the minimum.
EntryBudget(conf, cash, losing, vol) ==
    LET mode == RiskMode(losing)
        capped == Smaller(Wanted(conf, cash), RiskCap(conf, cash))
        shrunk == Share(Share(capped, VolatilityBps[vol]), ModeBps[mode])
        raisedTo(least, budget) ==
            IF mode = "normal" /\ 0 < budget /\ budget < least /\ cash >= least THEN least ELSE budget
        targeted == IF Targeted(conf, cash) THEN raisedTo(TargetEntry, shrunk) ELSE shrunk
    IN  Smaller(raisedTo(MinNotional, targeted), Affordable(cash))

\* size_scale of an entry.
EntrySize(conf, cash, losing, vol, price) ==
    RoundDiv(EntryBudget(conf, cash, losing, vol) * Scale, price)

\* The filters of review; blackout says that this hour is a blocked one.
Filtered(trend, side, bias, blackout) ==
    \/ TimeFilter /\ blackout
    \/ BiasFilter /\ trend /\ <<side, bias>> \in {<<"buy", "bearish">>, <<"sell", "bullish">>}

Approved(trend, side, force, bias, blackout) ==
    side # "hold" /\ (force \/ ~Filtered(trend, side, bias, blackout))
=============================================================================
