------------------------------- MODULE Money --------------------------------
(***************************************************************************)
(* The arithmetic of prices, quantities and percentages, and what trading  *)
(* costs.                                                                  *)
(*                                                                         *)
(* The code keeps floats and rounds them, amounts to 4 decimals and        *)
(* quantities to 8.  Here an amount is an integer number of the smallest   *)
(* amount, a quantity an integer number of the smallest quantity (Scale of *)
(* them make one coin), a price an amount per coin, and a percentage an    *)
(* integer number of basis points.  A cost keeps the sub-amount part that  *)
(* the code keeps between two roundings: it is an amount times Scale.      *)
(***************************************************************************)
EXTENDS Integers

CONSTANTS
    Scale,          \* quantity units in one coin
    MinNotional,    \* min_order_notional
    SlipBps,        \* slippage_pct
    FeeBps          \* trading_fee_pct

BasisPoints == 10000

ASSUME MoneyAssumption ==
    /\ {Scale, MinNotional} \subseteq Nat \ {0}
    /\ SlipBps \in 0 .. BasisPoints - 1
    /\ FeeBps \in 0 .. BasisPoints

\* round(n / d, ...): to the nearest integer.
RoundDiv(n, d) == (2 * n + d) \div (2 * d)

CeilDiv(n, d) == (n + d - 1) \div d

Larger(a, b) == IF a < b THEN b ELSE a
Smaller(a, b) == IF a < b THEN a ELSE b

\* What qty is worth at a price, before and after rounding to an amount.
Cost(qty, price) == qty * price
Amount(qty, price) == RoundDiv(Cost(qty, price), Scale)

\* bps basis points of a price or an amount, rounded to an amount.
Share(n, bps) == RoundDiv(n * bps, BasisPoints)

\* The relative change from base to n, compared with bps basis points.
GainAtLeast(n, base, bps) == (n - base) * BasisPoints >= bps * base
LossAtLeast(n, base, bps) == (base - n) * BasisPoints >= bps * base
=============================================================================
