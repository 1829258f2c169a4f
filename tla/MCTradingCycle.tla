--------------------------- MODULE MCTradingCycle ---------------------------
(***************************************************************************)
(* Instances of TradingCycle for TLC.  A hundred quantity units make a     *)
(* coin: fine enough for what TradingCycleProofs assumes in FineTargets.   *)
(***************************************************************************)
EXTENDS TradingCycle

CONSTANTS btc, loop

\* A rise, a quiet, a rising and a falling sideways market, a volatile fall,
\* and one that the classifier makes nothing of.
Classified ==
    {[regime |-> "trend_up", gap |-> 30, range |-> 200, momentum |-> 10,
      vol |-> "normal", bias |-> "bullish"],
     [regime |-> "sideways", gap |-> 5, range |-> 50, momentum |-> 0,
      vol |-> "low", bias |-> "neutral"],
     [regime |-> "sideways", gap |-> 14, range |-> 80, momentum |-> 20,
      vol |-> "normal", bias |-> "neutral"],
     [regime |-> "sideways", gap |-> -20, range |-> 80, momentum |-> -10,
      vol |-> "normal", bias |-> "bearish"],
     [regime |-> "trend_down", gap |-> -30, range |-> 200, momentum |-> -10,
      vol |-> "high", bias |-> "bearish"],
     [regime |-> "uncertain", gap |-> 30, range |-> 200, momentum |-> -10,
      vol |-> "normal", bias |-> "bullish"]}

HalfWhenVolatile == [low |-> 10000, normal |-> 10000, high |-> 5000]
HalfThenQuarter == [normal |-> 10000, reduced |-> 5000, minimal |-> 2500]

\* The exchange reports little cash and nothing held, or a position.
Reported ==
    {[qty |-> 0, avg |-> 0, cash |-> 104], [qty |-> 150, avg |-> 100, cash |-> 200]}
=============================================================================
