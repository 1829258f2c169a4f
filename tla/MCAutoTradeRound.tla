-------------------------- MODULE MCAutoTradeRound --------------------------
(***************************************************************************)
(* Instances of AutoTradeRound for TLC.  A hundred KRW are one amount, ten *)
(* quantity units make a coin.                                             *)
(***************************************************************************)
EXTENDS AutoTradeRound

TwoSymbols == <<"BTC/KRW", "ETH/KRW">>

\* Whole prices up to 100, every fifth from there on.
TwoTicks == {[from |-> 0, tick |-> 1], [from |-> 100, tick |-> 5]}

At(btc, eth) == [s \in {"BTC/KRW", "ETH/KRW"} |-> IF s = "BTC/KRW" THEN btc ELSE eth]

\* From here a rise, a fall by more than the stop-loss, and a pullback from the
\* rise that leaves a profit, each of one symbol or of both.
Prices == {At(96, 100), At(104, 100), At(96, 95), At(100, 95)}

Classed(class, score) == [class |-> class, score |-> score]

\* Two classes or scores apart, in either order, with and without a rejected
\* symbol to fall back on.
Verdicts ==
    {v \in [{"BTC/KRW", "ETH/KRW"} -> {Classed("strict", 5), Classed("strict", 6),
         Classed("soft", 7), Classed("rejected", 4), Classed("rejected", 0),
         Classed("none", 0)}] :
       v["BTC/KRW"] # v["ETH/KRW"] \/ v["BTC/KRW"].class = "none"}

Enabled == <<"trend_following", "mean_reversion", "dca">>

Review(action, confidence, target) ==
    [action |-> action, confidence |-> confidence, target |-> target]

Silent == Review("hold", 0, 0)

\* What TradingCycle's routing lets pass: trend following in trends, the others
\* in the other regimes.
Opinions ==
    {[regime |-> "uncertain",
      review |-> [trend_following |-> Silent, mean_reversion |-> Silent, dca |-> Silent]],
     [regime |-> "sideways",
      review |-> [trend_following |-> Silent,
                  mean_reversion |-> Review("buy", 7000, 150),
                  dca |-> Review("buy", 4000, 90)]],
     [regime |-> "uncertain",
      review |-> [trend_following |-> Review("sell", 3000, 0),
                  mean_reversion |-> Review("buy", 5000, 40),
                  dca |-> Review("buy", 2000, 60)]],
     [regime |-> "trend_up",
      review |-> [trend_following |-> Review("buy", 7000, 150),
                  mean_reversion |-> Silent, dca |-> Silent]]}
=============================================================================
