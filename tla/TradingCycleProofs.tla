------------------------- MODULE TradingCycleProofs --------------------------
(***************************************************************************)
(* Theorems about TradingCycle: what reaches the broker, and that exits    *)
(* and targets keep their promises over whole cycles, run by the one       *)
(* thread that uses the broker (SerialUse).                                *)
(***************************************************************************)
EXTENDS TradingCycle, PaperBrokerProofs

-----------------------------------------------------------------------------
(***************************************************************************)
(* Exits.                                                                  *)
(***************************************************************************)

\* Rounding up a positive number gives a positive one.
LEMMA CeilDivBounds ==
    ASSUME NEW n \in Nat, NEW d \in Nat \ {0}
    PROVE  CeilDiv(n, d) \in Nat /\ (n > 0 => CeilDiv(n, d) > 0)
  <1> DEFINE c == (n + d - 1) \div d
  <1>1. n + d - 1 \in Nat
    OBVIOUS
  <1>2. c \in Nat /\ n + d - 1 < d * c + d
    BY <1>1, DivBounds, DivNat
  <1>3. ASSUME n > 0 PROVE c > 0
    <2>1. SUFFICES ASSUME c = 0 PROVE FALSE
      BY <1>2
    <2>2. d * c = 0
      BY <2>1
    <2>3. QED
      BY <1>2, <1>3, <2>2
  <1>4. QED
    BY <1>2, <1>3 DEF CeilDiv

\* Less of a position is not executable when all of it is not.
LEMMA ExecutableMonotone ==
    ASSUME NEW q \in Nat, NEW r \in Nat, r <= q, NEW price \in Nat, Executable(r, price)
    PROVE  Executable(q, price) /\ r # 0
  <1>1. MinNotional * Scale \in Nat \ {0}
    BY MoneyConstants
  <1>2. Cost(r, price) <= Cost(q, price) /\ Cost(0, price) = 0
    BY DEF Cost
  <1>3. Cost(r, price) \in Nat /\ Cost(q, price) \in Nat
    BY AmountNat
  <1>4. QED
    BY <1>1, <1>2, <1>3 DEF Executable

\* The first target sells something, and no more than is held.
LEMMA TakeProfitBounds ==
    ASSUME NEW qty \in Nat \ {0}, NEW price \in Nat \ {0}
    PROVE  TakeProfitQty(qty, price) \in 1 .. qty
  <1> DEFINE half == Share(qty, TpSizeBps)
             least == CeilDiv(MinNotional * Scale * BasisPoints, price * (BasisPoints - SlipBps))
             bumps == ~Executable(half, price) /\ Executable(qty, price)
             bumped == IF bumps THEN Smaller(qty, least) ELSE half
             rest == qty - bumped
  <1>1. half \in Nat /\ half <= qty
    <2>1. TpSizeBps \in Nat /\ TpSizeBps <= BasisPoints
      BY ExitAssumption DEF BasisPoints
    <2>2. QED
      BY <2>1, ShareNat, ShareWithin
  <1>2. least \in Nat /\ least > 0
    <2>1. MinNotional * Scale * BasisPoints \in Nat /\ MinNotional * Scale * BasisPoints > 0
      BY MoneyConstants
    <2>2. price * (BasisPoints - SlipBps) \in Nat \ {0}
      BY MoneyConstants
    <2>3. QED
      BY <2>1, <2>2, CeilDivBounds
  <1>3. TakeProfitQty(qty, price) = IF rest > 0 /\ ~Executable(rest, price) THEN qty ELSE bumped
    BY DEF TakeProfitQty
  <1> HIDE DEF half, least
  <1>4. bumped \in Nat /\ bumped <= qty
    BY <1>1, <1>2 DEF Smaller
  <1>5. bumps => bumped > 0
    BY <1>2 DEF Smaller
  <1>6. ASSUME ~bumps, bumped = 0 PROVE rest > 0 /\ ~Executable(rest, price)
    <2>1. half = 0 /\ rest = qty
      BY <1>6
    <2>2. ~Executable(half, price)
      BY <1>1, <2>1, ExecutableMonotone
    <2>3. QED
      BY <1>6, <2>1, <2>2
  <1> HIDE DEF bumped, bumps
  <1>7. QED
    BY <1>3, <1>4, <1>5, <1>6

\* Evaluating a position again at the same price finds the same trailing stop.
LEMMA NextTrailAgain ==
    ASSUME NEW pos \in Position, NEW price \in Nat
    PROVE  LET new == [pos EXCEPT !.trail = NextTrail(pos, price)]
           IN  /\ TakesProfit(new, price) <=> TakesProfit(pos, price)
               /\ NextTrail(new, price) = NextTrail(pos, price)
  <1> DEFINE new == [pos EXCEPT !.trail = NextTrail(pos, price)]
             moves == TrailEnabled /\ (TakesProfit(pos, price)
                                         \/ GainAtLeast(price, pos.avg, TrailActivationBps))
  <1>1. /\ new.avg = pos.avg /\ new.tp1 = pos.tp1 /\ new.tp1Done = pos.tp1Done
        /\ new.trail = NextTrail(pos, price)
    BY DEF Position
  <1>2. TakesProfit(new, price) <=> TakesProfit(pos, price)
    BY <1>1 DEF TakesProfit
  <1>3. NextTrail(new, price) = IF moves THEN Ratchet(new.trail, price) ELSE new.trail
    BY <1>1, <1>2 DEF NextTrail
  <1>4. NextTrail(pos, price) = IF moves THEN Ratchet(pos.trail, price) ELSE pos.trail
    BY DEF NextTrail
  <1>5. TrailingStop(price) \in Nat /\ pos.trail \in Nat
    BY BrokerConstants, ShareNat DEF TrailingStop, Position
  <1>6. Ratchet(Ratchet(pos.trail, price), price) = Ratchet(pos.trail, price)
    BY <1>5 DEF Ratchet, Larger
  <1> HIDE DEF moves, new
  <1>7. NextTrail(new, price) = NextTrail(pos, price)
    BY <1>1, <1>3, <1>4, <1>6
  <1>8. QED
    BY <1>2, <1>7 DEF new

\* The quantity and the reason of an exit the broker's rules want.
LEMMA PositionExitBounds ==
    ASSUME NEW pos \in Position, NEW price \in Nat \ {0}, NEW late
    PROVE  LET exit == PositionExit(pos, price, late)
           IN  /\ exit.qty \in Nat /\ exit.qty <= pos.qty
               /\ exit.reason # "hold" => exit.qty # 0
               /\ exit.reason = "partial_take_profit" => TpEnabled /\ ~pos.tp1Done
  <1>1. pos.qty \in Nat
    BY DEF Position
  <1>2. CASE pos.qty = 0 \/ pos.avg = 0
    BY <1>1, <1>2 DEF PositionExit, Hold
  <1>3. CASE ~(pos.qty = 0 \/ pos.avg = 0) /\ TakesProfit(pos, price)
    <2>1. PositionExit(pos, price, late)
            = [reason |-> "partial_take_profit", qty |-> TakeProfitQty(pos.qty, price)]
      BY <1>3 DEF PositionExit
    <2>2. TakeProfitQty(pos.qty, price) \in 1 .. pos.qty
      BY <1>1, <1>3, TakeProfitBounds
    <2>3. TpEnabled /\ ~pos.tp1Done
      BY <1>3 DEF TakesProfit
    <2>4. QED
      BY <1>1, <2>1, <2>2, <2>3
  <1>4. CASE ~(pos.qty = 0 \/ pos.avg = 0) /\ ~TakesProfit(pos, price)
    <2>1. PositionExit(pos, price, late)
            \in {SellAll(pos, "trailing_stop"), SellAll(pos, "atr_stop"), SellAll(pos, "timeout"), Hold}
      BY <1>4 DEF PositionExit
    <2>2. QED
      BY <1>1, <1>4, <2>1 DEF SellAll, Hold
  <1>5. QED
    BY <1>2, <1>3, <1>4

\* After the trailing stop has moved, the rules that do not look at the age of
\* the position want the same exit.
LEMMA SameExitAgain ==
    ASSUME NEW pos \in Position, NEW price \in Nat, NEW late \in BOOLEAN,
           PositionExit(AfterExitRules(pos, price), price, FALSE).reason # "hold"
    PROVE  PositionExit(pos, price, late) = PositionExit(AfterExitRules(pos, price), price, FALSE)
  <1> DEFINE new == [pos EXCEPT !.trail = NextTrail(pos, price)]
  <1>1. CASE pos.qty = 0 \/ pos.avg = 0
    <2>1. AfterExitRules(pos, price) = pos
      BY <1>1 DEF AfterExitRules
    <2>2. QED
      BY <1>1, <2>1 DEF PositionExit, Hold
  <1>2. CASE ~(pos.qty = 0 \/ pos.avg = 0)
    <2>1. AfterExitRules(pos, price) = new
      BY <1>2 DEF AfterExitRules
    <2>2. new.qty = pos.qty /\ new.avg = pos.avg /\ new.stop = pos.stop
      BY DEF Position
    <2>3. (TakesProfit(new, price) <=> TakesProfit(pos, price)) /\ NextTrail(new, price) = NextTrail(pos, price)
      BY NextTrailAgain
    <2> HIDE DEF new
    <2>4. \A reason : SellAll(new, reason) = SellAll(pos, reason)
      BY <2>2 DEF SellAll
    <2>5. PositionExit(new, price, FALSE).reason # "hold"
      BY <2>1
    <2>6. PositionExit(pos, price, late) = PositionExit(new, price, FALSE)
      BY <1>2, <2>2, <2>3, <2>4, <2>5 DEF PositionExit, Hold
    <2>7. QED
      BY <2>1, <2>6
  <1>3. QED
    BY <1>1, <1>2

\* What the strategy's rules want sold is the whole position, or nothing.
LEMMA StrategyExitBounds ==
    ASSUME NEW pos \in Position, NEW price \in Nat \ {0}, NEW hint \in Hint
    PROVE  LET exit == StrategyExit(pos, price, hint)
           IN  /\ exit.qty \in Nat /\ exit.qty <= pos.qty
               /\ exit.reason # "partial_take_profit"
  <1>1. pos.qty \in Nat
    BY DEF Position
  <1>2. StrategyExit(pos, price, hint) \in
           {SellAll(pos, "stop_loss"), SellAll(pos, "take_profit"), SellAll(pos, "rebound"),
            SellAll(pos, "trend_reversal"), Hold}
    <2>1. hint.reversal \in BOOLEAN
      BY DEF Hint
    <2>2. QED
      BY <2>1 DEF StrategyExit
  <1> DEFINE exit == StrategyExit(pos, price, hint)
  <1> HIDE DEF exit
  <1>3. exit.qty \in {0, pos.qty} /\ exit.reason # "partial_take_profit"
    BY <1>2 DEF exit, SellAll, Hold
  <1>4. QED
    BY <1>1, <1>3 DEF exit

\* _resolve_exit_signal takes one of the two exits, and the broker's whenever
\* it wants one: every priority of its rules is above the strategy's.
LEMMA ResolveExitBounds ==
    ASSUME NEW pos \in Position, NEW price \in Nat \ {0}, NEW hint \in Hint, NEW late
    PROVE  LET exit == ResolveExit(pos, price, hint, late)
           IN  /\ exit.qty \in Nat /\ exit.qty <= pos.qty
               /\ exit.reason = "partial_take_profit" => TpEnabled /\ ~pos.tp1Done
               /\ PositionExit(pos, price, late).reason # "hold"
                     => exit = PositionExit(pos, price, late)
  <1> DEFINE own == StrategyExit(pos, price, hint)
             brokers == PositionExit(pos, price, late)
  <1>1. /\ brokers.qty \in Nat /\ brokers.qty <= pos.qty
        /\ brokers.reason = "partial_take_profit" => TpEnabled /\ ~pos.tp1Done
    BY PositionExitBounds
  <1>2. own.qty \in Nat /\ own.qty <= pos.qty /\ own.reason # "partial_take_profit"
    BY StrategyExitBounds
  <1>3. ExitPriority("broker", brokers.reason) \in {220, 230, 240}
    BY DEF ExitPriority
  <1>4. ExitPriority("strategy", own.reason) = 100
    BY DEF ExitPriority
  <1> HIDE DEF own, brokers
  <1>5. ExitPriority("broker", brokers.reason) > ExitPriority("strategy", own.reason)
    BY <1>3, <1>4
  <1>6. ResolveExit(pos, price, hint, late) = IF brokers.reason = "hold" THEN own ELSE brokers
    BY <1>5 DEF ResolveExit, own, brokers
  <1>7. QED
    BY <1>1, <1>2, <1>6 DEF brokers
-----------------------------------------------------------------------------
(***************************************************************************)
(* Entries.                                                                *)
(***************************************************************************)

\* The constants of the risk controller, one by one.
LEMMA RiskConstants ==
    /\ MaxScaleBps \in Nat /\ BaseEntry \in Nat /\ RiskBps \in Nat
    /\ \A v \in Volatility : VolatilityBps[v] \in Nat
    /\ \A losing \in Nat : ModeBps[RiskMode(losing)] \in Nat
    /\ TpSizeBps \in Nat \ {0}
  BY RiskAssumption, ExitAssumption DEF RiskMode, BasisPoints

\* What the first target needs of an entry is an amount.
LEMMA TargetEntryNat == TargetFloor \in Nat /\ TargetEntry \in Nat
  <1>1. MinNotional * BasisPoints \in Nat /\ BasisPoints - SlipBps \in Nat \ {0}
    BY MoneyConstants
  <1>2. TargetFloor \in Nat
    BY <1>1, RiskConstants, CeilDivBounds DEF TargetFloor
  <1>3. TargetFloor * BasisPoints \in Nat
    BY <1>2, MoneyConstants
  <1>4. TargetEntry \in Nat
    BY <1>1, <1>3, CeilDivBounds DEF TargetEntry
  <1>5. QED
    BY <1>2, <1>4

\* The budget of an entry is an amount, within what the cash pays for.
LEMMA EntryBudgetBounds ==
    ASSUME NEW conf \in Nat, NEW cash \in Nat, NEW losing \in Nat, NEW vol \in Volatility
    PROVE  /\ EntryBudget(conf, cash, losing, vol) \in Nat
           /\ EntryBudget(conf, cash, losing, vol) <= Affordable(cash)
           /\ Affordable(cash) \in Nat
  <1>1. MinNotional \in Nat /\ TargetEntry \in Nat
    BY MoneyConstants, TargetEntryNat
  <1>2. Asked(conf, cash) \in Nat
    <2>1. Share(Share(cash, conf), MaxScaleBps) \in Nat
      BY ShareNat, RiskConstants
    <2>2. QED
      BY <2>1, RiskConstants DEF Asked, Larger
  <1>3. Wanted(conf, cash) \in Nat
    BY <1>1, <1>2 DEF Wanted, Larger, Smaller
  <1>4. RiskCap(conf, cash) \in Nat
    <2>1. Share(cash, RiskBps) \in Nat
      BY ShareNat, RiskConstants
    <2>2. 10 * Share(cash, RiskBps) \in Nat
      BY <2>1
    <2>3. QED
      BY <1>1, <2>2 DEF RiskCap, Larger
  <1>5. Affordable(cash) \in Nat
    <2>1. cash * BasisPoints \in Nat /\ BasisPoints + SlipBps \in Nat \ {0}
          /\ BasisPoints + FeeBps \in Nat \ {0}
      BY MoneyConstants
    <2>2. AffordableWithoutFee(cash) \in Nat
      BY <2>1, DivNat DEF AffordableWithoutFee
    <2>3. AffordableWithoutFee(cash) * BasisPoints \in Nat
      BY <2>2, MoneyConstants
    <2>4. QED
      BY <2>1, <2>3, DivNat DEF Affordable
  <1> DEFINE mode == RiskMode(losing)
             capped == Smaller(Wanted(conf, cash), RiskCap(conf, cash))
             shrunk == Share(Share(capped, VolatilityBps[vol]), ModeBps[mode])
             raisedTo(least, budget) ==
                IF mode = "normal" /\ 0 < budget /\ budget < least /\ cash >= least THEN least ELSE budget
             targeted == IF Targeted(conf, cash) THEN raisedTo(TargetEntry, shrunk) ELSE shrunk
  <1>6. capped \in Nat
    BY <1>3, <1>4 DEF Smaller
  <1>7. shrunk \in Nat
    <2>1. VolatilityBps[vol] \in Nat /\ ModeBps[mode] \in Nat
      BY RiskConstants
    <2> HIDE DEF capped
    <2>2. Share(capped, VolatilityBps[vol]) \in Nat
      BY <1>6, <2>1, ShareNat
    <2>3. QED
      BY <2>1, <2>2, ShareNat
  <1>8. EntryBudget(conf, cash, losing, vol) = Smaller(raisedTo(MinNotional, targeted), Affordable(cash))
    BY DEF EntryBudget
  <1> HIDE DEF shrunk, mode
  <1>9. raisedTo(MinNotional, targeted) \in Nat
    BY <1>1, <1>7
  <1>10. QED
    BY <1>5, <1>8, <1>9 DEF Smaller

\* The size of an entry is a quantity.
LEMMA EntrySizeNat ==
    ASSUME NEW conf \in Nat, NEW cash \in Nat, NEW losing \in Nat, NEW vol \in Volatility,
           NEW price \in Nat \ {0}
    PROVE  EntrySize(conf, cash, losing, vol, price) \in Nat
  <1>1. EntryBudget(conf, cash, losing, vol) * Scale \in Nat
    BY EntryBudgetBounds, MoneyConstants
  <1>2. QED
    BY <1>1, RoundDivNat DEF EntrySize
-----------------------------------------------------------------------------
(***************************************************************************)
(* Reviews.                                                                *)
(***************************************************************************)

\* The constants of the cycle, one by one.
LEMMA CycleConstants ==
    /\ \A c \in Confidence : c \in 0 .. BasisPoints
    /\ \A m \in Market : m \in MarketInfo
    /\ StrategyStopBps \in Nat /\ StrategyTakeBps \in Nat /\ ReboundBps \in Nat
  BY CycleAssumption

Signal ==
    [strategy : Strategy, action : {"hold", "buy", "sell"}, conf : 0 .. BasisPoints, hint : Hint]

\* What generate_signal gives is a signal.
LEMMA SignalTyped ==
    ASSUME NEW pos, NEW strategy \in Strategy
    PROVE  Signals(pos, strategy) \subseteq Signal
  <1> DEFINE silent == [strategy |-> strategy, action |-> "hold", conf |-> 0, hint |-> NoHint]
             buys == {[silent EXCEPT !.action = "buy", !.conf = BuyConfidence(strategy, c)] :
                        c \in Confidence}
             sells == {[silent EXCEPT !.action = "sell", !.conf = c] : c \in Confidence}
             waits == {[silent EXCEPT !.hint = HintOf(strategy, r)] : r \in BOOLEAN}
  <1>1. NoHint \in Hint /\ \A r \in BOOLEAN : HintOf(strategy, r) \in Hint
    BY CycleConstants DEF NoHint, HintOf, Hint
  <1>2. BasisPoints = 10000 /\ 0 \in 0 .. BasisPoints
    BY DEF BasisPoints
  <1>3. silent \in Signal
    BY <1>1, <1>2 DEF Signal
  <1>4. ASSUME NEW c \in Confidence PROVE BuyConfidence(strategy, c) \in 0 .. BasisPoints
    <2> DEFINE half == BasisPoints \div 2
    <2>1. c \in 0 .. BasisPoints /\ BasisPoints \in Nat
      BY <1>2, CycleConstants
    <2>2. half \in Nat /\ half <= BasisPoints
      BY DEF BasisPoints
    <2>3. BuyConfidence(strategy, c) \in {c, Larger(c, half), half}
      BY DEF BuyConfidence, Strategy
    <2> HIDE DEF half
    <2>4. Larger(c, half) \in {c, half}
      BY DEF Larger
    <2>5. BuyConfidence(strategy, c) = c \/ BuyConfidence(strategy, c) = half
      BY <2>3, <2>4
    <2>6. half \in 0 .. BasisPoints
      BY <2>1, <2>2
    <2>7. QED
      BY <2>1, <2>5, <2>6
  <1>5. buys \subseteq Signal
    BY <1>3, <1>4 DEF Signal
  <1>6. sells \subseteq Signal
    BY <1>3, CycleConstants DEF Signal
  <1>7. waits \subseteq Signal
    BY <1>1, <1>3 DEF Signal
  <1>8. Signals(pos, strategy) \subseteq {silent} \cup buys \cup sells \cup waits
    BY DEF Signals
  <1> HIDE DEF silent, buys, sells, waits
  <1>9. QED
    BY <1>3, <1>5, <1>6, <1>7, <1>8

\* A review is typed; a first-target sell is a sell of a position whose target
\* is not spent; and when the broker's rules want an exit, the review is that
\* exit, approved.
LEMMA ReviewedBounds ==
    ASSUME NEW b \in Account, b.cash >= 0, NEW s \in Symbol, NEW price \in Price,
           NEW g \in Signal, NEW m \in MarketInfo, NEW late \in BOOLEAN, NEW blackout \in BOOLEAN
    PROVE  LET r == Reviewed(b, s, price, g, m, late, blackout)
               exit == PositionExit(b.pos[s], price, late)
           IN  /\ r \in Review /\ r.symbol = s /\ r.price = price
               /\ r.approved => r.side # "hold"
               /\ r.tp => r.side = "sell" /\ TpEnabled /\ ~b.pos[s].tp1Done
               /\ exit.reason # "hold" => r.approved /\ r.side = "sell" /\ r.size = exit.qty
  <1> DEFINE pos == b.pos[s]
             trend == g.strategy = "trend_following"
             exit == ResolveExit(pos, price, g.hint, late)
             brokers == PositionExit(pos, price, late)
             force == exit.reason # "hold"
             action == IF force THEN "sell" ELSE g.action
             side == IF HeldBack(g.strategy, action, force, m) THEN "hold" ELSE action
             approved == Approved(trend, side, force, m.bias, blackout)
             entry == EntrySize(g.conf, b.cash, b.losing, m.vol, price)
             size == IF side = "buy" THEN entry
                     ELSE IF force /\ exit.qty # 0 THEN Smaller(exit.qty, pos.qty)
                     ELSE pos.qty
             r == Reviewed(b, s, price, g, m, late, blackout)
  <1>1. price \in Nat \ {0}
    BY BrokerConstants
  <1>2. pos \in Position /\ pos.qty \in Nat /\ b.cash \in Nat /\ b.losing \in Nat
    BY DEF Account, Position
  <1>3. /\ g.hint \in Hint /\ g.action \in {"hold", "buy", "sell"} /\ g.conf \in 0 .. BasisPoints
        /\ g.conf \in Nat /\ m.vol \in Volatility
    <2>1. g.hint \in Hint /\ g.action \in {"hold", "buy", "sell"} /\ g.conf \in 0 .. BasisPoints
      BY DEF Signal
    <2>2. g.conf \in Nat
      <3>1. BasisPoints \in Nat
        BY MoneyConstants
      <3>2. \A x \in 0 .. BasisPoints : x \in Nat
        BY <3>1
      <3>3. QED
        BY <2>1, <3>2
    <2>3. m.vol \in Volatility
      BY DEF MarketInfo
    <2>4. QED
      BY <2>1, <2>2, <2>3
  <1>4. /\ exit.qty \in Nat /\ exit.qty <= pos.qty
        /\ exit.reason = "partial_take_profit" => TpEnabled /\ ~pos.tp1Done
        /\ brokers.reason # "hold" => exit = brokers
    BY <1>1, <1>2, <1>3, ResolveExitBounds
  <1>5. brokers.reason # "hold" => brokers.qty # 0
    BY <1>1, <1>2, PositionExitBounds
  <1>6. entry \in Nat
    BY <1>1, <1>2, <1>3, EntrySizeNat
  <1>7. r = [symbol |-> s, side |-> side, approved |-> approved, size |-> IF approved THEN size ELSE 0,
             price |-> price, tp |-> force /\ exit.reason = "partial_take_profit", conf |-> g.conf]
    BY DEF Reviewed
  <1> HIDE DEF exit, brokers, entry, pos, r
  <1>8. force => side = "sell" /\ approved
    BY DEF HeldBack, Approved
  <1>9. side \in {"buy", "sell", "hold"} /\ approved \in BOOLEAN /\ (approved => side # "hold")
    BY <1>3 DEF Approved
  <1>10. size \in Nat
    BY <1>2, <1>4, <1>6 DEF Smaller
  <1>11. force /\ exit.qty # 0 => size = exit.qty
    BY <1>2, <1>4, <1>8 DEF Smaller
  <1> HIDE DEF action, side, approved, size
  <1>12. r \in Review
    BY <1>3, <1>7, <1>9, <1>10 DEF Review
  <1>13. r.tp => r.side = "sell" /\ TpEnabled /\ ~pos.tp1Done
    BY <1>4, <1>7, <1>8
  <1>14. brokers.reason # "hold" => r.approved /\ r.side = "sell" /\ r.size = brokers.qty
    BY <1>4, <1>5, <1>7, <1>8, <1>11
  <1>15. r.symbol = s /\ r.price = price /\ (r.approved => r.side # "hold")
    BY <1>7, <1>9
  <1>16. QED
    BY <1>12, <1>13, <1>14, <1>15 DEF r, brokers, pos
-----------------------------------------------------------------------------
(***************************************************************************)
(* The steps of a cycle are steps of the broker.                           *)
(***************************************************************************)

\* A thread with a review in hand submits nothing else, asks only for what a
\* review may ask for, and asks for the first target of a position only while
\* it is not spent.
ReviewReady ==
    \A t \in Thread :
        review[t] # NoReview =>
            LET r == review[t]
            IN  /\ stage[t] = "idle"
                /\ r.approved => r.side # "hold"
                /\ r.tp => r.side = "sell" /\ TpEnabled /\ ~book.pos[r.symbol].tp1Done

CycleInv == CycleTypeOK /\ OrderReady /\ CashInv /\ ReviewReady /\ ExitsOutrankSignals

\* What an approved review asks of the broker.
LEMMA RequestTyped ==
    ASSUME CycleTypeOK, ReviewReady, NEW t \in Thread, Approving(t)
    PROVE  RequestOf(review[t]) \in AnyRequest /\ TpRequest(RequestOf(review[t]))
  <1> DEFINE r == review[t]
  <1>1. r \in Review /\ r.approved /\ r # NoReview
    BY DEF CycleTypeOK, Approving
  <1>2. r.side # "hold" /\ (r.tp => r.side = "sell" /\ TpEnabled)
    BY <1>1 DEF ReviewReady
  <1> HIDE DEF r
  <1>3. RequestOf(r) \in AnyRequest /\ TpRequest(RequestOf(r))
    BY <1>1, <1>2 DEF Review, RequestOf, AnyRequest, TpRequest
  <1>4. QED
    BY <1>3 DEF r

\* Each step of a thread that is not the broker's leaves its variables alone.
LEMMA CycleStepIsBrokerStep ==
    ASSUME CycleTypeOK, ReviewReady, NEW t \in Thread, CycleStep(t)
    PROVE  BrokerStep(t) \/ UNCHANGED vars
  <1>1. ASSUME NEW s \in Symbol, NEW p \in Price, Evaluate(t, s, p) PROVE BrokerStep(t)
    <2>1. Commit(t, Evaluated(book, s, p))
      BY <1>1 DEF Evaluate, Evaluated
    <2>2. EditAccount(t)
      BY <2>1 DEF EditAccount
    <2>3. QED
      BY <2>2 DEF BrokerStep
  <1>2. CASE EndCycle(t) \/ RejectedByBroker(t) \/ SubmitToExchange(t)
    BY <1>2 DEF EndCycle, RejectedByBroker, SubmitToExchange
  <1>3. CASE SubmitToBroker(t)
    <2> DEFINE req == RequestOf(review[t])
    <2>1. Check(t, req) /\ Approving(t)
      BY <1>3 DEF SubmitToBroker
    <2>2. req \in AnyRequest /\ TpRequest(req)
      BY <2>1, RequestTyped
    <2> HIDE DEF req
    <2>3. QED
      BY <2>1, <2>2 DEF BrokerStep
  <1>4. CASE FinishSubmit(t)
    BY <1>4 DEF FinishSubmit, BrokerStep
  <1>5. CASE ChangeAccount(t)
    <2>1. ASSUME NEW s \in Symbol, NEW h \in Holding, SyncExchangePosition(t, s, h)
          PROVE  EditAccount(t)
      <3>1. Commit(t, Synced(book, s, h))
        BY <2>1 DEF SyncExchangePosition, Synced
      <3>2. QED
        BY <3>1 DEF EditAccount
    <2>2. ASSUME Reset(t) PROVE EditAccount(t)
      <3>1. Commit(t, NewAccount)
        BY <2>2 DEF Reset
      <3>2. QED
        BY <3>1 DEF EditAccount
    <2>3. EditAccount(t)
      BY <1>5, <2>1, <2>2 DEF ChangeAccount
    <2>4. QED
      BY <2>3 DEF BrokerStep
  <1>6. QED
    BY <1>1, <1>2, <1>3, <1>4, <1>5 DEF CycleStep

\* A step of the cycle is a step of the broker, or none.
LEMMA CycleIsBroker ==
    ASSUME CycleTypeOK, ReviewReady, [CycleNext]_cycleVars
    PROVE  [BrokerNext]_vars
  <1>1. CASE Restart
    BY <1>1 DEF Restart, BrokerNext
  <1>2. CASE UNCHANGED cycleVars
    BY <1>2 DEF cycleVars
  <1>3. ASSUME NEW t \in Thread, CycleStep(t) PROVE [BrokerNext]_vars
    BY <1>3, CycleStepIsBrokerStep DEF BrokerNext
  <1>4. QED
    BY <1>1, <1>2, <1>3 DEF CycleNext
-----------------------------------------------------------------------------
(***************************************************************************)
(* The review in hand.                                                     *)
(***************************************************************************)

\* What a cycle has in hand once it has reviewed its signal.
ReviewInHand(t) ==
    LET r == review'[t]
        exit == PositionExit(book'.pos[r.symbol], r.price, FALSE)
    IN  /\ r \in Review
        /\ r.approved => r.side # "hold"
        /\ r.tp => r.side = "sell" /\ TpEnabled /\ ~book'.pos[r.symbol].tp1Done
        /\ exit.reason # "hold" => r.approved /\ r.side = "sell" /\ r.size = exit.qty

\* The exits are found again in the account the review leaves behind.
LEMMA EvaluateReviews ==
    ASSUME CycleTypeOK, Solvent, NEW t \in Thread, NEW s \in Symbol, NEW p \in Price,
           Evaluate(t, s, p), raises' = raises
    PROVE  /\ ReviewInHand(t)
           /\ review' = [review EXCEPT ![t] = review'[t]]
           /\ stage' = stage /\ stage[t] = "idle"
  <1>1. book \in Account /\ book.cash >= 0 /\ book.pos \in [Symbol -> Position]
        /\ review \in [Thread -> Review \cup {NoReview}]
    BY DEF CycleTypeOK, TypeOK, Account, Solvent
  <1>2. PICK made \in Reviews(book, s, p) : review' = [review EXCEPT ![t] = made]
    BY DEF Evaluate
  <1> DEFINE signals == UNION {Signals(book.pos[s], strategy) : strategy \in Strategy}
  <1>. PICK g \in signals, m \in Market, late \in BOOLEAN, blackout \in BOOLEAN :
          made = Reviewed(book, s, p, g, m, late, blackout)
    BY DEF Reviews
  <1> DEFINE r == Reviewed(book, s, p, g, m, late, blackout)
             pos == book.pos[s]
             new == AfterExitRules(pos, p)
             found == PositionExit(pos, p, late)
             again == PositionExit(new, p, FALSE)
  <1>3. g \in Signal
    BY SignalTyped
  <1>4. m \in MarketInfo
    BY CycleConstants
  <1>5. /\ r \in Review /\ r.symbol = s /\ r.price = p
        /\ r.approved => r.side # "hold"
        /\ r.tp => r.side = "sell" /\ TpEnabled /\ ~pos.tp1Done
        /\ found.reason # "hold" => r.approved /\ r.side = "sell" /\ r.size = found.qty
    BY <1>1, <1>3, <1>4, ReviewedBounds
  <1>6. review'[t] = r
    BY <1>1, <1>2
  <1> HIDE DEF r
  <1>7. book' = [book EXCEPT !.pos[s] = AfterExitRules(@, p), !.last[s] = p]
        /\ stage' = stage /\ stage[t] = "idle"
    BY DEF Evaluate, Commit
  <1>8. book'.pos[s] = new
    BY <1>1, <1>7 DEF Account
  <1>9. p \in Nat /\ pos \in Position
    BY <1>1, BrokerConstants
  <1>10. new.tp1Done = pos.tp1Done
    BY <1>9, AfterExitRulesTyped
  <1>11. again.reason # "hold" => found = again
    BY <1>9, SameExitAgain
  <1> HIDE DEF pos, new, found, again
  <1>12. /\ r.tp => ~book'.pos[s].tp1Done
         /\ PositionExit(book'.pos[s], p, FALSE) = again
    BY <1>5, <1>8, <1>10 DEF again
  <1>13. ReviewInHand(t)
    BY <1>5, <1>6, <1>11, <1>12 DEF ReviewInHand
  <1>14. QED
    BY <1>2, <1>6, <1>7, <1>13 DEF r

\* A step that makes a review: the price is marked and the save does not raise.
MakesReview(t, s, p) == Evaluate(t, s, p) /\ raises' = raises

\* Each other step leaves the account alone while a review is in hand, or the
\* thread with no review.
LEMMA ReviewDropped ==
    ASSUME CycleTypeOK, ReviewReady, NEW t \in Thread, CycleStep(t),
           \A s \in Symbol, p \in Price : ~MakesReview(t, s, p)
    PROVE  /\ review' \in [Thread -> Review \cup {NoReview}]
           /\ review'[t] = NoReview
  <1>1. review \in [Thread -> Review \cup {NoReview}]
    BY DEF CycleTypeOK
  <1>2. CASE EndCycle(t) \/ SubmitToBroker(t) \/ RejectedByBroker(t) \/ SubmitToExchange(t)
    BY <1>1, <1>2 DEF EndCycle, SubmitToBroker, RejectedByBroker, SubmitToExchange, DropReview
  <1>3. CASE FinishSubmit(t)
    <2>1. stage[t] # "idle" /\ review' = review
      BY <1>3 DEF FinishSubmit, FillStep, Buy, Sell, SellRejectedLate, LogTrade, LogTradeRaises, Persist
    <2>2. QED
      BY <1>1, <2>1 DEF ReviewReady
  <1>4. CASE ChangeAccount(t)
    BY <1>1, <1>4 DEF ChangeAccount
  <1>5. CASE \E s \in Symbol, p \in Price : Evaluate(t, s, p)
    BY <1>1, <1>5 DEF Evaluate, MakesReview
  <1>6. QED
    BY <1>2, <1>3, <1>4, <1>5 DEF CycleStep

\* What is sent to the exchange.
LEMMA SentStep ==
    ASSUME CycleTypeOK, ReviewReady, NEW t \in Thread, CycleStep(t)
    PROVE  armed' \in BOOLEAN /\ sent' \in Seq(Fill)
  <1>1. armed \in BOOLEAN /\ sent \in Seq(Fill)
    BY DEF CycleTypeOK
  <1>2. CASE SubmitToExchange(t)
    <2> DEFINE r == review[t]
               f == [symbol |-> r.symbol, side |-> r.side, tp |-> r.tp]
    <2>1. r \in Review /\ r.side # "hold"
      BY <1>2 DEF SubmitToExchange, Approving, CycleTypeOK, ReviewReady
    <2>2. f \in Fill
      BY <2>1 DEF Review, Fill
    <2>3. sent' \in {sent, Append(sent, f)} /\ armed' = armed
      BY <1>2 DEF SubmitToExchange
    <2> HIDE DEF f
    <2>4. QED
      BY <1>1, <2>2, <2>3
  <1>3. CASE ~SubmitToExchange(t)
    <2>1. ASSUME NEW s \in Symbol, NEW p \in Price, Evaluate(t, s, p)
          PROVE  armed' = armed /\ sent' = sent
      BY <2>1 DEF Evaluate
    <2>2. EndCycle(t) \/ SubmitToBroker(t) \/ RejectedByBroker(t) => armed' = armed /\ sent' = sent
      BY DEF EndCycle, SubmitToBroker, RejectedByBroker
    <2>3. FinishSubmit(t) \/ ChangeAccount(t) => armed' = armed /\ sent' = sent
      BY DEF FinishSubmit, ChangeAccount
    <2>4. QED
      BY <1>1, <1>3, <2>1, <2>2, <2>3 DEF CycleStep
  <1>4. QED
    BY <1>2, <1>3

\* The cycle starts in its invariant.
LEMMA CycleInvInit == CycleInit => CycleInv
  <1> SUFFICES ASSUME CycleInit PROVE CycleInv
    OBVIOUS
  <1>1. BrokerInv /\ CashInv
    BY BrokerInvInit, CashInvInit DEF CycleInit
  <1>2. \A t \in Thread : review[t] = NoReview
    BY DEF CycleInit
  <1>3. ReviewReady /\ ExitsOutrankSignals
    BY <1>2 DEF ReviewReady, ExitsOutrankSignals
  <1>4. sent \in Seq(Fill) /\ armed \in BOOLEAN /\ review \in [Thread -> Review \cup {NoReview}]
    <2>1. sent = <<>> /\ armed = FALSE /\ review = [t \in Thread |-> NoReview]
      BY DEF CycleInit
    <2>2. <<>> \in Seq(Fill)
      OBVIOUS
    <2>3. QED
      BY <2>1, <2>2
  <1>5. QED
    BY <1>1, <1>3, <1>4 DEF CycleInv, CycleTypeOK, BrokerInv

\* Every step keeps the invariant of the cycle.
LEMMA CycleInvStep ==
    ASSUME CycleInv, [CycleNext]_cycleVars
    PROVE  CycleInv'
  <1>1. CycleTypeOK /\ ReviewReady /\ BrokerInv /\ CashInv /\ Solvent
    BY DEF CycleInv, CycleTypeOK, BrokerInv, CashInv
  <1>2. [BrokerNext]_vars
    BY <1>1, CycleIsBroker
  <1>3. BrokerInv' /\ CashInv'
    BY <1>1, <1>2, BrokerInvStep, CashInvStep
  <1>4. ASSUME review' \in [Thread -> Review \cup {NoReview}], armed' \in BOOLEAN, sent' \in Seq(Fill),
               ReviewReady', ExitsOutrankSignals'
        PROVE  CycleInv'
    BY <1>3, <1>4 DEF CycleInv, CycleTypeOK, BrokerInv
  <1>5. review \in [Thread -> Review \cup {NoReview}] /\ armed \in BOOLEAN /\ sent \in Seq(Fill)
    BY <1>1 DEF CycleTypeOK
  <1>6. ASSUME NEW t \in Thread, review'[t] = NoReview
        PROVE  ReviewReady' /\ ExitsOutrankSignals'
    BY <1>6, SerialUse DEF ReviewReady, ExitsOutrankSignals
  <1>7. ASSUME NEW t \in Thread, NEW s \in Symbol, NEW p \in Price, MakesReview(t, s, p)
        PROVE  CycleInv'
    <2>1. /\ ReviewInHand(t) /\ stage'[t] = "idle"
          /\ review' = [review EXCEPT ![t] = review'[t]]
      BY <1>1, <1>7, EvaluateReviews DEF MakesReview
    <2>2. review'[t] \in Review
      BY <2>1 DEF ReviewInHand
    <2>3. ReviewReady'
      BY <2>1, SerialUse DEF ReviewReady, ReviewInHand
    <2>4. ExitsOutrankSignals'
      BY <2>1, SerialUse DEF ExitsOutrankSignals, ReviewInHand
    <2>5. review' \in [Thread -> Review \cup {NoReview}]
      BY <1>5, <2>1, <2>2
    <2>6. armed' = armed /\ sent' = sent
      BY <1>7 DEF MakesReview, Evaluate
    <2>7. QED
      BY <1>4, <1>5, <2>3, <2>4, <2>5, <2>6
  <1>8. ASSUME NEW t \in Thread, CycleStep(t), \A s \in Symbol, p \in Price : ~MakesReview(t, s, p)
        PROVE  CycleInv'
    <2>1. review' \in [Thread -> Review \cup {NoReview}] /\ review'[t] = NoReview
      BY <1>1, <1>8, ReviewDropped
    <2>2. armed' \in BOOLEAN /\ sent' \in Seq(Fill)
      BY <1>1, <1>8, SentStep
    <2>3. QED
      BY <1>4, <1>6, <2>1, <2>2
  <1>9. CASE Restart
    <2>1. /\ review' = [t \in Thread |-> NoReview]
          /\ armed' \in BOOLEAN /\ sent' = sent
      BY <1>9 DEF Restart
    <2>2. \A t \in Thread : review'[t] = NoReview
      BY <2>1
    <2>3. ReviewReady' /\ ExitsOutrankSignals'
      BY <2>2 DEF ReviewReady, ExitsOutrankSignals
    <2>4. QED
      BY <1>4, <1>5, <2>1, <2>3
  <1>10. CASE UNCHANGED cycleVars
    <2>1. book' = book /\ stage' = stage /\ review' = review /\ armed' = armed /\ sent' = sent
      BY <1>10 DEF cycleVars, vars
    <2>2. ReviewReady' /\ ExitsOutrankSignals'
      BY <2>1 DEF CycleInv, ReviewReady, ExitsOutrankSignals
    <2>3. QED
      BY <1>4, <1>5, <2>1, <2>2
  <1>11. QED
    BY <1>7, <1>8, <1>9, <1>10 DEF CycleNext

\* The account, the reviews and the orders sent keep their types over whole
\* cycles: what the risk controller sizes is a quantity, what is approved is an
\* order, and no signal, market, price or restart makes anything else of it.
THEOREM CycleTyped == CycleSpec => []CycleTypeOK
  <1>1. CycleInit => CycleInv
    BY CycleInvInit
  <1>2. CycleInv /\ [CycleNext]_cycleVars => CycleInv'
    BY CycleInvStep
  <1>3. CycleInv => CycleTypeOK
    BY DEF CycleInv
  <1>4. QED
    BY <1>1, <1>2, <1>3, PTL DEF CycleSpec

\* A cycle never makes an entry against an exit: when the broker's rules want to
\* sell at the price of a review, it is an approved sell of what they want sold,
\* whatever the strategy, the market, the hour and the settings say.  The
\* trailing stop that the evaluation has moved finds the same exit again.
THEOREM CycleExitsOutrankSignals == CycleSpec => []ExitsOutrankSignals
  <1>1. CycleInit => CycleInv
    BY CycleInvInit
  <1>2. CycleInv /\ [CycleNext]_cycleVars => CycleInv'
    BY CycleInvStep
  <1>3. CycleInv => ExitsOutrankSignals
    BY DEF CycleInv
  <1>4. QED
    BY <1>1, <1>2, <1>3, PTL DEF CycleSpec

\* Over whole cycles the trailing stop of a position only rises, until a buy, a
\* reset or a restart: the prices of the cycles and the exchange's numbers never
\* loosen it.
THEOREM CycleTrailingNeverLoosens == CycleSpec => TrailingNeverLoosens
  <1>1. CycleInit => CycleInv
    BY CycleInvInit
  <1>2. CycleInv /\ [CycleNext]_cycleVars => CycleInv'
    BY CycleInvStep
  <1>3. CycleInv /\ [CycleNext]_cycleVars => TrailsHold
    <2>1. CycleInv => CycleTypeOK /\ ReviewReady /\ BrokerInv
      BY DEF CycleInv, CycleTypeOK, BrokerInv
    <2>2. QED
      BY <2>1, CycleIsBroker, TrailsHoldStep
  <1>4. QED
    BY <1>1, <1>2, <1>3, PTL DEF CycleSpec, TrailingNeverLoosens, TrailsHold

-----------------------------------------------------------------------------
(***************************************************************************)
(* The first target.                                                       *)
(***************************************************************************)

\* Whether a buy of the symbol of order i follows it, before order j.
BoughtBetween(orders, i, j) ==
    \E k \in i + 1 .. j - 1 :
        orders[k].symbol = orders[i].symbol /\ orders[k].side = "buy"

\* Between two first-target sells of a symbol there is a buy of it.
OnceIn(orders) ==
    \A i, j \in DOMAIN orders :
        i < j /\ orders[i].tp /\ orders[j].tp /\ orders[i].symbol = orders[j].symbol
            => BoughtBetween(orders, i, j)

\* A first-target sell that no buy follows has left its position spent.
SpentIn(b) ==
    \A i \in DOMAIN b.orders :
        b.orders[i].tp /\ ~BoughtBetween(b.orders, i, Len(b.orders) + 1)
            => b.pos[b.orders[i].symbol].tp1Done

\* A checked first-target sell is of a position whose target is not spent.
OrderUnspent ==
    \A t \in Thread :
        stage[t] = "checked" /\ order[t].tp => ~book.pos[order[t].symbol].tp1Done

TargetInv ==
    /\ OnceIn(book.orders) /\ OnceIn(ledger.book.orders)
    /\ SpentIn(book) /\ SpentIn(ledger.book)
    /\ OrderUnspent

\* An order behind the others changes nothing between two of them.
LEMMA BetweenAppended ==
    ASSUME NEW orders \in Seq(Fill), NEW f \in Fill, NEW i \in DOMAIN orders,
           NEW j \in 1 .. Len(orders) + 1
    PROVE  /\ BoughtBetween(Append(orders, f), i, j) <=> BoughtBetween(orders, i, j)
           /\ ~BoughtBetween(Append(orders, f), i, Len(orders) + 2)
                => /\ ~BoughtBetween(orders, i, Len(orders) + 1)
                   /\ f.symbol = orders[i].symbol => f.side # "buy"
  <1> DEFINE n == Len(orders)
             new == Append(orders, f)
  <1>1. n \in Nat /\ i \in 1 .. n /\ j \in 1 .. n + 1
    OBVIOUS
  <1>2. (\A k \in 1 .. n : new[k] = orders[k]) /\ new[n + 1] = f
    OBVIOUS
  <1> HIDE DEF n, new
  <1>3. \A k \in i + 1 .. j - 1 : k \in 1 .. n /\ new[k] = orders[k]
    BY <1>1, <1>2
  <1>4. new[i] = orders[i]
    BY <1>1, <1>2
  <1>5. BoughtBetween(new, i, j) <=> BoughtBetween(orders, i, j)
    BY <1>3, <1>4 DEF BoughtBetween
  <1>6. ASSUME ~BoughtBetween(new, i, n + 2)
        PROVE  /\ ~BoughtBetween(orders, i, n + 1)
               /\ f.symbol = orders[i].symbol => f.side # "buy"
    <2>1. \A k \in i + 1 .. n + 1 : ~(new[k].symbol = new[i].symbol /\ new[k].side = "buy")
      BY <1>1, <1>6 DEF BoughtBetween
    <2>2. \A k \in i + 1 .. n : new[k] = orders[k] /\ k \in i + 1 .. n + 1
      BY <1>1, <1>2
    <2>3. n + 1 \in i + 1 .. n + 1
      BY <1>1
    <2>4. f.symbol = orders[i].symbol => f.side # "buy"
      BY <1>2, <1>4, <2>1, <2>3
    <2>5. \A k \in i + 1 .. n + 1 - 1 : ~(orders[k].symbol = orders[i].symbol /\ orders[k].side = "buy")
      BY <1>1, <1>4, <2>1, <2>2
    <2>6. ~BoughtBetween(orders, i, n + 1)
      BY <1>1, <2>5 DEF BoughtBetween
    <2>7. QED
      BY <2>4, <2>6
  <1>7. QED
    BY <1>5, <1>6 DEF n, new

\* One more order keeps the promise when it is no first-target sell, or the
\* first of its position.
LEMMA OnceAppended ==
    ASSUME NEW b \in Account, NEW f \in Fill, OnceIn(b.orders), SpentIn(b),
           f.tp => ~b.pos[f.symbol].tp1Done
    PROVE  OnceIn(Append(b.orders, f))
  <1> DEFINE n == Len(b.orders)
             new == Append(b.orders, f)
  <1>1. b.orders \in Seq(Fill) /\ n \in Nat /\ DOMAIN b.orders = 1 .. n
    BY DEF Account
  <1>2. DOMAIN new = 1 .. n + 1 /\ (\A k \in 1 .. n : new[k] = b.orders[k]) /\ new[n + 1] = f
    BY <1>1
  <1> SUFFICES ASSUME NEW i \in 1 .. n + 1, NEW j \in 1 .. n + 1, i < j, new[i].tp, new[j].tp,
                      new[i].symbol = new[j].symbol
               PROVE  BoughtBetween(new, i, j)
    BY <1>2 DEF OnceIn
  <1>3. i \in 1 .. n
    BY <1>1
  <1>4. new[i] = b.orders[i]
    BY <1>2, <1>3
  <1>5. BoughtBetween(new, i, j) <=> BoughtBetween(b.orders, i, j)
    BY <1>1, <1>3, BetweenAppended
  <1>6. CASE j = n + 1
    <2>1. f.tp /\ f.symbol = b.orders[i].symbol
      BY <1>2, <1>4, <1>6
    <2>2. BoughtBetween(b.orders, i, n + 1)
      BY <1>1, <1>3, <1>4, <2>1 DEF SpentIn
    <2>3. QED
      BY <1>5, <1>6, <2>2
  <1>7. CASE j \in 1 .. n
    <2>1. new[j] = b.orders[j]
      BY <1>2, <1>7
    <2>2. BoughtBetween(b.orders, i, j)
      BY <1>1, <1>3, <1>4, <1>7, <2>1 DEF OnceIn
    <2>3. QED
      BY <1>5, <2>2
  <1>8. QED
    BY <1>1, <1>6, <1>7

\* A fill keeps each spent target spent but that of the symbol it buys, and
\* spends its own when it is a first-target sell.
LEMMA SpentAppended ==
    ASSUME NEW b \in Account, NEW c \in Account, NEW f \in Fill, SpentIn(b),
           c.orders = Append(b.orders, f),
           \A s \in Symbol : b.pos[s].tp1Done /\ ~(f.symbol = s /\ f.side = "buy") => c.pos[s].tp1Done,
           f.tp => c.pos[f.symbol].tp1Done
    PROVE  SpentIn(c)
  <1> DEFINE n == Len(b.orders)
  <1>1. b.orders \in Seq(Fill) /\ n \in Nat /\ DOMAIN b.orders = 1 .. n
    BY DEF Account
  <1>2. /\ DOMAIN c.orders = 1 .. n + 1 /\ Len(c.orders) = n + 1
        /\ (\A k \in 1 .. n : c.orders[k] = b.orders[k]) /\ c.orders[n + 1] = f
    BY <1>1
  <1> SUFFICES ASSUME NEW i \in 1 .. n + 1, c.orders[i].tp,
                      ~BoughtBetween(c.orders, i, Len(c.orders) + 1)
               PROVE  c.pos[c.orders[i].symbol].tp1Done
    BY <1>2 DEF SpentIn
  <1>3. CASE i = n + 1
    BY <1>2, <1>3
  <1>4. CASE i \in 1 .. n
    <2>1. n + 1 + 1 = n + 2 /\ n + 1 \in 1 .. n + 1
      BY <1>1
    <2>2. ~BoughtBetween(Append(b.orders, f), i, n + 2)
      BY <1>2, <2>1
    <2>3. /\ ~BoughtBetween(b.orders, i, n + 1)
          /\ f.symbol = b.orders[i].symbol => f.side # "buy"
      BY <1>1, <1>4, <2>1, <2>2, BetweenAppended
    <2>4. c.orders[i] = b.orders[i] /\ b.orders[i] \in Fill
      BY <1>1, <1>2, <1>4
    <2>5. b.pos[b.orders[i].symbol].tp1Done /\ b.orders[i].symbol \in Symbol
      BY <1>1, <1>4, <2>3, <2>4 DEF SpentIn, Fill
    <2>6. QED
      BY <2>3, <2>4, <2>5
  <1>5. QED
    BY <1>1, <1>3, <1>4

\* The same when there is no new order and every spent target stays spent.
LEMMA SpentKept ==
    ASSUME NEW b \in Account, NEW c \in Account, SpentIn(b), c.orders = b.orders,
           \A s \in Symbol : b.pos[s].tp1Done => c.pos[s].tp1Done
    PROVE  SpentIn(c)
  <1>1. \A i \in DOMAIN b.orders : b.orders[i].symbol \in Symbol
    <2>1. b.orders \in Seq(Fill)
      BY DEF Account
    <2>2. \A i \in DOMAIN b.orders : b.orders[i] \in Fill
      BY <2>1
    <2>3. QED
      BY <2>2 DEF Fill
  <1>2. QED
    BY <1>1 DEF SpentIn

\* An account without orders has nothing to answer for.
LEMMA NewAccountUnspent == OnceIn(NewAccount.orders) /\ SpentIn(NewAccount)
  <1>1. NewAccount.orders = <<>>
    BY DEF NewAccount
  <1>2. DOMAIN NewAccount.orders = {}
    BY <1>1
  <1>3. QED
    BY <1>2 DEF OnceIn, SpentIn

\* Steps that fill nothing: the account keeps its orders and its spent targets,
\* or starts anew, and the file holds one of the two accounts.
LEMMA UnfilledTargets ==
    ASSUME BrokerInv, TargetInv, NEW t \in Thread, BrokerStep(t),
           ~Buy(t), ~Sell(t), ~SellRejectedLate(t)
    PROVE  /\ OnceIn(book'.orders) /\ SpentIn(book')
           /\ OnceIn(ledger'.book.orders) /\ SpentIn(ledger'.book)
  <1>1. book \in Account /\ ledger \in Ledger /\ book' \in Account
    BY AccountStep DEF BrokerInv, TypeOK
  <1>2. book' = NewAccount \/ book'.orders = book.orders
    BY UnfilledOrders
  <1>3. book' = NewAccount \/ \A s \in Symbol : book'.pos[s].tp1Done = book.pos[s].tp1Done
    BY OtherPositions
  <1>5. ledger'.book \in {ledger.book, book'}
    BY LedgerBook
  <1>6. OnceIn(book'.orders) /\ SpentIn(book')
    <2>1. CASE book' = NewAccount
      BY <2>1, NewAccountUnspent
    <2>2. CASE book' # NewAccount
      <3>1. SpentIn(book')
        BY <1>1, <1>2, <1>3, <2>2, SpentKept DEF TargetInv
      <3>2. QED
        BY <1>2, <2>2, <3>1 DEF TargetInv
    <2>3. QED
      BY <2>1, <2>2
  <1>7. QED
    BY <1>5, <1>6 DEF TargetInv

\* Fills, and orders that the broker refuses late.
LEMMA FilledTargets ==
    ASSUME BrokerInv, TargetInv, NEW t \in Thread, Buy(t) \/ Sell(t) \/ SellRejectedLate(t)
    PROVE  /\ OnceIn(book'.orders) /\ SpentIn(book')
           /\ ledger'.book = ledger.book
  <1> DEFINE o == order[t]
             f == [symbol |-> o.symbol, side |-> o.side, tp |-> o.tp]
             late == [o EXCEPT !.tp = FALSE]
             g == [symbol |-> o.symbol, side |-> o.side, tp |-> FALSE]
  <1>1. book \in Account /\ ledger \in Ledger /\ stage[t] = "checked"
    BY DEF BrokerInv, TypeOK, Buy, Sell, SellRejectedLate
  <1>2. Checked(o)
    BY <1>1 DEF BrokerInv, OrderReady
  <1>3. /\ o \in Order /\ o.symbol \in Symbol /\ o.side \in {"buy", "sell"} /\ o.tp \in BOOLEAN
        /\ o.tp => o.side = "sell"
    BY <1>2, FeeWithin DEF Checked
  <1>4. f \in Fill /\ g \in Fill
    BY <1>3 DEF Fill
  <1>5. o.tp => ~book.pos[o.symbol].tp1Done
    BY <1>1 DEF TargetInv, OrderUnspent
  <1>6. OnceIn(book.orders) /\ SpentIn(book)
    BY DEF TargetInv
  <1>7. CASE Buy(t)
    <2>1. book' \in Account /\ book'.orders = Append(book.orders, f) /\ o.side = "buy"
      BY <1>1, <1>2, <1>7, AfterBuyTyped DEF Buy
    <2>2. ~f.tp
      BY <1>3, <2>1
    <2>3. \A s \in Symbol : s # o.symbol => book'.pos[s] = book.pos[s]
      BY <1>7, FilledPositions
    <2>4. ledger' = ledger
      BY <1>7 DEF Buy
    <2>5. OnceIn(book'.orders)
      BY <1>1, <1>4, <1>6, <2>1, <2>2, OnceAppended
    <2>6. f.symbol = o.symbol /\ f.side = "buy"
      BY <2>1
    <2> HIDE DEF o, f
    <2>7. SpentIn(book')
      BY <1>1, <1>4, <1>6, <2>1, <2>2, <2>3, <2>6, SpentAppended
    <2>8. QED
      BY <2>4, <2>5, <2>7
  <1>8. CASE Sell(t)
    <2>1. book' \in Account /\ book'.orders = Append(book.orders, f)
      BY <1>1, <1>2, <1>8, AfterSellTyped DEF Sell
    <2>2. /\ \A s \in Symbol : s # o.symbol => book'.pos[s] = book.pos[s]
          /\ book'.pos[o.symbol].tp1Done <=> book.pos[o.symbol].tp1Done \/ o.tp
      BY <1>8, FilledPositions
    <2>3. ledger' = ledger
      BY <1>8 DEF Sell
    <2>4. f.symbol = o.symbol /\ f.tp = o.tp
      OBVIOUS
    <2> HIDE DEF o, f
    <2>5. OnceIn(book'.orders)
      BY <1>1, <1>4, <1>5, <1>6, <2>1, <2>4, OnceAppended
    <2>6. SpentIn(book')
      BY <1>1, <1>4, <1>6, <2>1, <2>2, <2>4, SpentAppended
    <2>7. QED
      BY <2>3, <2>5, <2>6
  <1>9. CASE SellRejectedLate(t)
    <2>1. late \in Order /\ late.symbol = o.symbol /\ late.side = o.side /\ late.tp = FALSE
      BY <1>3 DEF Order
    <2>2. book' = WithOrder(book, late) /\ ledger' = ledger
      BY <1>9 DEF SellRejectedLate
    <2> HIDE DEF late
    <2>3. g = [symbol |-> late.symbol, side |-> late.side, tp |-> late.tp]
      BY <2>1
    <2>4. book' \in Account /\ book'.orders = Append(book.orders, g) /\ book'.pos = book.pos
      BY <1>1, <2>1, <2>2, <2>3, WithOrderTyped
    <2>5. ~g.tp
      OBVIOUS
    <2> HIDE DEF g, o
    <2>6. OnceIn(book'.orders)
      BY <1>1, <1>4, <1>6, <2>4, <2>5, OnceAppended
    <2>7. SpentIn(book')
      BY <1>1, <1>4, <1>6, <2>4, <2>5, SpentAppended
    <2>8. QED
      BY <2>2, <2>6, <2>7
  <1>10. QED
    BY <1>7, <1>8, <1>9

\* An order past the checks is of the review it was made of.
LEMMA OrderUnspentStep ==
    ASSUME CycleInv, OrderUnspent, NEW t \in Thread, CycleStep(t)
    PROVE  OrderUnspent'
  <1>1. /\ stage \in [Thread -> Stage]
        /\ order \in [Thread -> Order \cup {NoOrder}]
    BY DEF CycleInv, CycleTypeOK, TypeOK
  <1>2. ASSUME stage'[t] # "checked" PROVE OrderUnspent'
    BY <1>2, SerialUse DEF OrderUnspent
  <1>3. ASSUME SubmitToBroker(t) PROVE OrderUnspent'
    <2> DEFINE r == review[t]
               o == Priced(book, RequestOf(r))
    <2>1. Approving(t) /\ Check(t, RequestOf(r))
      BY <1>3 DEF SubmitToBroker
    <2>2. order'[t] = o /\ book' = book
      BY <1>1, <2>1 DEF Check
    <2>3. o.tp = r.tp /\ o.symbol = r.symbol
      BY DEF Priced, RequestOf
    <2>4. r.tp => ~book.pos[r.symbol].tp1Done
      BY <2>1 DEF CycleInv, ReviewReady, Approving
    <2> HIDE DEF r, o
    <2>5. QED
      BY <2>2, <2>3, <2>4, SerialUse DEF OrderUnspent
  <1>4. ASSUME NEW s \in Symbol, NEW p \in Price, Evaluate(t, s, p) PROVE OrderUnspent'
    <2>1. stage'[t] # "checked"
      BY <1>4 DEF Evaluate, Commit
    <2>2. QED
      BY <1>2, <2>1
  <1>5. ASSUME EndCycle(t) \/ RejectedByBroker(t) \/ SubmitToExchange(t) PROVE OrderUnspent'
    BY <1>5 DEF EndCycle, RejectedByBroker, SubmitToExchange, vars, OrderUnspent
  <1>6. ASSUME FinishSubmit(t) PROVE OrderUnspent'
    <2>1. stage'[t] # "checked"
      BY <1>1, <1>6 DEF FinishSubmit, FillStep, Buy, Sell, SellRejectedLate, LogTrade,
         LogTradeRaises, Persist, EndSubmit
    <2>2. QED
      BY <1>2, <2>1
  <1>7. ASSUME ChangeAccount(t) PROVE OrderUnspent'
    <2>1. stage'[t] # "checked"
      BY <1>7 DEF ChangeAccount, SyncExchangePosition, Reset, Commit
    <2>2. QED
      BY <1>2, <2>1
  <1>8. QED
    BY <1>3, <1>4, <1>5, <1>6, <1>7 DEF CycleStep

\* No target is taken at the start.
LEMMA TargetInvInit == CycleInit => TargetInv
  <1> SUFFICES ASSUME CycleInit PROVE TargetInv
    OBVIOUS
  <1>1. book = NewAccount /\ ledger.book = NewAccount /\ \A t \in Thread : stage[t] = "idle"
    BY DEF CycleInit, Init, EmptyLedger
  <1>2. QED
    BY <1>1, NewAccountUnspent DEF TargetInv, OrderUnspent

\* No step orders a target that the position has taken.
LEMMA TargetInvStep ==
    ASSUME CycleInv, TargetInv, [CycleNext]_cycleVars
    PROVE  TargetInv'
  <1>1. CycleTypeOK /\ ReviewReady /\ BrokerInv /\ OrderUnspent
    BY DEF CycleInv, CycleTypeOK, BrokerInv, TargetInv
  <1>2. ASSUME NEW t \in Thread, CycleStep(t) PROVE TargetInv'
    <2>1. OrderUnspent'
      BY <1>1, <1>2, OrderUnspentStep
    <2>2. CASE Buy(t) \/ Sell(t) \/ SellRejectedLate(t)
      BY <1>1, <2>1, <2>2, FilledTargets DEF TargetInv
    <2>3. CASE BrokerStep(t) /\ ~Buy(t) /\ ~Sell(t) /\ ~SellRejectedLate(t)
      BY <1>1, <2>1, <2>3, UnfilledTargets DEF TargetInv
    <2>4. CASE UNCHANGED vars
      BY <2>1, <2>4 DEF vars, TargetInv, SpentIn
    <2>5. QED
      BY <1>1, <1>2, <2>2, <2>3, <2>4, CycleStepIsBrokerStep
  <1>3. CASE Restart
    <2>1. Crash
      BY <1>3 DEF Restart
    <2>2. /\ book'.pos = ledger.book.pos /\ book'.orders = ledger.book.orders
          /\ ledger' = ledger /\ \A t \in Thread : stage'[t] = "idle"
      BY <1>1, <2>1, CrashStep
    <2>3. QED
      BY <2>2 DEF TargetInv, SpentIn, OrderUnspent
  <1>4. CASE UNCHANGED cycleVars
    BY <1>4 DEF cycleVars, vars, TargetInv, SpentIn, OrderUnspent
  <1>5. QED
    BY <1>2, <1>3, <1>4 DEF CycleNext

\* The first target of a position is sold once: between two such sells of a
\* symbol the account has bought again, however often the exit rules are asked,
\* the exchange's numbers overwrite the position or the process restarts.  The
\* account remembers the sale with the order itself, in memory and on file.
THEOREM CycleTargetSpentOnce == CycleSpec => []TargetSpentOnce
  <1>1. CycleInit => CycleInv /\ TargetInv
    BY CycleInvInit, TargetInvInit
  <1>2. CycleInv /\ TargetInv /\ [CycleNext]_cycleVars => (CycleInv /\ TargetInv)'
    BY CycleInvStep, TargetInvStep
  <1>3. TargetInv => TargetSpentOnce
    BY DEF TargetInv, OnceIn, BoughtBetween, TargetSpentOnce
  <1>4. QED
    BY <1>1, <1>2, <1>3, PTL DEF CycleSpec
-----------------------------------------------------------------------------
(***************************************************************************)
(* Entries the account can pay.                                            *)
(***************************************************************************)

\* A share of an amount is exact but for half an amount.
LEMMA ShareBounds ==
    ASSUME NEW n \in Nat, NEW bps \in Nat
    PROVE  /\ 2 * (Share(n, bps) * BasisPoints) <= 2 * (n * bps) + BasisPoints
           /\ 2 * (n * bps) <= 2 * (Share(n, bps) * BasisPoints) + BasisPoints
  <1> DEFINE m == n * bps
             r == RoundDiv(m, BasisPoints)
  <1>1. m \in Nat /\ BasisPoints \in Nat \ {0}
    BY MoneyConstants
  <1>2. Share(n, bps) = r
    BY DEF Share
  <1> HIDE DEF m
  <1>3. r \in Int /\ 2 * (BasisPoints * r) <= 2 * m + BasisPoints
        /\ 2 * m < 2 * (BasisPoints * r) + BasisPoints
    BY <1>1, RoundDivBounds
  <1> HIDE DEF r
  <1>4. 2 * (r * BasisPoints) <= 2 * m + BasisPoints /\ 2 * m <= 2 * (r * BasisPoints) + BasisPoints
    BY <1>1, <1>3
  <1>5. QED
    BY <1>2, <1>4 DEF m

\* What is affordable leaves the fee and the slippage payable.
LEMMA AffordableBounds ==
    ASSUME NEW cash \in Nat
    PROVE  /\ Affordable(cash) \in Nat /\ AffordableWithoutFee(cash) \in Nat
           /\ Affordable(cash) * (BasisPoints + FeeBps) <= AffordableWithoutFee(cash) * BasisPoints
           /\ AffordableWithoutFee(cash) * (BasisPoints + SlipBps) <= cash * BasisPoints
  <1> DEFINE up == BasisPoints + SlipBps
             more == BasisPoints + FeeBps
             n == cash * BasisPoints
             a == n \div up
             m == a * BasisPoints
             b == m \div more
  <1>1. BasisPoints \in Nat /\ up \in Nat \ {0} /\ more \in Nat \ {0}
    BY MoneyConstants
  <1>2. n \in Nat
    BY <1>1
  <1>3. AffordableWithoutFee(cash) = a /\ Affordable(cash) = b
    BY DEF Affordable, AffordableWithoutFee
  <1> HIDE DEF n, up, more
  <1>4. a \in Nat /\ up * a <= n
    BY <1>1, <1>2, DivNat, DivBounds
  <1> HIDE DEF a
  <1>5. m \in Nat
    BY <1>1, <1>4
  <1> HIDE DEF m
  <1>6. b \in Nat /\ more * b <= m
    BY <1>1, <1>5, DivNat, DivBounds
  <1> HIDE DEF b
  <1>7. b * more <= m /\ a * up <= n
    BY <1>1, <1>4, <1>6
  <1>8. QED
    BY <1>3, <1>4, <1>6, <1>7 DEF n, m, up, more

\* The arithmetic of an entry, in three steps: B is BasisPoints and S is Scale,
\* up and more add slippage and fee, a1 pays for the slippage, k stands for the
\* roundings.  First the quantity at the executed price.
LEMMA GrossArithmetic ==
    ASSUME NEW B \in Nat, NEW S \in Nat, NEW up \in Nat, NEW budget \in Nat,
           NEW price \in Nat, NEW qty \in Nat, NEW exec \in Nat,
           2 * (price * qty) <= 2 * (budget * S) + price,
           2 * (exec * B) <= 2 * (price * up) + B,
           2 * (price * up) <= 2 * (exec * B) + B
    PROVE  4 * (qty * exec) * B <= 4 * (budget * S) * up + (2 * exec + 2 * qty + 1) * B
  <1>1. (2 * (exec * B)) * qty <= (2 * (price * up) + B) * qty
    <2>1. 2 * (exec * B) \in Int /\ 2 * (price * up) + B \in Int
      OBVIOUS
    <2>2. QED
      BY <2>1, ProductMonotone
  <1>2. (2 * (price * qty)) * up <= (2 * (budget * S) + price) * up
    <2>1. 2 * (price * qty) \in Int /\ 2 * (budget * S) + price \in Int
      OBVIOUS
    <2>2. QED
      BY <2>1, ProductMonotone
  <1>3. QED
    BY <1>1, <1>2

\* Then the fee on it, which the cash still pays for.
LEMMA NetArithmetic ==
    ASSUME NEW B \in Nat \ {0}, NEW S \in Nat, NEW up \in Nat, NEW more \in Nat, more <= 2 * B,
           NEW cash \in Nat, NEW a1 \in Nat, NEW budget \in Nat,
           a1 * up <= cash * B, budget * more <= a1 * B,
           NEW gross \in Nat, NEW k \in Nat, 4 * gross * B <= 4 * (budget * S) * up + k * B
    PROVE  2 * gross * more <= 2 * S * (cash * B) + k * B
  <1> DEFINE m == 4 * S * up
  <1>1. (4 * gross * B) * more <= (4 * (budget * S) * up + k * B) * more
    <2>1. 4 * gross * B \in Int /\ 4 * (budget * S) * up + k * B \in Int
      OBVIOUS
    <2>2. QED
      BY <2>1, ProductMonotone
  <1>2. (budget * more) * m <= (a1 * B) * m
    <2>1. budget * more \in Int /\ a1 * B \in Int /\ m \in Nat
      OBVIOUS
    <2>2. QED
      BY <2>1, ProductMonotone
  <1>3. (4 * gross * more) * B <= (4 * S * (a1 * up) + k * more) * B
    BY <1>1, <1>2
  <1>4. 4 * gross * more <= 4 * S * (a1 * up) + k * more
    <2>1. 4 * gross * more \in Int /\ 4 * S * (a1 * up) + k * more \in Int
      OBVIOUS
    <2>2. QED
      BY <1>3, <2>1, ProductCancel
  <1>5. (a1 * up) * (4 * S) <= (cash * B) * (4 * S)
    <2>1. a1 * up \in Int /\ cash * B \in Int /\ 4 * S \in Nat
      OBVIOUS
    <2>2. QED
      BY <2>1, ProductMonotone
  <1>6. more * k <= (2 * B) * k
    <2>1. 2 * B \in Int
      OBVIOUS
    <2>2. QED
      BY <2>1, ProductMonotone
  <1>7. QED
    BY <1>4, <1>5, <1>6

\* Then both, rounded.
LEMMA PayableArithmetic ==
    ASSUME NEW B \in Nat \ {0}, NEW S \in Nat \ {0}, NEW bps \in Nat,
           NEW more \in Nat, more = B + bps, more <= 2 * B, NEW cash \in Nat,
           NEW gross \in Nat, NEW k \in Nat, 2 * gross * more <= 2 * S * (cash * B) + k * B,
           NEW notional \in Nat, NEW fee \in Nat,
           2 * (notional * S) <= 2 * gross + S,
           2 * (fee * B) <= 2 * (notional * bps) + B
    PROVE  2 * S * (notional + fee - 2 - cash) + S <= k
  <1>1. (2 * (fee * B)) * S <= (2 * (notional * bps) + B) * S
    <2>1. 2 * (fee * B) \in Int /\ 2 * (notional * bps) + B \in Int
      OBVIOUS
    <2>2. QED
      BY <2>1, ProductMonotone
  <1>2. (2 * (notional * S)) * more <= (2 * gross + S) * more
    <2>1. 2 * (notional * S) \in Int /\ 2 * gross + S \in Int
      OBVIOUS
    <2>2. QED
      BY <2>1, ProductMonotone
  <1>3. more * S <= (2 * B) * S
    <2>1. 2 * B \in Int
      OBVIOUS
    <2>2. QED
      BY <2>1, ProductMonotone
  <1>4. notional * more = notional * B + notional * bps
    OBVIOUS
  <1>5. (2 * S * (notional + fee)) * B <= (2 * S * cash + k + 3 * S) * B
    BY <1>1, <1>2, <1>3, <1>4
  <1>6. 2 * S * (notional + fee) <= 2 * S * cash + k + 3 * S
    <2>1. 2 * S * (notional + fee) \in Int /\ 2 * S * cash + k + 3 * S \in Int
      OBVIOUS
    <2>2. QED
      BY <1>5, <2>1, ProductCancel
  <1>7. 2 * S * (notional + fee - 2 - cash) = 2 * S * (notional + fee) - 4 * S - 2 * S * cash
    OBVIOUS
  <1>8. QED
    BY <1>6, <1>7

\* What a quantity costs that a budget within the cash pays for.
LEMMA EntryPayable ==
    ASSUME NEW price \in Nat \ {0}, NEW cash \in Nat, NEW budget \in Nat,
           budget <= Affordable(cash)
    PROVE  LET qty == RoundDiv(budget * Scale, price)
               exec == Share(price, BasisPoints + SlipBps)
               notional == Amount(qty, exec)
               fee == Share(notional, FeeBps)
           IN  2 * Scale * (notional + fee - 2 - cash) <= 2 * (exec + qty)
  <1> DEFINE up == BasisPoints + SlipBps
             more == BasisPoints + FeeBps
             a1 == AffordableWithoutFee(cash)
             most == Affordable(cash)
             worth == budget * Scale
             qty == RoundDiv(worth, price)
             exec == Share(price, up)
             notional == Amount(qty, exec)
             fee == Share(notional, FeeBps)
  <1>1. /\ BasisPoints \in Nat \ {0} /\ Scale \in Nat \ {0} /\ up \in Nat
        /\ FeeBps \in Nat /\ more \in Nat /\ more <= 2 * BasisPoints
    BY MoneyConstants
  <1>2. a1 \in Nat /\ most \in Nat /\ most * more <= a1 * BasisPoints /\ a1 * up <= cash * BasisPoints
    BY AffordableBounds
  <1>3. worth \in Nat
    BY <1>1
  <1>4. qty \in Nat /\ 2 * (price * qty) <= 2 * worth + price
    <2> HIDE DEF worth
    <2>1. QED
      BY <1>3, RoundDivNat, RoundDivBounds
  <1> HIDE DEF qty, up
  <1>5. /\ exec \in Nat /\ 2 * (exec * BasisPoints) <= 2 * (price * up) + BasisPoints
        /\ 2 * (price * up) <= 2 * (exec * BasisPoints) + BasisPoints
    BY <1>1, ShareNat, ShareBounds
  <1> HIDE DEF exec
  <1>6. notional \in Nat /\ 2 * (notional * Scale) <= 2 * (qty * exec) + Scale
    BY <1>4, <1>5, AmountNat, AmountBounds DEF Cost
  <1> HIDE DEF notional
  <1>7. fee \in Nat /\ 2 * (fee * BasisPoints) <= 2 * (notional * FeeBps) + BasisPoints
    BY <1>1, <1>6, ShareNat, ShareBounds
  <1> HIDE DEF fee, a1, most
  <1>8. budget * more <= a1 * BasisPoints
    <2> HIDE DEF more
    <2>1. budget * more <= most * more
      BY <1>1, <1>2, ProductMonotone DEF most
    <2>2. budget * more \in Nat /\ most * more \in Nat /\ a1 * BasisPoints \in Nat
      BY <1>1, <1>2
    <2>3. QED
      BY <1>2, <2>1, <2>2
  <1>9. 2 * (price * qty) <= 2 * (budget * Scale) + price
    BY <1>4
  <1> DEFINE k == 2 * exec + 2 * qty + 1
             gross == qty * exec
  <1>10. 4 * gross * BasisPoints <= 4 * (budget * Scale) * up + k * BasisPoints
    BY <1>1, <1>4, <1>5, <1>9, GrossArithmetic
  <1>11. gross \in Nat /\ k \in Nat
    BY <1>4, <1>5
  <1>12. 2 * (notional * Scale) <= 2 * gross + Scale
    BY <1>6
  <1> HIDE DEF gross, k
  <1>13. 2 * gross * more <= 2 * Scale * (cash * BasisPoints) + k * BasisPoints
    BY <1>1, <1>2, <1>8, <1>10, <1>11, NetArithmetic
  <1>14. 2 * Scale * (notional + fee - 2 - cash) + Scale <= k
    BY <1>1, <1>6, <1>7, <1>11, <1>12, <1>13, PayableArithmetic
  <1>15. 2 * Scale * (notional + fee - 2 - cash) <= 2 * (exec + qty)
    BY <1>1, <1>4, <1>5, <1>6, <1>7, <1>14 DEF k
  <1>16. QED
    BY <1>15 DEF qty, exec, notional, fee, up

\* What is sized for a buy is what the broker prices, whatever the account has
\* become but for its cash.
LEMMA ReviewPayable ==
    ASSUME NEW b \in Account, b.cash >= 0, NEW s \in Symbol, NEW price \in Price,
           NEW g \in Signal, NEW m \in MarketInfo, NEW late \in BOOLEAN, NEW blackout \in BOOLEAN,
           NEW c
    PROVE  LET r == Reviewed(b, s, price, g, m, late, blackout)
               o == Priced(c, RequestOf(r))
           IN  r.approved /\ r.side = "buy" =>
                   2 * Scale * (o.notional + o.fee - 2 - b.cash) <= 2 * (o.exec + o.qty)
  <1> DEFINE r == Reviewed(b, s, price, g, m, late, blackout)
             o == Priced(c, RequestOf(r))
             budget == EntryBudget(g.conf, b.cash, b.losing, m.vol)
             qty == RoundDiv(budget * Scale, price)
             exec == Share(price, BasisPoints + SlipBps)
             notional == Amount(qty, exec)
             fee == Share(notional, FeeBps)
  <1>1. /\ price \in Nat \ {0} /\ b.cash \in Nat /\ b.losing \in Nat /\ m.vol \in Volatility
    BY BrokerConstants DEF Account, MarketInfo
  <1>2. g.conf \in Nat
    <2>1. g.conf \in 0 .. BasisPoints
      BY DEF Signal
    <2>2. BasisPoints \in Nat
      BY MoneyConstants
    <2>3. \A x \in 0 .. BasisPoints : x \in Nat
      BY <2>2
    <2>4. QED
      BY <2>1, <2>3
  <1>3. budget \in Nat /\ budget <= Affordable(b.cash)
    BY <1>1, <1>2, EntryBudgetBounds
  <1> HIDE DEF budget
  <1>4. 2 * Scale * (notional + fee - 2 - b.cash) <= 2 * (exec + qty)
    BY <1>1, <1>3, EntryPayable
  <1>5. ASSUME r.approved, r.side = "buy"
        PROVE  o.qty = qty /\ o.exec = exec /\ o.notional = notional /\ o.fee = fee
    <2>1. r.size = qty /\ r.price = price
      BY <1>5 DEF Reviewed, EntrySize, budget
    <2> HIDE DEF r, qty
    <2>2. RequestOf(r).side = "buy" /\ RequestOf(r).size = qty /\ RequestOf(r).price = price
      BY <1>5, <2>1 DEF RequestOf
    <2>3. o.qty = qty /\ o.exec = exec
      BY <2>2 DEF Priced, ExecutedPrice
    <2>4. o.notional = Amount(o.qty, o.exec) /\ o.fee = Share(o.notional, FeeBps)
      BY DEF Priced
    <2> HIDE DEF o, exec
    <2>5. QED
      BY <2>3, <2>4
  <1> HIDE DEF r, o, qty, exec, notional, fee
  <1>6. r.approved /\ r.side = "buy" =>
           2 * Scale * (o.notional + o.fee - 2 - b.cash) <= 2 * (o.exec + o.qty)
    BY <1>4, <1>5
  <1>7. QED
    BY <1>6 DEF r, o

\* What the review has approved stays affordable until it is
\* filled.
LEMMA AffordableStep ==
    ASSUME CycleInv, ApprovedEntriesAffordable, [CycleNext]_cycleVars
    PROVE  ApprovedEntriesAffordable'
  <1>1. CycleTypeOK /\ ReviewReady /\ Solvent
    BY DEF CycleInv, CashInv
  <1>2. ASSUME NEW t \in Thread, review'[t] = NoReview PROVE ApprovedEntriesAffordable'
    BY <1>2, SerialUse DEF ApprovedEntriesAffordable, Approving
  <1>3. ASSUME NEW t \in Thread, NEW s \in Symbol, NEW p \in Price, MakesReview(t, s, p)
        PROVE  ApprovedEntriesAffordable'
    <2>1. book \in Account /\ book.cash >= 0 /\ review \in [Thread -> Review \cup {NoReview}]
      BY <1>1 DEF CycleTypeOK, TypeOK, Solvent
    <2>2. PICK made \in Reviews(book, s, p) : review' = [review EXCEPT ![t] = made]
      BY <1>3 DEF MakesReview, Evaluate
    <2> DEFINE signals == UNION {Signals(book.pos[s], strategy) : strategy \in Strategy}
    <2>3. PICK g \in signals, m \in Market, late \in BOOLEAN, blackout \in BOOLEAN :
            made = Reviewed(book, s, p, g, m, late, blackout)
      BY DEF Reviews
    <2>4. g \in Signal /\ m \in MarketInfo
      BY SignalTyped, CycleConstants
    <2> DEFINE o == Priced(book', RequestOf(made))
    <2>5. made.approved /\ made.side = "buy" =>
             2 * Scale * (o.notional + o.fee - 2 - book.cash) <= 2 * (o.exec + o.qty)
      BY <2>1, <2>3, <2>4, ReviewPayable
    <2>6. review'[t] = made
      BY <2>1, <2>2
    <2>7. book' = Evaluated(book, s, p)
      BY <1>3 DEF MakesReview, Evaluate, Commit, Evaluated
    <2>8. book'.cash = book.cash
      BY <2>1, <2>7, EvaluatedTyped
    <2>9. ASSUME NEW u \in Thread PROVE u = t
      BY SerialUse
    <2> SUFFICES ASSUME NEW u \in Thread, Approving(u)', review'[u].side = "buy"
                 PROVE  LET q == Priced(book', RequestOf(review'[u]))
                        IN  2 * Scale * (q.notional + q.fee - 2 - book'.cash) <= 2 * (q.exec + q.qty)
      BY DEF ApprovedEntriesAffordable
    <2>10. u = t /\ made.approved /\ made.side = "buy"
      BY <2>6, <2>9 DEF Approving
    <2>11. QED
      BY <2>5, <2>6, <2>8, <2>10
  <1>4. ASSUME NEW t \in Thread, CycleStep(t), \A s \in Symbol, p \in Price : ~MakesReview(t, s, p)
        PROVE  ApprovedEntriesAffordable'
    BY <1>1, <1>2, <1>4, ReviewDropped
  <1>5. CASE Restart
    BY <1>5 DEF Restart, ApprovedEntriesAffordable, Approving
  <1>6. CASE UNCHANGED cycleVars
    <2>1. book' = book /\ review' = review
      BY <1>6 DEF cycleVars, vars
    <2>2. QED
      BY <2>1 DEF ApprovedEntriesAffordable, Approving
  <1>7. QED
    BY <1>3, <1>4, <1>5, <1>6 DEF CycleNext

\* An approved entry is one the account can pay, but for the roundings of the
\* quantity, the executed price, the notional and the fee, for every price,
\* slippage, fee, confidence and multiplier: the risk controller's caps never
\* ask for more cash than there is.
THEOREM CycleEntriesAffordable == CycleSpec => []ApprovedEntriesAffordable
  <1>1. CycleInit => CycleInv /\ ApprovedEntriesAffordable
    <2>1. CycleInit => \A t \in Thread : review[t] = NoReview
      BY DEF CycleInit
    <2>2. CycleInit => ApprovedEntriesAffordable
      BY <2>1 DEF ApprovedEntriesAffordable, Approving
    <2>3. QED
      BY <2>2, CycleInvInit
  <1>2. CycleInv /\ ApprovedEntriesAffordable /\ [CycleNext]_cycleVars
          => (CycleInv /\ ApprovedEntriesAffordable)'
    BY CycleInvStep, AffordableStep
  <1>3. QED
    BY <1>1, <1>2, PTL DEF CycleSpec
-----------------------------------------------------------------------------
(***************************************************************************)
(* Entries that can be sold partly.                                        *)
(***************************************************************************)

\* What the smallest amount and the smallest quantity must be against the gain
\* of the first target.  The target sells half of a position at most, no
\* multiplier shrinks an order to nothing in normal mode, dust is less than an
\* order; and at every price half of the target's gain, after slippage, is an
\* amount, and the gain on the smallest order pays for a few quantity units.
FineTargets ==
    /\ 2 * TpSizeBps <= BasisPoints
    /\ \A v \in Volatility : Share(Share(MinNotional, VolatilityBps[v]), ModeBps["normal"]) > 0
    /\ 2 * DustNotional <= MinNotional
    /\ \A p \in Price :
          /\ 2 * (BasisPoints * BasisPoints) <= p * (BasisPoints - SlipBps) * Tp1Bps
          /\ 2 * p * (2 * BasisPoints + Tp1Bps) <= MinNotional * Scale * Tp1Bps
          /\ 2 * DustQty * p <= MinNotional * Scale

\* Rounding up gives at least the quotient.
LEMMA CeilDivCovers ==
    ASSUME NEW n \in Nat, NEW d \in Nat \ {0}
    PROVE  n <= CeilDiv(n, d) * d
  <1> DEFINE c == (n + d - 1) \div d
  <1>1. n + d - 1 \in Nat
    OBVIOUS
  <1>2. c \in Nat /\ n + d - 1 < d * c + d
    BY <1>1, DivBounds, DivNat
  <1> HIDE DEF c
  <1>3. d * c = c * d
    BY <1>2
  <1>4. n <= c * d
    BY <1>2, <1>3
  <1>5. QED
    BY <1>4 DEF CeilDiv, c

\* A share of more is not less.
LEMMA ShareOfMore ==
    ASSUME NEW n \in Nat, NEW m \in Nat, n <= m, NEW bps \in Nat
    PROVE  Share(n, bps) <= Share(m, bps)
  <1>1. n * bps <= m * bps /\ n * bps \in Int /\ m * bps \in Int
    BY ProductMonotone
  <1>2. BasisPoints \in Nat \ {0}
    BY MoneyConstants
  <1>3. QED
    BY <1>1, <1>2, RoundDivMonotone DEF Share

\* The target's share of a target entry, after slippage, is an order.
LEMMA TargetEntryCovers ==
    /\ MinNotional * (BasisPoints * BasisPoints)
          <= TargetEntry * (BasisPoints - SlipBps) * TpSizeBps
    /\ MinNotional <= TargetEntry
  <1> DEFINE d == BasisPoints - SlipBps
  <1>1. /\ MinNotional \in Nat /\ BasisPoints \in Nat \ {0} /\ TpSizeBps \in Nat \ {0}
        /\ TpSizeBps <= BasisPoints /\ d \in Nat \ {0} /\ d <= BasisPoints
        /\ TargetFloor \in Nat /\ TargetEntry \in Nat
    BY MoneyConstants, RiskConstants, TargetEntryNat, ExitAssumption
  <1>2. MinNotional * BasisPoints <= TargetFloor * TpSizeBps
    <2>1. MinNotional * BasisPoints \in Nat
      BY <1>1
    <2>2. QED
      BY <1>1, <2>1, CeilDivCovers DEF TargetFloor
  <1>3. TargetFloor * BasisPoints <= TargetEntry * d
    <2>1. TargetFloor * BasisPoints \in Nat
      BY <1>1
    <2>2. QED
      BY <1>1, <2>1, CeilDivCovers DEF TargetEntry
  <1> HIDE DEF d
  <1>4. MinNotional * (BasisPoints * BasisPoints) <= TargetEntry * d * TpSizeBps
    <2>1. (MinNotional * BasisPoints) * BasisPoints <= (TargetFloor * TpSizeBps) * BasisPoints
      BY <1>1, <1>2, ProductMonotone
    <2>2. (TargetFloor * BasisPoints) * TpSizeBps <= (TargetEntry * d) * TpSizeBps
      BY <1>1, <1>3, ProductMonotone
    <2>3. /\ (MinNotional * BasisPoints) * BasisPoints = MinNotional * (BasisPoints * BasisPoints)
          /\ (TargetFloor * TpSizeBps) * BasisPoints = (TargetFloor * BasisPoints) * TpSizeBps
      BY <1>1
    <2>4. /\ (TargetFloor * BasisPoints) * TpSizeBps \in Nat
          /\ (TargetEntry * d) * TpSizeBps \in Nat
          /\ MinNotional * (BasisPoints * BasisPoints) \in Nat
      BY <1>1
    <2>5. QED
      BY <2>1, <2>2, <2>3, <2>4
  <1>5. MinNotional <= TargetFloor
    <2>1. TpSizeBps * TargetFloor <= BasisPoints * TargetFloor
      BY <1>1, ProductMonotone
    <2>2. MinNotional * BasisPoints <= TargetFloor * BasisPoints
      BY <1>1, <1>2, <2>1
    <2>3. QED
      BY <1>1, <2>2, ProductCancel
  <1>6. TargetFloor <= TargetEntry
    <2>1. d * TargetEntry <= BasisPoints * TargetEntry
      BY <1>1, ProductMonotone
    <2>2. TargetFloor * BasisPoints <= TargetEntry * BasisPoints
      BY <1>1, <1>3, <2>1
    <2>3. QED
      BY <1>1, <2>2, ProductCancel
  <1>7. QED
    BY <1>1, <1>4, <1>5, <1>6 DEF d

\* The price at the target after slippage keeps half of the target's gain.
LEMMA TargetPriceArithmetic ==
    ASSUME NEW B \in Nat \ {0}, NEW p \in Nat, NEW d \in Nat, NEW G \in Nat, NEW exec \in Nat,
           NEW tp1 \in Nat, NEW x \in Nat, d <= B, p <= exec,
           2 * (exec * (B + G)) <= 2 * (tp1 * B) + B,
           2 * (tp1 * d) <= 2 * (x * B) + B,
           2 * (B * B) <= p * d * G
    PROVE  p * d * (2 * B + G) <= 2 * (x * (B * B))
  <1>1. p * (B + G) <= exec * (B + G)
    BY ProductMonotone
  <1>2. 2 * (p * (B + G)) <= 2 * (tp1 * B) + B
    BY <1>1
  <1>3. (2 * (p * (B + G))) * d <= (2 * (tp1 * B) + B) * d
    BY <1>2, ProductMonotone
  <1>4. (2 * (tp1 * d)) * B <= (2 * (x * B) + B) * B
    BY ProductMonotone
  <1>5. /\ (2 * (p * (B + G))) * d = 2 * (p * d * B) + 2 * (p * d * G)
        /\ (2 * (tp1 * B) + B) * d = 2 * (tp1 * d * B) + d * B
        /\ (2 * (tp1 * d)) * B = 2 * (tp1 * d * B)
        /\ (2 * (x * B) + B) * B = 2 * (x * (B * B)) + B * B
        /\ p * d * (2 * B + G) = 2 * (p * d * B) + p * d * G
    OBVIOUS
  <1>6. d * B <= B * B
    BY ProductMonotone
  <1>7. /\ p * d * B \in Nat /\ p * d * G \in Nat /\ tp1 * d * B \in Nat /\ d * B \in Nat
        /\ x * (B * B) \in Nat /\ B * B \in Nat
    OBVIOUS
  <1>8. QED
    BY <1>3, <1>4, <1>5, <1>6, <1>7

\* The target's slice of an entry, but for one unit, is worth the order it is
\* to make before the gain.
LEMMA SliceArithmetic ==
    ASSUME NEW B \in Nat \ {0}, NEW p \in Nat, NEW d \in Nat, NEW h \in Nat, NEW e \in Nat,
           NEW Sc \in Nat, NEW M \in Nat, NEW q \in Nat, NEW half \in Nat,
           d <= B, 2 * h <= B,
           2 * (e * Sc) <= 2 * (p * q) + p,
           2 * (q * h) <= 2 * (half * B) + B,
           M * (B * B) <= e * d * h
    PROVE  B * (M * Sc - 2 * p) <= p * d * (half - 1)
  <1>1. (2 * (e * Sc)) * h <= (2 * (p * q) + p) * h
    BY ProductMonotone
  <1>2. (2 * (q * h)) * p <= (2 * (half * B) + B) * p
    BY ProductMonotone
  <1>3. (2 * h) * p <= B * p
    BY ProductMonotone
  <1>4. /\ (2 * (e * Sc)) * h = 2 * (e * Sc * h)
        /\ (2 * (p * q) + p) * h = 2 * (p * q * h) + p * h
        /\ (2 * (q * h)) * p = 2 * (p * q * h)
        /\ (2 * (half * B) + B) * p = 2 * (half * (B * p)) + B * p
        /\ (2 * h) * p = 2 * (p * h)
    OBVIOUS
  <1>5. /\ e * Sc * h \in Nat /\ p * q * h \in Nat /\ p * h \in Nat /\ half * (B * p) \in Nat
        /\ B * p \in Nat
    OBVIOUS
  <1>6. e * Sc * h <= half * (B * p) + B * p
    BY <1>1, <1>2, <1>3, <1>4, <1>5
  <1>7. (e * Sc * h) * d <= (half * (B * p) + B * p) * d
    BY <1>5, <1>6, ProductMonotone
  <1>8. (M * (B * B)) * Sc <= (e * d * h) * Sc
    BY ProductMonotone
  <1>9. /\ (e * Sc * h) * d = (e * d * h) * Sc
        /\ (half * (B * p) + B * p) * d = (half * (p * d) + p * d) * B
        /\ (M * (B * B)) * Sc = (B * (M * Sc)) * B
    OBVIOUS
  <1>10. (B * (M * Sc)) * B <= (half * (p * d) + p * d) * B
    <2>1. /\ (e * Sc * h) * d \in Nat /\ (B * (M * Sc)) * B \in Nat
          /\ (half * (p * d) + p * d) * B \in Nat
      OBVIOUS
    <2>2. QED
      BY <1>7, <1>8, <1>9, <2>1
  <1>11. B * (M * Sc) <= half * (p * d) + p * d
    <2>1. B * (M * Sc) \in Int /\ half * (p * d) + p * d \in Int
      OBVIOUS
    <2>2. QED
      BY <1>10, <2>1, ProductCancel
  <1>12. d * p <= B * p
    BY ProductMonotone
  <1>13. /\ B * (M * Sc - 2 * p) = B * (M * Sc) - 2 * (B * p)
         /\ p * d * (half - 1) = half * (p * d) - p * d
         /\ d * p = p * d
    OBVIOUS
  <1>14. B * (M * Sc) \in Nat /\ half * (p * d) \in Nat /\ p * d \in Nat
    OBVIOUS
  <1>15. QED
    BY <1>5, <1>11, <1>12, <1>13, <1>14

\* So that at the target the gain pays for what the roundings have taken.
LEMMA SliceWorthOrder ==
    ASSUME NEW B \in Nat \ {0}, NEW p \in Nat \ {0}, NEW d \in Nat \ {0}, NEW G \in Nat,
           NEW W \in Nat, NEW K \in Int, NEW x \in Nat,
           B * (W - 2 * p) <= p * d * K,
           p * d * (2 * B + G) <= 2 * (x * (B * B)),
           2 * p * (2 * B + G) <= W * G
    PROVE  K > 0 /\ W <= K * x /\ 2 * p < W
  <1>1. 2 * p < W
    <2>1. SUFFICES ASSUME W <= 2 * p PROVE FALSE
      OBVIOUS
    <2>2. W * G <= (2 * p) * G
      BY <2>1, ProductMonotone
    <2>3. 2 * p * (2 * B + G) = (2 * p) * G + 4 * (p * B)
      OBVIOUS
    <2>4. p * B \in Nat \ {0} /\ W * G \in Nat /\ (2 * p) * G \in Nat
      OBVIOUS
    <2>5. QED
      BY <2>2, <2>3, <2>4
  <1>2. K > 0
    <2>1. SUFFICES ASSUME K <= 0 PROVE FALSE
      OBVIOUS
    <2>2. p * d \in Nat /\ K * (p * d) <= 0 * (p * d)
      BY <2>1, ProductMonotone
    <2>3. p * d * K <= 0
      BY <2>2
    <2>4. B * (W - 2 * p) > 0
      BY <1>1
    <2>5. p * d * K \in Int /\ B * (W - 2 * p) \in Int
      OBVIOUS
    <2>6. QED
      BY <2>3, <2>4, <2>5
  <1>3. K \in Nat
    BY <1>2
  <1>4. (p * d * (2 * B + G)) * K <= (2 * (x * (B * B))) * K
    <2>1. p * d * (2 * B + G) \in Int /\ 2 * (x * (B * B)) \in Int
      OBVIOUS
    <2>2. QED
      BY <1>3, <2>1, ProductMonotone
  <1>5. (B * (W - 2 * p)) * (2 * B + G) <= (p * d * K) * (2 * B + G)
    <2>1. B * (W - 2 * p) \in Int /\ p * d * K \in Int /\ 2 * B + G \in Nat
      OBVIOUS
    <2>2. QED
      BY <2>1, ProductMonotone
  <1>6. (p * d * (2 * B + G)) * K = (p * d * K) * (2 * B + G)
    OBVIOUS
  <1>7. (B * (W - 2 * p)) * (2 * B + G) <= (2 * (x * (B * B))) * K
    <2>1. /\ (p * d * (2 * B + G)) * K \in Int /\ (2 * (x * (B * B))) * K \in Int
          /\ (B * (W - 2 * p)) * (2 * B + G) \in Int
      OBVIOUS
    <2>2. QED
      BY <1>4, <1>5, <1>6, <2>1
  <1>8. 2 * B * W <= (W - 2 * p) * (2 * B + G)
    <2>1. (W - 2 * p) * (2 * B + G) = 2 * B * W + W * G - 2 * p * (2 * B + G)
      OBVIOUS
    <2>2. 2 * B * W \in Int /\ W * G \in Int /\ 2 * p * (2 * B + G) \in Int
      OBVIOUS
    <2>3. QED
      BY <2>1, <2>2
  <1>9. (2 * B * W) * B <= ((W - 2 * p) * (2 * B + G)) * B
    <2>1. 2 * B * W \in Int /\ (W - 2 * p) * (2 * B + G) \in Int
      OBVIOUS
    <2>2. QED
      BY <1>8, <2>1, ProductMonotone
  <1>10. /\ ((W - 2 * p) * (2 * B + G)) * B = (B * (W - 2 * p)) * (2 * B + G)
         /\ (2 * B * W) * B = W * (2 * (B * B))
         /\ (2 * (x * (B * B))) * K = (K * x) * (2 * (B * B))
    OBVIOUS
  <1>11. W * (2 * (B * B)) <= (K * x) * (2 * (B * B))
    <2>1. W * (2 * (B * B)) \in Int /\ (K * x) * (2 * (B * B)) \in Int
          /\ (B * (W - 2 * p)) * (2 * B + G) \in Int
      OBVIOUS
    <2>2. QED
      BY <1>7, <1>9, <1>10, <2>1
  <1>12. W <= K * x
    <2>1. K * x \in Int /\ 2 * (B * B) \in Nat \ {0}
      OBVIOUS
    <2>2. QED
      BY <1>11, <2>1, ProductCancel
  <1>13. QED
    BY <1>1, <1>2, <1>12

\* A target entry stays one: in normal mode what the multipliers take from the
\* budget is given back, up to what the target needs.
LEMMA EntryBudgetTargeted ==
    ASSUME FineTargets, NEW conf \in Nat, NEW cash \in Nat, NEW losing \in Nat,
           NEW vol \in Volatility, RiskMode(losing) = "normal", Targeted(conf, cash),
           TargetEntry <= Affordable(cash)
    PROVE  TargetEntry <= EntryBudget(conf, cash, losing, vol)
  <1> DEFINE capped == Smaller(Wanted(conf, cash), RiskCap(conf, cash))
             shrunk == Share(Share(capped, VolatilityBps[vol]), ModeBps["normal"])
             raisedTo(least, budget) ==
                IF 0 < budget /\ budget < least /\ cash >= least THEN least ELSE budget
             target == raisedTo(TargetEntry, shrunk)
             asked == Asked(conf, cash)
  <1>1. /\ MinNotional \in Nat /\ TargetEntry \in Nat /\ TargetFloor \in Nat
        /\ MinNotional <= TargetEntry
        /\ VolatilityBps[vol] \in Nat /\ ModeBps["normal"] \in Nat
    BY MoneyConstants, TargetEntryNat, TargetEntryCovers, RiskConstants
  <1>2. Affordable(cash) \in Nat /\ Affordable(cash) <= cash
    <2> DEFINE a == Affordable(cash)
               n == AffordableWithoutFee(cash)
    <2>1. /\ a \in Nat /\ n \in Nat
          /\ a * (BasisPoints + FeeBps) <= n * BasisPoints
          /\ n * (BasisPoints + SlipBps) <= cash * BasisPoints
      BY AffordableBounds
    <2> HIDE DEF a, n
    <2>2. BasisPoints \in Nat \ {0} /\ FeeBps \in Nat /\ SlipBps \in Nat
      BY MoneyConstants
    <2>3. a * BasisPoints <= n * BasisPoints /\ n * BasisPoints <= cash * BasisPoints
      <3>1. /\ a * (BasisPoints + FeeBps) = a * BasisPoints + a * FeeBps
            /\ n * (BasisPoints + SlipBps) = n * BasisPoints + n * SlipBps
        BY <2>1, <2>2
      <3>2. /\ a * FeeBps \in Nat /\ n * SlipBps \in Nat /\ a * BasisPoints \in Nat
            /\ n * BasisPoints \in Nat /\ cash * BasisPoints \in Nat
        BY <2>1, <2>2
      <3>3. QED
        BY <2>1, <3>1, <3>2
    <2>4. a <= n /\ n <= cash
      BY <2>1, <2>2, <2>3, ProductCancel
    <2>5. QED
      BY <2>1, <2>4 DEF a
  <1>3. asked \in Nat /\ asked >= MinNotional
    <2>1. Share(Share(cash, conf), MaxScaleBps) \in Nat
      BY ShareNat, RiskConstants
    <2>2. asked \in Nat
      BY <2>1, RiskConstants DEF Asked, Larger
    <2>3. QED
      BY <2>2 DEF Targeted
  <1> HIDE DEF asked
  <1>4. Wanted(conf, cash) \in Nat /\ Wanted(conf, cash) >= MinNotional
    <2> DEFINE least ==
                 IF Targeted(conf, cash)
                 THEN IF asked >= TargetFloor /\ cash >= TargetEntry THEN TargetEntry ELSE asked
                 ELSE IF cash >= MinNotional THEN MinNotional ELSE asked
    <2>1. least \in Nat
      BY <1>1, <1>3
    <2>2. Wanted(conf, cash) = Smaller(Larger(asked, least), cash)
      BY DEF Wanted, asked
    <2> HIDE DEF least
    <2>3. QED
      BY <1>1, <1>2, <1>3, <2>1, <2>2 DEF Larger, Smaller
  <1>5. RiskCap(conf, cash) \in Nat /\ RiskCap(conf, cash) >= MinNotional
    <2>1. Share(cash, RiskBps) \in Nat
      BY ShareNat, RiskConstants
    <2>2. 10 * Share(cash, RiskBps) \in Nat
      BY <2>1
    <2>3. QED
      BY <1>1, <2>2 DEF RiskCap, Larger
  <1>6. capped \in Nat /\ MinNotional <= capped
    BY <1>1, <1>4, <1>5 DEF Smaller
  <1> HIDE DEF capped
  <1>7. shrunk \in Nat /\ shrunk > 0
    <2> DEFINE one == Share(capped, VolatilityBps[vol])
               least == Share(MinNotional, VolatilityBps[vol])
    <2>1. least <= one /\ least \in Nat /\ one \in Nat
      BY <1>1, <1>6, ShareOfMore, ShareNat
    <2>2. Share(least, ModeBps["normal"]) > 0
      BY DEF FineTargets
    <2> HIDE DEF one, least
    <2>3. Share(least, ModeBps["normal"]) <= Share(one, ModeBps["normal"])
          /\ Share(least, ModeBps["normal"]) \in Nat /\ Share(one, ModeBps["normal"]) \in Nat
      BY <1>1, <2>1, ShareOfMore, ShareNat
    <2>4. QED
      BY <2>2, <2>3 DEF one
  <1>8. EntryBudget(conf, cash, losing, vol) = Smaller(raisedTo(MinNotional, target), Affordable(cash))
    BY DEF EntryBudget, capped
  <1> HIDE DEF shrunk
  <1>9. target \in Nat /\ TargetEntry <= target
    BY <1>1, <1>2, <1>7
  <1> HIDE DEF target
  <1>10. raisedTo(MinNotional, target) = target
    BY <1>1, <1>9
  <1>11. QED
    BY <1>1, <1>2, <1>8, <1>9, <1>10 DEF Smaller

\* What a budget of a target entry buys is no dust, and at its target the slice
\* leaves some of it and is worth an order.
LEMMA TargetEntrySliced ==
    ASSUME FineTargets, NEW price \in Price, NEW e \in Nat, TargetEntry <= e
    PROVE  LET q == RoundDiv(e * Scale, price)
               exec == Share(price, BasisPoints + SlipBps)
               tp1 == Share(exec, BasisPoints + Tp1Bps)
               slice == TakeProfitQty(q, tp1)
           IN  /\ q >= DustQty /\ Cost(q, exec) >= DustNotional * Scale
               /\ slice < q
               /\ Amount(slice, Share(tp1, BasisPoints - SlipBps)) >= MinNotional
  <1> DEFINE B == BasisPoints
             d == B - SlipBps
             G == Tp1Bps
             h == TpSizeBps
             W == MinNotional * Scale
             q == RoundDiv(e * Scale, price)
             exec == Share(price, B + SlipBps)
             tp1 == Share(exec, B + G)
             x == Share(tp1, d)
             half == Share(q, h)
             K == half - 1
  <1>1. /\ price \in Nat \ {0} /\ B \in Nat \ {0} /\ SlipBps \in Nat /\ d \in Nat \ {0} /\ d <= B
        /\ G \in Nat /\ h \in Nat \ {0} /\ Scale \in Nat \ {0} /\ MinNotional \in Nat \ {0}
        /\ TargetEntry \in Nat /\ DustQty \in Nat /\ DustNotional \in Nat /\ W \in Nat
    BY MoneyConstants, RiskConstants, TargetEntryNat, BrokerConstants, BrokerAssumption
  <1>2. /\ 2 * h <= B
        /\ 2 * DustNotional <= MinNotional
        /\ 2 * (B * B) <= price * d * G
        /\ 2 * price * (2 * B + G) <= W * G
        /\ 2 * DustQty * price <= W
    BY DEF FineTargets
  <1>3. q \in Nat /\ 2 * (e * Scale) <= 2 * (price * q) + price
    <2> DEFINE n == e * Scale
    <2>1. n \in Nat
      BY <1>1
    <2>2. q = RoundDiv(n, price)
      OBVIOUS
    <2> HIDE DEF n, q
    <2>3. q \in Nat /\ 2 * n < 2 * (price * q) + price
      BY <1>1, <2>1, <2>2, RoundDivBounds, RoundDivNat
    <2>4. 2 * (price * q) + price \in Nat
      BY <1>1, <2>3
    <2>5. QED
      BY <2>1, <2>3, <2>4 DEF n
  <1> HIDE DEF q
  <1>4. /\ exec \in Nat /\ price <= exec
    <2>1. B + SlipBps \in Nat /\ B + SlipBps >= B /\ price \in Nat
      BY <1>1
    <2>2. QED
      BY <2>1, ShareNat, ShareWithin
  <1> HIDE DEF exec
  <1>5. tp1 \in Nat /\ 2 * (exec * (B + G)) <= 2 * (tp1 * B) + B
    <2>1. B + G \in Nat
      BY <1>1
    <2>2. QED
      BY <1>4, <2>1, ShareNat, ShareBounds
  <1> HIDE DEF tp1
  <1>6. x \in Nat /\ x <= tp1 /\ 2 * (tp1 * d) <= 2 * (x * B) + B
    BY <1>1, <1>5, ShareNat, ShareBounds, ShareWithin
  <1> HIDE DEF x
  <1>7. /\ half \in Nat /\ 2 * (q * h) <= 2 * (half * B) + B /\ 2 * (half * B) <= 2 * (q * h) + B
    BY <1>1, <1>3, ShareNat, ShareBounds
  <1> HIDE DEF half
  <1>8. MinNotional * (B * B) <= e * d * h /\ MinNotional <= e
    <2>1. /\ MinNotional * (B * B) <= TargetEntry * d * h
          /\ MinNotional <= TargetEntry
      BY TargetEntryCovers
    <2>2. TargetEntry * (d * h) <= e * (d * h)
      <3>1. d * h \in Nat
        BY <1>1
      <3>2. QED
        BY <1>1, <3>1, ProductMonotone
    <2>3. TargetEntry * (d * h) = TargetEntry * d * h /\ e * (d * h) = e * d * h
      BY <1>1
    <2>4. /\ MinNotional * (B * B) \in Nat /\ TargetEntry * d * h \in Nat /\ e * d * h \in Nat
      BY <1>1
    <2>5. QED
      BY <1>1, <2>1, <2>2, <2>3, <2>4
  <1> HIDE DEF B, d, G, h
  <1>9. B * (W - 2 * price) <= price * d * K
    BY <1>1, <1>2, <1>3, <1>7, <1>8, SliceArithmetic
  <1>10. price * d * (2 * B + G) <= 2 * (x * (B * B))
    BY <1>1, <1>2, <1>4, <1>5, <1>6, TargetPriceArithmetic
  <1> HIDE DEF W
  <1>11. K \in Int /\ K > 0 /\ W <= K * x /\ 2 * price < W
    <2>1. K \in Int
      BY <1>7
    <2> HIDE DEF K
    <2>2. QED
      BY <1>1, <1>2, <1>6, <1>9, <1>10, <2>1, SliceWorthOrder
  <1>12. half <= q - K
    <2>1. (2 * h) * q <= B * q
      BY <1>1, <1>2, <1>3, ProductMonotone
    <2>2. (2 * half) * B <= (q + 1) * B
      <3>1. /\ (2 * h) * q = 2 * (q * h) /\ B * q = q * B
            /\ (2 * half) * B = 2 * (half * B) /\ (q + 1) * B = q * B + B
            /\ q * h \in Nat /\ q * B \in Nat /\ half * B \in Nat
        BY <1>1, <1>3, <1>7
      <3>2. QED
        BY <1>1, <1>7, <2>1, <3>1
    <2>3. 2 * half <= q + 1
      BY <1>1, <1>3, <1>7, <2>2, ProductCancel
    <2>4. QED
      BY <1>3, <1>7, <2>3
  <1>13. ASSUME NEW n \in Nat, K <= n
         PROVE  W <= n * x /\ Executable(n, tp1)
    <2>1. K * x <= n * x /\ n * x <= n * tp1 /\ n * x \in Nat /\ n * tp1 \in Nat /\ K * x \in Int
      <3>1. x * n <= tp1 * n
        BY <1>5, <1>6, ProductMonotone
      <3>2. QED
        BY <1>5, <1>6, <1>11, <1>13, <3>1, ProductMonotone
    <2>2. W <= n * x /\ W <= n * tp1
      BY <1>1, <1>11, <2>1
    <2>3. QED
      BY <2>2 DEF Executable, Cost, W
  <1>14. Executable(half, tp1) /\ W <= half * x
    BY <1>7, <1>13
  <1>15. q - half \in Nat /\ Executable(q - half, tp1) /\ half < q
    <2>1. q - half \in Nat /\ K <= q - half /\ half < q
      BY <1>3, <1>7, <1>11, <1>12
    <2>2. QED
      BY <1>13, <2>1
  <1>16. TakeProfitQty(q, tp1) = half
    BY <1>14, <1>15 DEF TakeProfitQty, half, h
  <1>17. Amount(half, x) >= MinNotional
    <2>1. RoundDiv(W, Scale) = MinNotional
      BY <1>1, RoundDivExact DEF W
    <2>2. half * x \in Nat
      BY <1>6, <1>7
    <2>3. RoundDiv(W, Scale) <= RoundDiv(half * x, Scale)
      BY <1>1, <1>14, <2>2, RoundDivMonotone
    <2>4. QED
      BY <2>1, <2>3 DEF Amount, Cost
  <1>18. 2 * W <= 2 * (price * q) + price /\ price * q \in Nat
    <2>1. MinNotional * Scale <= e * Scale /\ MinNotional * Scale \in Nat /\ e * Scale \in Nat
      BY <1>1, <1>8, ProductMonotone
    <2>2. price * q \in Nat
      BY <1>1, <1>3
    <2>3. QED
      BY <1>1, <1>3, <2>1, <2>2 DEF W
  <1>19. W <= 2 * (price * q)
    BY <1>1, <1>11, <1>18
  <1>20. q >= DustQty
    <2>1. 2 * DustQty * price = DustQty * (2 * price) /\ 2 * (price * q) = q * (2 * price)
          /\ 2 * price \in Nat \ {0} /\ DustQty * (2 * price) \in Nat /\ q * (2 * price) \in Nat
      BY <1>1, <1>3
    <2>2. DustQty * (2 * price) <= q * (2 * price)
      BY <1>1, <1>2, <1>19, <2>1
    <2>3. QED
      BY <1>1, <1>3, <2>1, <2>2, ProductCancel
  <1>21. Cost(q, exec) >= DustNotional * Scale
    <2>1. price * q <= exec * q /\ exec * q = q * exec /\ q * exec \in Nat
      BY <1>1, <1>3, <1>4, ProductMonotone
    <2>2. (2 * DustNotional) * Scale <= MinNotional * Scale
      BY <1>1, <1>2, ProductMonotone
    <2>3. (2 * DustNotional) * Scale = 2 * (DustNotional * Scale) /\ DustNotional * Scale \in Nat
      BY <1>1
    <2>4. 2 * (DustNotional * Scale) <= W
      BY <2>2, <2>3 DEF W
    <2>5. DustNotional * Scale <= q * exec
      BY <1>1, <1>18, <1>19, <2>1, <2>3, <2>4
    <2>6. QED
      BY <2>5 DEF Cost
  <1>22. QED
    BY <1>15, <1>16, <1>17, <1>20, <1>21 DEF q, exec, tp1, x, B, d, G

\* What a buy leaves of its symbol's position, whatever the order is.
LEMMA BoughtPosition ==
    ASSUME NEW b \in Account, NEW o, o.symbol \in Symbol
    PROVE  AfterBuy(b, o).pos[o.symbol] = Cleaned(Bought(b.pos[o.symbol], o), o.exec)
  <1> DEFINE s == o.symbol
             mid == WithOrder(b, o)
             new == [mid.pos EXCEPT ![s] = Cleaned(Bought(mid.pos[s], o), o.exec)]
  <1>1. mid.pos = b.pos /\ b.pos \in [Symbol -> Position]
    BY DEF WithOrder, Account
  <1>2. DOMAIN mid = DOMAIN b
    BY DEF WithOrder, Account
  <1>3. AfterBuy(b, o) =
          [mid EXCEPT !.pos = new,
                      !.dropped = @ + Dropped(Bought(b.pos[s], o), o.exec),
                      !.cash = @ - (o.notional + o.fee),
                      !.buys = [@ EXCEPT ![s] = o.streak + 1]]
    BY DEF AfterBuy
  <1>4. "pos" \in DOMAIN mid
    BY <1>2 DEF Account
  <1> HIDE DEF mid, new
  <1>5. AfterBuy(b, o).pos = new
    BY <1>3, <1>4
  <1>6. new[s] = Cleaned(Bought(b.pos[s], o), o.exec)
    BY <1>1 DEF new
  <1>7. QED
    BY <1>5, <1>6

\* What an entry leaves can take profit.
Sliced(c, r) ==
    LET o == Priced(c, RequestOf(r))
        pos == AfterBuy(c, o).pos[o.symbol]
        slice == TakeProfitQty(pos.qty, pos.tp1)
    IN  slice < pos.qty /\ Amount(slice, ExecutedPrice("sell", pos.tp1)) >= MinNotional

\* The review of a target entry, filled in an account that holds nothing of the
\* symbol, leaves a position whose first target can be sold.
LEMMA ReviewSliced ==
    ASSUME FineTargets, NEW b \in Account, b.cash >= 0, NEW c \in Account, NEW s \in Symbol,
           NEW price \in Price, NEW g \in Signal, NEW m \in MarketInfo,
           NEW late \in BOOLEAN, NEW blackout \in BOOLEAN, c.pos[s].qty = 0
    PROVE  LET r == Reviewed(b, s, price, g, m, late, blackout)
           IN  /\ r.approved /\ r.side = "buy" /\ RiskMode(b.losing) = "normal"
               /\ Targeted(r.conf, b.cash) /\ TargetEntry <= Affordable(b.cash)
               => Sliced(c, r)
  <1> DEFINE r == Reviewed(b, s, price, g, m, late, blackout)
             o == Priced(c, RequestOf(r))
             budget == EntryBudget(g.conf, b.cash, b.losing, m.vol)
             qty == RoundDiv(budget * Scale, price)
             exec == Share(price, BasisPoints + SlipBps)
             tp1 == Share(exec, BasisPoints + Tp1Bps)
  <1>1. /\ price \in Nat \ {0} /\ b.cash \in Nat /\ b.losing \in Nat /\ m.vol \in Volatility
    BY BrokerConstants DEF Account, MarketInfo
  <1>2. g.conf \in Nat
    <2>1. g.conf \in 0 .. BasisPoints
      BY DEF Signal
    <2>2. BasisPoints \in Nat
      BY MoneyConstants
    <2>3. \A x \in 0 .. BasisPoints : x \in Nat
      BY <2>2
    <2>4. QED
      BY <2>1, <2>3
  <1>3. SUFFICES ASSUME r.approved, r.side = "buy", RiskMode(b.losing) = "normal",
                        Targeted(r.conf, b.cash), TargetEntry <= Affordable(b.cash)
                 PROVE  Sliced(c, r)
    OBVIOUS
  <1>4. /\ r.conf = g.conf /\ r.symbol = s /\ r.price = price /\ r.size = qty
    BY <1>3 DEF Reviewed, EntrySize
  <1> HIDE DEF r
  <1>5. budget \in Nat /\ TargetEntry <= budget
    BY <1>1, <1>2, <1>3, <1>4, EntryBudgetTargeted, EntryBudgetBounds
  <1> HIDE DEF budget
  <1>6. /\ qty \in Nat /\ qty >= DustQty /\ Cost(qty, exec) >= DustNotional * Scale
        /\ TakeProfitQty(qty, tp1) < qty
        /\ Amount(TakeProfitQty(qty, tp1), Share(tp1, BasisPoints - SlipBps)) >= MinNotional
    <2>1. budget * Scale \in Nat
      BY <1>5, MoneyConstants
    <2>2. qty \in Nat
      BY <1>1, <2>1, RoundDivNat
    <2>3. QED
      BY <1>5, <2>2, TargetEntrySliced
  <1> HIDE DEF qty, exec
  <1>7. o.symbol = s /\ o.qty = qty /\ o.exec = exec
    BY <1>3, <1>4 DEF Priced, RequestOf, ExecutedPrice, exec
  <1> HIDE DEF o, tp1
  <1> DEFINE held == c.pos[s]
             new == Bought(held, o)
  <1>8. held \in Position /\ held.qty = 0
    BY DEF Account
  <1> HIDE DEF held
  <1>9. TpEnabled
    BY <1>3 DEF Targeted
  <1>10. new.qty = qty /\ new.tp1 = tp1
    BY <1>6, <1>7, <1>8, <1>9 DEF Bought, Position, tp1
  <1> HIDE DEF new
  <1>11. Cleaned(new, exec) = new
    <2>1. DustQty \in Nat /\ DustNotional * Scale \in Nat /\ Cost(qty, exec) \in Int
      <3>1. exec \in Nat
        <4>1. BasisPoints + SlipBps \in Nat /\ price \in Nat
          BY <1>1, MoneyConstants
        <4>2. QED
          BY <4>1, ShareNat DEF exec
      <3>2. DustQty \in Nat /\ DustNotional \in Nat /\ Scale \in Nat
        BY BrokerAssumption, MoneyConstants
      <3>3. DustNotional * Scale \in Nat
        BY <3>2
      <3>4. Cost(qty, exec) \in Int
        BY <1>6, <3>1, AmountNat
      <3>5. QED
        BY <3>2, <3>3, <3>4
    <2>2. ~IsDust(new, exec)
      BY <1>6, <1>10, <2>1 DEF IsDust
    <2>3. QED
      BY <2>2 DEF Cleaned
  <1>12. AfterBuy(c, o).pos[o.symbol] = new
    BY <1>7, <1>11, BoughtPosition DEF new, held
  <1>13. ExecutedPrice("sell", tp1) = Share(tp1, BasisPoints - SlipBps)
    BY DEF ExecutedPrice
  <1>14. Sliced(c, r)
    BY <1>6, <1>10, <1>12, <1>13 DEF Sliced, o
  <1>15. QED
    BY <1>14

\* What the review has sized stays so until it is filled.
LEMMA SlicedStep ==
    ASSUME FineTargets, CycleInv, EntriesCanTakeProfit, [CycleNext]_cycleVars
    PROVE  EntriesCanTakeProfit'
  <1>1. CycleTypeOK /\ ReviewReady /\ Solvent
    BY DEF CycleInv, CashInv
  <1>2. ASSUME NEW t \in Thread, review'[t] = NoReview PROVE EntriesCanTakeProfit'
    BY <1>2, SerialUse DEF EntriesCanTakeProfit
  <1>3. ASSUME NEW t \in Thread, NEW s \in Symbol, NEW p \in Price, MakesReview(t, s, p)
        PROVE  EntriesCanTakeProfit'
    <2>1. book \in Account /\ book.cash >= 0 /\ review \in [Thread -> Review \cup {NoReview}]
      BY <1>1 DEF CycleTypeOK, TypeOK, Solvent
    <2>2. PICK made \in Reviews(book, s, p) : review' = [review EXCEPT ![t] = made]
      BY <1>3 DEF MakesReview, Evaluate
    <2> DEFINE signals == UNION {Signals(book.pos[s], strategy) : strategy \in Strategy}
    <2>3. PICK g \in signals, m \in Market, late \in BOOLEAN, blackout \in BOOLEAN :
            made = Reviewed(book, s, p, g, m, late, blackout)
      BY DEF Reviews
    <2>4. g \in Signal /\ m \in MarketInfo
      BY SignalTyped, CycleConstants
    <2>5. review'[t] = made /\ made.symbol = s
      BY <2>1, <2>2, <2>3 DEF Reviewed
    <2>6. book' = Evaluated(book, s, p)
      BY <1>3 DEF MakesReview, Evaluate, Commit, Evaluated
    <2>7. book' \in Account /\ book'.cash = book.cash /\ book'.losing = book.losing
      <3>1. book'.losing = book.losing
        BY <2>1, <2>6 DEF Evaluated, Account
      <3>2. QED
        BY <2>1, <2>6, <3>1, EvaluatedTyped
    <2>8. ASSUME TargetedEntry(made)' PROVE Sliced(book', made)
      <3>1. /\ made.approved /\ made.side = "buy" /\ book'.pos[s].qty = 0
            /\ RiskMode(book.losing) = "normal" /\ Targeted(made.conf, book.cash)
            /\ TargetEntry <= Affordable(book.cash)
        <4>1. TargetEntry \in Nat /\ Affordable(book.cash) \in Nat
          BY <2>1, TargetEntryNat, AffordableBounds DEF Account
        <4>2. QED
          BY <2>5, <2>7, <2>8, <4>1 DEF TargetedEntry
      <3>2. QED
        BY <2>1, <2>3, <2>4, <2>7, <3>1, ReviewSliced
    <2>9. ASSUME NEW u \in Thread PROVE u = t
      BY SerialUse
    <2>10. SUFFICES ASSUME NEW u \in Thread, TargetedEntry(review[u])'
                    PROVE  Sliced(book', review'[u])
      BY DEF EntriesCanTakeProfit, Sliced
    <2>11. QED
      BY <2>5, <2>8, <2>9, <2>10 DEF TargetedEntry
  <1>4. ASSUME NEW t \in Thread, CycleStep(t), \A s \in Symbol, p \in Price : ~MakesReview(t, s, p)
        PROVE  EntriesCanTakeProfit'
    BY <1>1, <1>2, <1>4, ReviewDropped
  <1>5. CASE Restart
    BY <1>5 DEF Restart, EntriesCanTakeProfit
  <1>6. CASE UNCHANGED cycleVars
    <2>1. book' = book /\ review' = review
      BY <1>6 DEF cycleVars, vars
    <2>2. QED
      BY <2>1 DEF EntriesCanTakeProfit, TargetedEntry
  <1>7. QED
    BY <1>3, <1>4, <1>5, <1>6 DEF CycleNext

\* In normal mode an entry that asks for at least an order, and has the cash for
\* it, becomes a position that is no dust and of which the first target sells a
\* part the broker accepts, for every price, slippage, fee, confidence and
\* multiplier, when amounts and quantities are fine enough for the target.
THEOREM CycleEntriesCanTakeProfit ==
    ASSUME FineTargets PROVE CycleSpec => []EntriesCanTakeProfit
  <1>1. CycleInit => CycleInv /\ EntriesCanTakeProfit
    <2>1. CycleInit => \A t \in Thread : review[t] = NoReview
      BY DEF CycleInit
    <2>2. CycleInit => EntriesCanTakeProfit
      BY <2>1 DEF EntriesCanTakeProfit
    <2>3. QED
      BY <2>2, CycleInvInit
  <1>2. CycleInv /\ EntriesCanTakeProfit /\ [CycleNext]_cycleVars
          => (CycleInv /\ EntriesCanTakeProfit)'
    BY CycleInvStep, SlicedStep
  <1>3. QED
    BY <1>1, <1>2, PTL DEF CycleSpec
=============================================================================
