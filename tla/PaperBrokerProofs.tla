-------------------------- MODULE PaperBrokerProofs --------------------------
(***************************************************************************)
(* Theorems about PaperBroker: what a fill does to cash, position and      *)
(* trade logs, for any prices, sizes and settings, and for any number of   *)
(* process deaths and of file operations that raise.  The broker is        *)
(* executed by one thread (SerialUse).                                     *)
(***************************************************************************)
EXTENDS PaperBroker, MoneyProofs, SequenceTheorems, FiniteSetTheorems

-----------------------------------------------------------------------------
(***************************************************************************)
(* Constants and data.                                                     *)
(***************************************************************************)

\* The constants, one by one.
LEMMA BrokerConstants ==
    /\ StartingCash \in Nat /\ DustQty \in Nat /\ MaxBuys \in Nat
    /\ MaxOrders \in Nat /\ MaxFaults \in Nat /\ Tp1Bps \in Nat
    /\ BasisPoints - StopBps \in Nat
    /\ BasisPoints + Tp1Bps \in Nat
    /\ BasisPoints - TrailDistanceBps \in Nat
    /\ \A p \in Price : p \in Nat \ {0}
    /\ \A n \in Size : n \in Nat
    /\ \A h \in Holding : h.qty \in Nat /\ h.avg \in Nat /\ h.cash \in Nat
  <1>1. BasisPoints = 10000
    BY DEF BasisPoints
  <1>2. StopBps \in 0 .. BasisPoints /\ TrailDistanceBps \in 0 .. BasisPoints - 1
    BY BrokerAssumption, ExitAssumption
  <1>3. Tp1Bps \in Nat
    BY BrokerAssumption
  <1>4. /\ BasisPoints - StopBps \in Nat /\ BasisPoints + Tp1Bps \in Nat
        /\ BasisPoints - TrailDistanceBps \in Nat
    BY <1>1, <1>2, <1>3
  <1>5. QED
    BY <1>4, BrokerAssumption

\* The executed price is a price, not below the asked one for a buy and not
\* above it for a sell: slippage never helps.
LEMMA ExecutedPriceBounds ==
    ASSUME NEW side \in {"buy", "sell"}, NEW price \in Price
    PROVE  /\ ExecutedPrice(side, price) \in Nat
           /\ side = "buy" => price <= ExecutedPrice(side, price)
           /\ side = "sell" => ExecutedPrice(side, price) <= price
  <1>1. price \in Nat
    BY BrokerConstants
  <1>2. BasisPoints + SlipBps \in Nat /\ BasisPoints - SlipBps \in Nat
    BY MoneyConstants
  <1>3. BasisPoints + SlipBps >= BasisPoints /\ BasisPoints - SlipBps <= BasisPoints
    BY MoneyConstants
  <1>4. CASE side = "buy"
    <2>1. ExecutedPrice(side, price) = Share(price, BasisPoints + SlipBps)
      BY <1>4 DEF ExecutedPrice
    <2>2. QED
      BY <2>1, <1>1, <1>2, <1>3, <1>4, ShareNat, ShareWithin
  <1>5. CASE side = "sell"
    <2>1. ExecutedPrice(side, price) = Share(price, BasisPoints - SlipBps)
      BY <1>5 DEF ExecutedPrice
    <2>2. QED
      BY <2>1, <1>1, <1>2, <1>3, <1>5, ShareNat, ShareWithin
  <1>6. QED
    BY <1>4, <1>5

\* What the exit rules make of a trailing stop is a price, not below it.
LEMMA NextTrailRises ==
    ASSUME NEW pos \in Position, NEW price \in Nat
    PROVE  NextTrail(pos, price) \in Nat /\ NextTrail(pos, price) >= pos.trail
  <1>1. TrailingStop(price) \in Nat
    BY BrokerConstants, ShareNat DEF TrailingStop
  <1>2. pos.trail \in Nat
    BY DEF Position
  <1>3. Ratchet(pos.trail, price) \in Nat /\ Ratchet(pos.trail, price) >= pos.trail
    BY <1>1, <1>2 DEF Ratchet, Larger
  <1>4. QED
    BY <1>2, <1>3 DEF NextTrail

\* evaluate_exit_rules changes nothing of a position but its trailing stop.
LEMMA AfterExitRulesTyped ==
    ASSUME NEW pos \in Position, NEW price \in Nat
    PROVE  LET new == AfterExitRules(pos, price)
           IN  /\ new \in Position
               /\ new.trail >= pos.trail
               /\ new.qty = pos.qty /\ new.avg = pos.avg /\ new.stop = pos.stop
               /\ new.tp1 = pos.tp1 /\ new.tp1Done = pos.tp1Done
  <1>1. NextTrail(pos, price) \in Nat /\ NextTrail(pos, price) >= pos.trail
    BY NextTrailRises
  <1>2. QED
    BY <1>1 DEF AfterExitRules, Position

\* The dust rule forgets quantity and average price and nothing else.
LEMMA CleanedTyped ==
    ASSUME NEW pos \in Position, NEW price
    PROVE  LET new == Cleaned(pos, price)
           IN  /\ new \in Position
               /\ new.qty \in {0, pos.qty}
               /\ new.stop = pos.stop /\ new.tp1 = pos.tp1
               /\ new.tp1Done = pos.tp1Done /\ new.trail = pos.trail
  BY DEF Cleaned, Position
-----------------------------------------------------------------------------
(***************************************************************************)
(* Orders.                                                                 *)
(***************************************************************************)

\* What a cycle may ask for, of any size.
AnyRequest == [side : {"buy", "sell"}, symbol : Symbol, size : Nat, price : Price, tp : BOOLEAN]

\* An order that passed the checks carries what submit computed for it.
Checked(o) ==
    /\ o \in Order
    /\ o.exec = ExecutedPrice(o.side, o.price)
    /\ o.notional = Amount(o.qty, o.exec)
    /\ o.fee = Share(o.notional, FeeBps)
    /\ o.qty > 0
    /\ o.tp => TpEnabled /\ o.side = "sell"

\* Only a first-target sell asks for the target.
TpRequest(r) == r.tp => r.side = "sell" /\ TpEnabled

\* submit prices what it is asked for, cuts a sell to what is held, and
\* accepts no order that is worth nothing.
LEMMA PricedChecked ==
    ASSUME NEW b \in Account, NEW r \in AnyRequest, TpRequest(r), Accepts(b, Priced(b, r))
    PROVE  LET o == Priced(b, r)
           IN  /\ Checked(o)
               /\ o.symbol = r.symbol /\ o.side = r.side
               /\ o.side = "sell" => o.qty <= b.pos[o.symbol].qty
               /\ o.side = "buy" => o.notional + o.fee <= b.cash
  <1> DEFINE s == r.symbol
             exec == ExecutedPrice(r.side, r.price)
             qty == IF r.side = "sell" THEN Smaller(r.size, b.pos[s].qty) ELSE r.size
             notional == Amount(qty, exec)
             fee == Share(notional, FeeBps)
             o == Priced(b, r)
  <1>1. /\ s \in Symbol /\ r.side \in {"buy", "sell"} /\ r.price \in Price
        /\ r.size \in Nat /\ r.tp \in BOOLEAN
    BY DEF AnyRequest
  <1>2. b.pos[s].qty \in Nat /\ b.buys[s] \in Nat
    BY <1>1 DEF Account, Position
  <1>3. exec \in Nat
    BY <1>1, ExecutedPriceBounds
  <1>4. qty \in Nat /\ (r.side = "sell" => qty <= b.pos[s].qty)
    BY <1>1, <1>2 DEF Smaller
  <1>5. notional \in Nat
    BY <1>3, <1>4, AmountNat
  <1>6. fee \in Nat
    BY <1>5, ShareNat, MoneyConstants
  <1>7. o = [side |-> r.side, symbol |-> s, price |-> r.price, tp |-> r.tp, qty |-> qty,
             exec |-> exec, notional |-> notional, fee |-> fee, streak |-> b.buys[s]]
    BY DEF Priced
  <1> HIDE DEF s, exec, qty, notional, fee, o
  <1>8. o \in Order
    BY <1>1, <1>2, <1>3, <1>4, <1>5, <1>6, <1>7 DEF Order
  <1>9. Accepts(b, o)
    BY DEF o
  <1>10. notional >= MinNotional
    BY <1>7, <1>9 DEF Accepts
  <1>11. qty # 0
    <2>1. SUFFICES ASSUME qty = 0 PROVE FALSE
      OBVIOUS
    <2>2. notional = 0
      BY <2>1, <1>3, AmountOfNothing DEF notional
    <2>3. QED
      BY <2>2, <1>10, MoneyConstants
  <1>12. o.side = "buy" => o.notional + o.fee <= b.cash
    BY <1>9 DEF Accepts
  <1>13. o.tp => TpEnabled /\ o.side = "sell"
    BY <1>7 DEF TpRequest
  <1>14. Checked(o)
    BY <1>4, <1>7, <1>8, <1>11, <1>13 DEF Checked, exec, notional, fee
  <1>15. QED
    BY <1>4, <1>7, <1>12, <1>14 DEF o, s

\* The fee is a part of the notional.
LEMMA FeeWithin ==
    ASSUME NEW o, Checked(o)
    PROVE  /\ o.notional \in Nat /\ o.fee \in Nat /\ o.fee <= o.notional
           /\ o.qty \in Nat \ {0} /\ o.exec \in Nat /\ o.price \in Nat \ {0}
           /\ o.symbol \in Symbol /\ o.side \in {"buy", "sell"} /\ o.tp \in BOOLEAN
           /\ o.streak \in Nat
  <1>1. /\ o.notional \in Nat /\ o.fee \in Nat /\ o.qty \in Nat \ {0} /\ o.exec \in Nat
        /\ o.symbol \in Symbol /\ o.side \in {"buy", "sell"} /\ o.tp \in BOOLEAN
        /\ o.streak \in Nat /\ o.price \in Price
    BY DEF Checked, Order
  <1>2. o.fee <= o.notional
    BY <1>1, ShareWithin, MoneyConstants DEF Checked
  <1>3. QED
    BY <1>1, <1>2, BrokerConstants
-----------------------------------------------------------------------------
(***************************************************************************)
(* Fills.                                                                  *)
(***************************************************************************)

\* A buy adds its quantity; stop, target and trailing stop start anew.
LEMMA BoughtTyped ==
    ASSUME NEW pos \in Position, NEW o, Checked(o)
    PROVE  LET new == Bought(pos, o)
           IN  /\ new \in Position
               /\ new.qty = pos.qty + o.qty
               /\ new.trail = 0
               /\ TpEnabled => ~new.tp1Done
               /\ ~TpEnabled => new.tp1Done = pos.tp1Done
  <1> DEFINE qty == pos.qty + o.qty
             cost == Cost(pos.qty, pos.avg) + (o.notional + o.fee) * Scale
  <1>1. /\ pos.qty \in Nat /\ pos.avg \in Nat /\ pos.stop \in Nat /\ pos.tp1 \in Nat
        /\ pos.tp1Done \in BOOLEAN
    BY DEF Position
  <1>2. qty \in Nat \ {0}
    BY <1>1, FeeWithin
  <1>3. cost \in Nat
    <2>1. Cost(pos.qty, pos.avg) \in Nat
      BY <1>1, AmountNat
    <2>2. o.notional \in Nat /\ o.fee \in Nat /\ Scale \in Nat
      BY FeeWithin, MoneyConstants
    <2>3. (o.notional + o.fee) * Scale \in Nat
      BY <2>2
    <2>4. QED
      BY <2>1, <2>3
  <1>4. RoundDiv(cost, qty) \in Nat
    BY <1>2, <1>3, RoundDivNat
  <1>5. /\ Share(o.exec, BasisPoints - StopBps) \in Nat
        /\ Share(o.exec, BasisPoints + Tp1Bps) \in Nat
    BY FeeWithin, ShareNat, BrokerConstants
  <1>6. TpEnabled \in BOOLEAN
    BY ExitAssumption
  <1> DEFINE stop == IF StopEnabled THEN Share(o.exec, BasisPoints - StopBps) ELSE pos.stop
             tp1 == IF TpEnabled THEN Share(o.exec, BasisPoints + Tp1Bps) ELSE pos.tp1
             done == IF TpEnabled THEN FALSE ELSE pos.tp1Done
             new == [pos EXCEPT !.qty = qty, !.avg = RoundDiv(cost, qty), !.stop = stop,
                                !.tp1 = tp1, !.tp1Done = done, !.trail = 0]
  <1>7. Bought(pos, o) = new
    BY DEF Bought
  <1>8. stop \in Nat /\ tp1 \in Nat /\ done \in BOOLEAN
    BY <1>1, <1>5
  <1>9. /\ TpEnabled => ~done
        /\ ~TpEnabled => done = pos.tp1Done
    BY <1>6
  <1> HIDE DEF qty, cost, stop, tp1, done
  <1>10. new \in Position
    BY <1>2, <1>4, <1>8 DEF Position
  <1>11. new.qty = qty /\ new.trail = 0 /\ new.tp1Done = done
    BY DEF Position
  <1> HIDE DEF new
  <1>12. QED
    BY <1>7, <1>9, <1>10, <1>11 DEF qty

\* A sell takes its quantity; forced by the first target it spends it.
LEMMA SoldTyped ==
    ASSUME NEW pos \in Position, NEW o, Checked(o)
    PROVE  LET new == Sold(pos, o)
           IN  /\ new \in Position
               /\ new.qty = pos.qty /\ new.trail = pos.trail
               /\ new.tp1Done <=> pos.tp1Done \/ o.tp
  BY FeeWithin DEF Sold, Position

\* The cost of what the dust rule forgets is a cost.
LEMMA DroppedNat ==
    ASSUME NEW pos \in Position, NEW price
    PROVE  Dropped(pos, price) \in Nat
  BY AmountNat DEF Dropped, Position

\* orders.append and last_prices leave the rest of the account alone.
LEMMA WithOrderTyped ==
    ASSUME NEW b \in Account, NEW o \in Order
    PROVE  LET new == WithOrder(b, o)
               f == [symbol |-> o.symbol, side |-> o.side, tp |-> o.tp]
           IN  /\ new \in Account
               /\ new.orders = Append(b.orders, f) /\ f \in Fill
               /\ new.pos = b.pos /\ new.cash = b.cash /\ new.buys = b.buys
  <1> DEFINE f == [symbol |-> o.symbol, side |-> o.side, tp |-> o.tp]
  <1>1. f \in Fill /\ o.symbol \in Symbol /\ o.price \in Nat
    BY BrokerConstants DEF Order, Fill
  <1>2. Append(b.orders, f) \in Seq(Fill) /\ [b.last EXCEPT ![o.symbol] = o.price] \in [Symbol -> Nat]
    BY <1>1 DEF Account
  <1>3. WithOrder(b, o) =
          [b EXCEPT !.orders = Append(b.orders, f), !.last = [b.last EXCEPT ![o.symbol] = o.price]]
    BY DEF WithOrder, Account
  <1>4. QED
    BY <1>1, <1>2, <1>3 DEF Account

\* What a buy does to the account.
LEMMA AfterBuyTyped ==
    ASSUME NEW b \in Account, NEW o, Checked(o)
    PROVE  LET new == AfterBuy(b, o)
               f == [symbol |-> o.symbol, side |-> o.side, tp |-> o.tp]
           IN  /\ new \in Account
               /\ new.pos = [b.pos EXCEPT ![o.symbol] = Cleaned(Bought(b.pos[o.symbol], o), o.exec)]
               /\ new.cash = b.cash - (o.notional + o.fee)
               /\ new.orders = Append(b.orders, f)
  <1> DEFINE f == [symbol |-> o.symbol, side |-> o.side, tp |-> o.tp]
             s == o.symbol
             pos == [b.pos EXCEPT ![s] = Cleaned(Bought(b.pos[s], o), o.exec)]
             dropped == b.dropped + Dropped(Bought(b.pos[s], o), o.exec)
             cash == b.cash - (o.notional + o.fee)
             buys == [b.buys EXCEPT ![s] = o.streak + 1]
             mid == WithOrder(b, o)
  <1>1. s \in Symbol /\ o \in Order /\ o.notional \in Nat /\ o.fee \in Nat /\ o.streak \in Nat
    BY FeeWithin DEF Checked
  <1>2. b.pos \in [Symbol -> Position] /\ b.dropped \in Int /\ b.cash \in Int
        /\ b.buys \in [Symbol -> Nat]
    BY DEF Account
  <1>3. Bought(b.pos[s], o) \in Position
    BY <1>1, <1>2, BoughtTyped
  <1>4. /\ Cleaned(Bought(b.pos[s], o), o.exec) \in Position
        /\ Dropped(Bought(b.pos[s], o), o.exec) \in Nat
    BY <1>3, CleanedTyped, DroppedNat
  <1>5. /\ pos \in [Symbol -> Position] /\ dropped \in Int /\ cash \in Int
        /\ buys \in [Symbol -> Nat]
    BY <1>1, <1>2, <1>4
  <1>6. /\ mid \in Account /\ mid.orders = Append(b.orders, f)
        /\ mid.pos = b.pos /\ mid.cash = b.cash /\ mid.buys = b.buys
    BY <1>1, WithOrderTyped
  <1>7. mid.dropped = b.dropped
    BY DEF WithOrder, Account
  <1>8. AfterBuy(b, o) =
          [mid EXCEPT !.pos = [mid.pos EXCEPT ![s] = Cleaned(Bought(mid.pos[s], o), o.exec)],
                      !.dropped = mid.dropped + Dropped(Bought(b.pos[s], o), o.exec),
                      !.cash = mid.cash - (o.notional + o.fee),
                      !.buys = [mid.buys EXCEPT ![s] = o.streak + 1]]
    BY DEF AfterBuy
  <1>9. AfterBuy(b, o) =
          [mid EXCEPT !.pos = pos, !.dropped = dropped, !.cash = cash, !.buys = buys]
    BY <1>6, <1>7, <1>8
  <1> HIDE DEF pos, dropped, cash, buys, mid
  <1>10. AfterBuy(b, o) \in Account
    BY <1>5, <1>6, <1>9 DEF Account
  <1>11. AfterBuy(b, o).pos = pos /\ AfterBuy(b, o).cash = cash /\ AfterBuy(b, o).orders = mid.orders
    BY <1>6, <1>9 DEF Account
  <1>12. QED
    BY <1>6, <1>10, <1>11 DEF pos, cash

\* What a sell does to the account.
LEMMA AfterSellTyped ==
    ASSUME NEW b \in Account, NEW o, Checked(o)
    PROVE  LET new == AfterSell(b, o)
               f == [symbol |-> o.symbol, side |-> o.side, tp |-> o.tp]
               qty == Smaller(o.qty, b.pos[o.symbol].qty)
               rest == [b.pos[o.symbol] EXCEPT !.qty = @ - qty]
           IN  /\ new \in Account /\ rest \in Position
               /\ new.pos = [b.pos EXCEPT ![o.symbol] = Sold(Cleaned(rest, o.exec), o)]
               /\ new.cash = b.cash + Amount(qty, o.exec) - o.fee
               /\ new.orders = Append(b.orders, f)
  <1> DEFINE f == [symbol |-> o.symbol, side |-> o.side, tp |-> o.tp]
             s == o.symbol
             qty == Smaller(o.qty, b.pos[s].qty)
             rest == [b.pos[s] EXCEPT !.qty = b.pos[s].qty - qty]
             profit == (o.exec - b.pos[s].avg) * qty - o.fee * Scale
             pos == [b.pos EXCEPT ![s] = Sold(Cleaned(rest, o.exec), o)]
             dropped == b.dropped + Dropped(rest, o.exec)
             realized == b.realized + RoundDiv(profit, Scale)
             cash == b.cash + Amount(qty, o.exec) - o.fee
             buys == [b.buys EXCEPT ![s] = 0]
             losing == LosingStreak(b.losing, profit)
             mid == WithOrder(b, o)
  <1>1. /\ s \in Symbol /\ o \in Order /\ o.notional \in Nat /\ o.fee \in Nat
        /\ o.qty \in Nat /\ o.exec \in Nat
    BY FeeWithin DEF Checked
  <1>2. b.pos \in [Symbol -> Position] /\ b.dropped \in Int /\ b.cash \in Int
        /\ b.buys \in [Symbol -> Nat] /\ b.realized \in Int /\ b.losing \in Nat
    BY DEF Account
  <1>3. b.pos[s] \in Position /\ b.pos[s].qty \in Nat /\ b.pos[s].avg \in Nat
    BY <1>1, <1>2 DEF Position
  <1>4. qty \in Nat /\ b.pos[s].qty - qty \in Nat
    BY <1>1, <1>3 DEF Smaller
  <1>5. rest \in Position
    BY <1>3, <1>4 DEF Position
  <1>6. profit \in Int
    BY <1>1, <1>3, <1>4, MoneyConstants
  <1>7. RoundDiv(profit, Scale) \in Int
    BY <1>6, RoundDivBounds, MoneyConstants
  <1>8. losing \in Nat
    BY <1>2, <1>6 DEF LosingStreak
  <1>9. Amount(qty, o.exec) \in Nat
    BY <1>1, <1>4, AmountNat
  <1> HIDE DEF profit, qty, rest, losing
  <1>10. Cleaned(rest, o.exec) \in Position /\ Dropped(rest, o.exec) \in Nat
    BY <1>5, CleanedTyped, DroppedNat
  <1>11. Sold(Cleaned(rest, o.exec), o) \in Position
    BY <1>10, SoldTyped
  <1>12. /\ pos \in [Symbol -> Position] /\ dropped \in Int /\ cash \in Int
         /\ buys \in [Symbol -> Nat] /\ realized \in Int
    BY <1>1, <1>2, <1>7, <1>9, <1>10, <1>11
  <1>13. /\ mid \in Account /\ mid.orders = Append(b.orders, f)
         /\ mid.pos = b.pos /\ mid.cash = b.cash /\ mid.buys = b.buys
    BY <1>1, WithOrderTyped
  <1>14. mid.dropped = b.dropped /\ mid.realized = b.realized /\ mid.losing = b.losing
    BY DEF WithOrder, Account
  <1>15. AfterSell(b, o) =
           [mid EXCEPT !.pos = [mid.pos EXCEPT ![s] = Sold(Cleaned(rest, o.exec), o)],
                       !.dropped = mid.dropped + Dropped(rest, o.exec),
                       !.realized = mid.realized + RoundDiv(profit, Scale),
                       !.cash = mid.cash + Amount(qty, o.exec) - o.fee,
                       !.buys = [mid.buys EXCEPT ![s] = 0],
                       !.losing = LosingStreak(mid.losing, profit)]
    BY DEF AfterSell, profit, qty, rest
  <1>16. AfterSell(b, o) =
           [mid EXCEPT !.pos = pos, !.dropped = dropped, !.realized = realized,
                       !.cash = cash, !.buys = buys, !.losing = losing]
    BY <1>13, <1>14, <1>15 DEF losing
  <1> HIDE DEF pos, dropped, realized, cash, buys, mid
  <1>17. AfterSell(b, o) \in Account
    BY <1>8, <1>12, <1>13, <1>16 DEF Account
  <1>18. AfterSell(b, o).pos = pos /\ AfterSell(b, o).cash = cash /\ AfterSell(b, o).orders = mid.orders
    BY <1>13, <1>16 DEF Account
  <1>19. QED
    BY <1>5, <1>13, <1>17, <1>18 DEF pos, cash, rest, qty
-----------------------------------------------------------------------------
(***************************************************************************)
(* The ledger file.                                                        *)
(***************************************************************************)

\* append_trade_log_entry adds one log at the end and keeps the account.
LEMMA WithTradeLogTyped ==
    ASSUME NEW l \in Ledger, NEW s \in Symbol
    PROVE  LET new == WithTradeLog(l, s)
           IN  /\ new \in Ledger /\ new.book = l.book
               /\ Len(new.logs) = Len(l.logs) + 1
               /\ DOMAIN new.logs = DOMAIN l.logs \cup {Len(l.logs) + 1}
               /\ Len(l.logs) + 1 \notin DOMAIN l.logs
               /\ \A k \in DOMAIN l.logs : new.logs[k].symbol = l.logs[k].symbol
               /\ new.logs[Len(l.logs) + 1].symbol = s
  <1> DEFINE e == [trade |-> Len(l.logs) + 1, symbol |-> s, open |-> TRUE]
  <1>1. l.logs \in Seq(Entry) /\ l.book \in Account /\ Len(l.logs) \in Nat
    BY DEF Ledger
  <1>2. e \in Entry
    BY <1>1 DEF Entry
  <1>3. WithTradeLog(l, s) = [l EXCEPT !.logs = Append(l.logs, e)]
    BY DEF WithTradeLog, WithAppended
  <1>4. Append(l.logs, e) \in Seq(Entry) /\ Len(Append(l.logs, e)) = Len(l.logs) + 1
        /\ \A k \in 1 .. Len(l.logs) : Append(l.logs, e)[k] = l.logs[k]
        /\ Append(l.logs, e)[Len(l.logs) + 1] = e
    BY <1>1, <1>2
  <1>5. DOMAIN l.logs = 1 .. Len(l.logs) /\ DOMAIN Append(l.logs, e) = 1 .. Len(l.logs) + 1
    BY <1>1, <1>4, LenProperties
  <1>6. WithTradeLog(l, s) \in Ledger /\ WithTradeLog(l, s).book = l.book
        /\ WithTradeLog(l, s).logs = Append(l.logs, e)
    BY <1>1, <1>3, <1>4 DEF Ledger
  <1> HIDE DEF e
  <1>7. e.symbol = s
    BY DEF e
  <1>8. DOMAIN Append(l.logs, e) = DOMAIN l.logs \cup {Len(l.logs) + 1}
        /\ Len(l.logs) + 1 \notin DOMAIN l.logs
    BY <1>1, <1>5
  <1>9. QED
    BY <1>1, <1>4, <1>5, <1>6, <1>7, <1>8

\* update_latest_open_trade_log keeps the logs, their symbols and the account.
LEMMA WithTradeLogClosedTyped ==
    ASSUME NEW l \in Ledger, NEW s \in Symbol
    PROVE  LET new == WithTradeLogClosed(l, s)
           IN  /\ new \in Ledger /\ new.book = l.book
               /\ DOMAIN new.logs = DOMAIN l.logs
               /\ \A k \in DOMAIN l.logs : new.logs[k].symbol = l.logs[k].symbol
  <1>1. l.logs \in Seq(Entry) /\ l.book \in Account /\ Len(l.logs) \in Nat
    BY DEF Ledger
  <1>2. l.logs \in [1 .. Len(l.logs) -> Entry] /\ DOMAIN l.logs = 1 .. Len(l.logs)
    BY <1>1, LenProperties
  <1>3. CASE \E k \in DOMAIN l.logs : IsLatestOpen(l.logs, s, k)
    <2>1. PICK k \in DOMAIN l.logs : WithTradeLogClosed(l, s) = WithClosed(l, k)
      BY <1>3 DEF WithTradeLogClosed
    <2> DEFINE e == [l.logs[k] EXCEPT !.open = FALSE]
    <2>2. e \in Entry /\ e.symbol = l.logs[k].symbol
      BY <1>2 DEF Entry
    <2>3. WithClosed(l, k) = [l EXCEPT !.logs = [l.logs EXCEPT ![k] = e]]
      BY <2>1 DEF WithClosed
    <2>4. [l.logs EXCEPT ![k] = e] \in [1 .. Len(l.logs) -> Entry]
      BY <1>2, <2>2
    <2>5. [l.logs EXCEPT ![k] = e] \in Seq(Entry)
      BY <1>1, <2>4, SeqDef
    <2>6. QED
      BY <1>1, <1>2, <2>1, <2>2, <2>3, <2>4, <2>5 DEF Ledger
  <1>4. CASE ~ \E k \in DOMAIN l.logs : IsLatestOpen(l.logs, s, k)
    BY <1>4 DEF WithTradeLogClosed
  <1>5. QED
    BY <1>3, <1>4

\* Persisting the account keeps the trade logs.
LEMMA WithBookTyped ==
    ASSUME NEW l \in Ledger, NEW b \in Account
    PROVE  WithBook(l, b) \in Ledger /\ WithBook(l, b).book = b /\ WithBook(l, b).logs = l.logs
  BY DEF WithBook, Ledger
-----------------------------------------------------------------------------
(***************************************************************************)
(* The other changes of the account.                                       *)
(***************************************************************************)

\* A new account is an account (__init__ and reset).
LEMMA NewAccountTyped == NewAccount \in Account /\ EmptyLedger \in Ledger
  <1>1. NoPosition \in Position
    BY DEF NoPosition, Position
  <1>2. <<>> \in Seq(Fill) /\ <<>> \in Seq(Entry)
    OBVIOUS
  <1>3. NewAccount \in Account
    BY <1>1, <1>2, BrokerConstants DEF NewAccount, Account
  <1>4. QED
    BY <1>2, <1>3 DEF EmptyLedger, Ledger

\* The account with the exit rules applied to a symbol, as evaluate_exit_rules
\* leaves it, and then with the price marked, as a cycle leaves it.
Trailed(b, s, price) == [b EXCEPT !.pos[s] = AfterExitRules(@, price)]

Marked(b, s, price) == [b EXCEPT !.last[s] = price]

Evaluated(b, s, price) == [b EXCEPT !.pos[s] = AfterExitRules(@, price), !.last[s] = price]

\* Evaluating and marking change a trailing stop and a last price only.
LEMMA EvaluatedTyped ==
    ASSUME NEW b \in Account, NEW s \in Symbol, NEW price \in Price,
           NEW new \in {Trailed(b, s, price), Marked(b, s, price), Evaluated(b, s, price)}
    PROVE  /\ new \in Account
           /\ new.pos \in {b.pos, [b.pos EXCEPT ![s] = AfterExitRules(b.pos[s], price)]}
           /\ new.cash = b.cash /\ new.orders = b.orders
  <1> DEFINE pos == [b.pos EXCEPT ![s] = AfterExitRules(b.pos[s], price)]
             last == [b.last EXCEPT ![s] = price]
  <1>1. price \in Nat
    BY BrokerConstants
  <1>2. b.pos \in [Symbol -> Position] /\ b.last \in [Symbol -> Nat]
    BY DEF Account
  <1>3. AfterExitRules(b.pos[s], price) \in Position
    BY <1>1, <1>2, AfterExitRulesTyped
  <1>4. pos \in [Symbol -> Position] /\ last \in [Symbol -> Nat]
    BY <1>1, <1>2, <1>3
  <1>5. CASE new = Trailed(b, s, price)
    <2>1. new = [b EXCEPT !.pos = pos]
      BY <1>5 DEF Trailed
    <2>2. QED
      BY <2>1, <1>4 DEF Account
  <1>6. CASE new = Marked(b, s, price)
    <2>1. new = [b EXCEPT !.last = last]
      BY <1>6 DEF Marked
    <2>2. QED
      BY <2>1, <1>4 DEF Account
  <1>7. CASE new = Evaluated(b, s, price)
    <2>1. new = [b EXCEPT !.pos = pos, !.last = last]
      BY <1>7 DEF Evaluated
    <2>2. QED
      BY <2>1, <1>4 DEF Account
  <1>8. QED
    BY <1>5, <1>6, <1>7

\* The account after sync_exchange_position.
Synced(b, s, h) ==
    LET avg == IF h.qty > 0 THEN h.avg ELSE 0
        was == b.cash * Scale + Cost(b.pos[s].qty, b.pos[s].avg)
        is == h.cash * Scale + Cost(h.qty, avg)
    IN  [b EXCEPT !.pos[s] = [@ EXCEPT !.qty = h.qty, !.avg = avg],
                  !.cash = h.cash, !.dropped = @ + was - is]

\* The exchange's numbers replace quantity, average price and cash.
LEMMA SyncedTyped ==
    ASSUME NEW b \in Account, NEW s \in Symbol, NEW h \in Holding
    PROVE  LET new == Synced(b, s, h)
           IN  /\ new \in Account /\ new.cash \in Nat /\ new.orders = b.orders
               /\ \A u \in Symbol :
                     /\ new.pos[u].trail = b.pos[u].trail
                     /\ new.pos[u].tp1Done = b.pos[u].tp1Done
               /\ DOMAIN new.pos = Symbol
  <1> DEFINE avg == IF h.qty > 0 THEN h.avg ELSE 0
             was == b.cash * Scale + Cost(b.pos[s].qty, b.pos[s].avg)
             is == h.cash * Scale + Cost(h.qty, avg)
             dropped == b.dropped + was - is
             one == [b.pos[s] EXCEPT !.qty = h.qty, !.avg = avg]
             pos == [b.pos EXCEPT ![s] = one]
  <1>1. h.qty \in Nat /\ h.avg \in Nat /\ h.cash \in Nat /\ Scale \in Nat
    BY BrokerConstants, MoneyConstants
  <1>2. b.pos \in [Symbol -> Position] /\ b.dropped \in Int /\ b.cash \in Int
    BY DEF Account
  <1>3. avg \in Nat
    BY <1>1
  <1> HIDE DEF avg
  <1>4. b.pos[s].qty \in Nat /\ b.pos[s].avg \in Nat
    BY <1>2 DEF Position
  <1>5. Cost(b.pos[s].qty, b.pos[s].avg) \in Nat /\ Cost(h.qty, avg) \in Nat
    BY <1>1, <1>3, <1>4, AmountNat
  <1>6. was \in Int /\ is \in Int
    BY <1>1, <1>2, <1>5
  <1>7. dropped \in Int
    BY <1>2, <1>6
  <1>8. one \in Position /\ one.trail = b.pos[s].trail /\ one.tp1Done = b.pos[s].tp1Done
    BY <1>1, <1>2, <1>3 DEF Position
  <1>9. pos \in [Symbol -> Position]
    BY <1>2, <1>8
  <1>10. Synced(b, s, h) = [b EXCEPT !.pos = pos, !.cash = h.cash, !.dropped = dropped]
    BY DEF Synced, avg
  <1> HIDE DEF dropped, one, was, is
  <1>11. \A u \in Symbol : pos[u].trail = b.pos[u].trail /\ pos[u].tp1Done = b.pos[u].tp1Done
    BY <1>2, <1>8
  <1> HIDE DEF pos
  <1> DEFINE new == [b EXCEPT !.pos = pos, !.cash = h.cash, !.dropped = dropped]
  <1>12. new \in Account
    <2>1. h.cash \in Int
      BY <1>1
    <2>2. QED
      BY <2>1, <1>7, <1>9 DEF Account
  <1>13. new.pos = pos /\ new.cash = h.cash /\ new.orders = b.orders
    BY DEF Account
  <1> HIDE DEF new
  <1>14. DOMAIN pos = Symbol
    BY <1>9
  <1>15. QED
    BY <1>1, <1>10, <1>11, <1>12, <1>13, <1>14 DEF new

\* _load_state keeps everything but the streaks.
LEMMA RestoredTyped ==
    ASSUME NEW b \in Account
    PROVE  /\ Restored(b) \in Account
           /\ Restored(b).pos = b.pos /\ Restored(b).cash = b.cash /\ Restored(b).orders = b.orders
  <1>1. [s \in Symbol |-> 0] \in [Symbol -> Nat]
    OBVIOUS
  <1>2. Restored(b) \in {b, [b EXCEPT !.buys = [s \in Symbol |-> 0]]}
    BY DEF Restored
  <1>3. QED
    BY <1>1, <1>2 DEF Account
-----------------------------------------------------------------------------
(***************************************************************************)
(* The steps, with requests of any size, so that what is proved of them    *)
(* also holds in the cycle, which sizes its orders itself.                 *)
(***************************************************************************)

\* Steps of a thread that has no order under way and submits none.
EditAccount(t) ==
    \/ \E s \in Symbol, p \in Price :
          \/ EvaluateExit(t, s, p)
          \/ Commit(t, Marked(book, s, p))
          \/ Commit(t, Evaluated(book, s, p))
    \/ \E s \in Symbol, h \in Holding : Commit(t, Synced(book, s, h))
    \/ Commit(t, NewAccount)

BrokerStep(t) ==
    \/ \E r \in AnyRequest : TpRequest(r) /\ Check(t, r)
    \/ FillStep(t)
    \/ EditAccount(t)

BrokerNext == (\E t \in Thread : BrokerStep(t)) \/ Crash

\* Every step of PaperBroker is one of these.
LEMMA NextIsBrokerNext == Next => BrokerNext
  <1> SUFFICES ASSUME Next PROVE BrokerNext
    OBVIOUS
  <1>1. CASE Crash
    BY <1>1 DEF BrokerNext
  <1>2. ASSUME NEW t \in Thread, ThreadStep(t) PROVE BrokerStep(t)
    <2>1. CASE SubmitStep(t)
      <3>1. \A n \in Size : n \in Nat
        BY BrokerConstants
      <3>2. \A r \in Request : r \in AnyRequest
        BY <3>1 DEF Request, AnyRequest
      <3>3. ASSUME NEW r \in Request, r.tp => r.side = "sell" /\ TpEnabled, Check(t, r)
            PROVE  BrokerStep(t)
        BY <3>2, <3>3 DEF BrokerStep, TpRequest
      <3>4. QED
        BY <2>1, <3>3 DEF SubmitStep, BrokerStep
    <2>2. ASSUME NEW s \in Symbol, NEW p \in Price, EvaluateExit(t, s, p) \/ MarkPrice(t, s, p)
          PROVE  EditAccount(t)
      <3>1. MarkPrice(t, s, p) => Commit(t, Marked(book, s, p))
        BY DEF MarkPrice, Marked
      <3>2. QED
        BY <2>2, <3>1 DEF EditAccount
    <2>3. ASSUME NEW s \in Symbol, NEW h \in Holding, SyncExchangePosition(t, s, h)
          PROVE  EditAccount(t)
      <3>1. Commit(t, Synced(book, s, h))
        BY <2>3 DEF SyncExchangePosition, Synced
      <3>2. QED
        BY <3>1 DEF EditAccount
    <2>4. CASE Reset(t)
      <3>1. Commit(t, NewAccount)
        BY <2>4 DEF Reset
      <3>2. QED
        BY <3>1 DEF EditAccount, BrokerStep
    <2>5. CASE \E s \in Symbol, p \in Price : EvaluateExit(t, s, p) \/ MarkPrice(t, s, p)
      <3>1. PICK s \in Symbol, p \in Price : EvaluateExit(t, s, p) \/ MarkPrice(t, s, p)
        BY <2>5
      <3>2. EditAccount(t)
        BY <2>2, <3>1
      <3>3. QED
        BY <3>2 DEF BrokerStep
    <2>6. CASE \E s \in Symbol, h \in Holding : SyncExchangePosition(t, s, h)
      <3>1. PICK s \in Symbol, h \in Holding : SyncExchangePosition(t, s, h)
        BY <2>6
      <3>2. EditAccount(t)
        BY <2>3, <3>1
      <3>3. QED
        BY <3>2 DEF BrokerStep
    <2>7. EditAccount(t) => BrokerStep(t)
      BY DEF BrokerStep
    <2>8. QED
      BY <1>2, <2>1, <2>4, <2>5, <2>6, <2>7 DEF ThreadStep
  <1>3. QED
    BY <1>1, <1>2 DEF Next, BrokerNext

\* An order past the checks carries what submit computed for it, so that the
\* fill divides by a quantity and subtracts amounts.
OrderReady == \A t \in Thread : stage[t] # "idle" => Checked(order[t])

BrokerInv == TypeOK /\ OrderReady

\* What the trade log and the persisting of a filled order leave, whether the
\* operation of the file raises or not: the account in memory, and on file the
\* one that was there or the one in memory.
LEMMA RecordStep ==
    ASSUME BrokerInv, NEW t \in Thread, LogTrade(t) \/ LogTradeRaises(t) \/ Persist(t)
    PROVE  /\ book' = book /\ crashes' = crashes
           /\ stage[t] \in {"filled", "logged"}
           /\ \/ stage' = [stage EXCEPT ![t] = "logged"] /\ order' = order
              \/ EndSubmit(t)
           /\ ledger' \in Ledger /\ ledger'.book \in {ledger.book, book}
  <1>1. book \in Account /\ ledger \in Ledger
    BY DEF BrokerInv, TypeOK
  <1>2. CASE LogTrade(t) \/ LogTradeRaises(t)
    <2>1. stage[t] = "filled"
      BY <1>2 DEF LogTrade, LogTradeRaises
    <2>2. order[t].symbol \in Symbol
      BY <2>1, FeeWithin DEF BrokerInv, OrderReady
    <2>3. WithTrade(ledger, order[t]) \in Ledger /\ WithTrade(ledger, order[t]).book = ledger.book
      BY <1>1, <2>2, WithTradeLogTyped, WithTradeLogClosedTyped DEF WithTrade
    <2>4. ledger' \in {WithTrade(ledger, order[t]), ledger}
      BY <1>2 DEF LogTrade, LogTradeRaises
    <2>5. QED
      BY <1>1, <1>2, <2>1, <2>3, <2>4 DEF LogTrade, LogTradeRaises
  <1>3. CASE Persist(t)
    <2>1. ledger' \in {WithBook(ledger, book), ledger}
      BY <1>3 DEF Persist, Save
    <2>2. QED
      BY <1>1, <1>3, <2>1, WithBookTyped DEF Persist
  <1>4. QED
    BY <1>2, <1>3

\* What an operation that edits the account leaves, saved or not.
LEMMA EditStep ==
    ASSUME NEW t \in Thread, EditAccount(t)
    PROVE  /\ stage[t] = "idle" /\ UNCHANGED <<order, stage, crashes, unlogged>>
           /\ ledger' \in {ledger, WithBook(ledger, book')}
  BY DEF EditAccount, EvaluateExit, Commit, Save

\* A step adds at most one raise, and leaves the deaths of the process alone.
LEMMA FaultStep ==
    ASSUME BrokerInv, NEW t \in Thread, BrokerStep(t)
    PROVE  raises' \in 0 .. MaxFaults /\ unlogged' \in [Symbol -> Nat]
  <1>1. /\ crashes \in 0 .. MaxFaults /\ raises \in 0 .. MaxFaults /\ MaxFaults \in Nat
        /\ unlogged \in [Symbol -> Nat]
    BY BrokerConstants DEF BrokerInv, TypeOK
  <1>2. raises' = raises \/ Raise
    BY DEF BrokerStep, Check, FillStep, Buy, Sell, SellRejectedLate, LogTrade, LogTradeRaises,
       Persist, EditAccount, EvaluateExit, Commit, Save
  <1>3. raises' \in 0 .. MaxFaults
    BY <1>1, <1>2 DEF Raise
  <1>4. CASE LogTradeRaises(t)
    <2>1. order[t].symbol \in Symbol
      BY <1>4, FeeWithin DEF LogTradeRaises, BrokerInv, OrderReady
    <2>2. unlogged' \in [Symbol -> Nat]
      BY <1>1, <1>4, <2>1 DEF LogTradeRaises
    <2>3. QED
      BY <1>3, <2>2
  <1>5. CASE ~LogTradeRaises(t)
    <2>1. unlogged' = unlogged
      BY <1>5 DEF BrokerStep, Check, FillStep, Buy, Sell, SellRejectedLate, LogTrade,
         Persist, EditAccount, EvaluateExit, Commit
    <2>2. QED
      BY <1>1, <1>3, <2>1
  <1>6. QED
    BY <1>4, <1>5

\* What the step of a thread leaves of the orders under way.
LEMMA StageStep ==
    ASSUME BrokerInv, NEW t \in Thread, BrokerStep(t)
    PROVE  /\ order' \in [Thread -> Order \cup {NoOrder}]
           /\ stage' \in [Thread -> Stage]
           /\ \A u \in Thread \ {t} : stage'[u] = stage[u] /\ order'[u] = order[u]
           /\ OrderReady'
           /\ crashes' = crashes
  <1>1. /\ order \in [Thread -> Order \cup {NoOrder}]
        /\ stage \in [Thread -> Stage]
        /\ book \in Account
    BY DEF BrokerInv, TypeOK
  <1>2. ASSUME NEW r \in AnyRequest, TpRequest(r), Check(t, r)
        PROVE  /\ stage' = [stage EXCEPT ![t] = "checked"]
               /\ order' = [order EXCEPT ![t] = Priced(book, r)]
               /\ Checked(Priced(book, r)) /\ crashes' = crashes
    BY <1>1, <1>2, PricedChecked DEF Check
  <1>3. CASE \E r \in AnyRequest : TpRequest(r) /\ Check(t, r)
    <2>1. PICK o : /\ stage' = [stage EXCEPT ![t] = "checked"]
                   /\ order' = [order EXCEPT ![t] = o]
                   /\ Checked(o) /\ crashes' = crashes
      BY <1>2, <1>3
    <2>2. o \in Order
      BY <2>1 DEF Checked
    <2>3. order'[t] = o /\ \A u \in Thread \ {t} : stage'[u] = stage[u] /\ order'[u] = order[u]
      BY <1>1, <2>1
    <2>4. OrderReady'
      BY <2>1, <2>3 DEF OrderReady, BrokerInv
    <2>5. QED
      BY <1>1, <2>1, <2>2, <2>3, <2>4 DEF Stage
  <1>4. CASE Buy(t) \/ Sell(t)
    <2>1. /\ stage[t] = "checked" /\ stage' = [stage EXCEPT ![t] = "filled"]
          /\ order' = order /\ crashes' = crashes
      BY <1>4 DEF Buy, Sell
    <2>2. OrderReady'
      BY <1>1, <2>1 DEF OrderReady, BrokerInv
    <2>3. QED
      BY <1>1, <2>1, <2>2 DEF Stage
  <1>5. CASE SellRejectedLate(t) \/ LogTrade(t) \/ LogTradeRaises(t) \/ Persist(t)
    <2>1. /\ crashes' = crashes /\ stage[t] # "idle"
          /\ \/ stage' = [stage EXCEPT ![t] = "logged"] /\ order' = order
             \/ EndSubmit(t)
      BY <1>5, RecordStep DEF SellRejectedLate
    <2>2. CASE EndSubmit(t)
      <3>1. OrderReady'
        BY <1>1, <2>2 DEF OrderReady, BrokerInv, EndSubmit
      <3>2. QED
        BY <1>1, <2>1, <2>2, <3>1 DEF EndSubmit, Stage
    <2>3. CASE stage' = [stage EXCEPT ![t] = "logged"] /\ order' = order
      <3>1. OrderReady'
        BY <1>1, <2>1, <2>3 DEF OrderReady, BrokerInv
      <3>2. QED
        BY <1>1, <2>1, <2>3, <3>1 DEF Stage
    <2>4. QED
      BY <2>1, <2>2, <2>3
  <1>6. CASE EditAccount(t)
    <2>1. stage' = stage /\ order' = order /\ crashes' = crashes
      BY <1>6, EditStep
    <2>2. QED
      BY <1>1, <2>1 DEF OrderReady, BrokerInv
  <1>7. QED
    BY <1>3, <1>4, <1>5, <1>6 DEF BrokerStep, FillStep

\* What the step of a thread does to the account in memory and to the file.
LEMMA AccountStep ==
    ASSUME BrokerInv, NEW t \in Thread, BrokerStep(t)
    PROVE  book' \in Account /\ ledger' \in Ledger
  <1>1. book \in Account /\ ledger \in Ledger
    BY DEF BrokerInv, TypeOK
  <1>2. CASE \E r \in AnyRequest : TpRequest(r) /\ Check(t, r)
    BY <1>1, <1>2 DEF Check
  <1>3. stage[t] = "checked" => Checked(order[t])
    BY DEF BrokerInv, OrderReady
  <1>4. CASE Buy(t)
    <2>1. Checked(order[t]) /\ order[t].symbol \in Symbol
      BY <1>3, <1>4, FeeWithin DEF Buy
    <2>2. QED
      BY <1>1, <1>4, <2>1, AfterBuyTyped DEF Buy
  <1>5. CASE Sell(t)
    <2>1. Checked(order[t]) /\ order[t].symbol \in Symbol
      BY <1>3, <1>5, FeeWithin DEF Sell
    <2>2. QED
      BY <1>1, <1>5, <2>1, AfterSellTyped DEF Sell
  <1>6. CASE SellRejectedLate(t)
    <2>1. order[t] \in Order
      BY <1>3, <1>6 DEF SellRejectedLate, Checked
    <2>2. [order[t] EXCEPT !.tp = FALSE] \in Order
      BY <2>1 DEF Order
    <2>3. QED
      BY <1>1, <1>6, <2>2, WithOrderTyped DEF SellRejectedLate
  <1>7. CASE LogTrade(t) \/ LogTradeRaises(t) \/ Persist(t)
    BY <1>1, <1>7, RecordStep
  <1>8. CASE EditAccount(t)
    <2>1. book' \in Account
      <3>1. ASSUME NEW s \in Symbol, NEW p \in Price,
                   EvaluateExit(t, s, p) \/ Commit(t, Marked(book, s, p)) \/ Commit(t, Evaluated(book, s, p))
            PROVE  book' \in {Trailed(book, s, p), Marked(book, s, p), Evaluated(book, s, p)}
        BY <3>1 DEF EvaluateExit, Commit, Trailed
      <3>2. ASSUME NEW s \in Symbol, NEW h \in Holding, Commit(t, Synced(book, s, h))
            PROVE  book' \in Account
        BY <1>1, <3>2, SyncedTyped DEF Commit
      <3>3. CASE Commit(t, NewAccount)
        BY <3>3, NewAccountTyped DEF Commit
      <3>4. QED
        BY <1>1, <1>8, <3>1, <3>2, <3>3, EvaluatedTyped DEF EditAccount
    <2>2. ledger' \in {ledger, WithBook(ledger, book')}
      BY <1>8, EditStep
    <2>3. QED
      BY <1>1, <2>1, <2>2, WithBookTyped
  <1>9. QED
    BY <1>2, <1>4, <1>5, <1>6, <1>7, <1>8 DEF BrokerStep, FillStep

\* A restart leaves no order under way.
LEMMA CrashStep ==
    ASSUME BrokerInv, Crash
    PROVE  /\ BrokerInv'
           /\ book'.pos = ledger.book.pos /\ book'.cash = ledger.book.cash
           /\ book'.orders = ledger.book.orders
           /\ UNCHANGED <<ledger, raises, unlogged>> /\ crashes' > crashes
           /\ \A t \in Thread : stage'[t] = "idle"
  <1>1. /\ ledger.book \in Account /\ ledger \in Ledger
        /\ crashes \in 0 .. MaxFaults /\ raises \in 0 .. MaxFaults
    BY DEF BrokerInv, TypeOK, Ledger
  <1>2. crashes' \in 0 .. MaxFaults /\ crashes' > crashes
    BY <1>1, BrokerConstants DEF Crash
  <1>3. /\ stage' = [t \in Thread |-> "idle"] /\ order' = [t \in Thread |-> NoOrder]
        /\ book' = Restored(ledger.book) /\ UNCHANGED <<ledger, raises, unlogged>>
    BY DEF Crash
  <1>4. /\ book' \in Account /\ book'.pos = ledger.book.pos /\ book'.cash = ledger.book.cash
        /\ book'.orders = ledger.book.orders
    BY <1>1, <1>3, RestoredTyped
  <1>5. BrokerInv'
    BY <1>1, <1>2, <1>3, <1>4 DEF BrokerInv, TypeOK, Stage, OrderReady
  <1>6. QED
    BY <1>2, <1>3, <1>4, <1>5

\* The broker starts in a state of its types (__init__).
LEMMA BrokerInvInit == Init => BrokerInv
  BY NewAccountTyped, BrokerConstants DEF Init, BrokerInv, TypeOK, Stage, OrderReady

\* Every step keeps the types and what a thread holds between its steps.
LEMMA BrokerInvStep == BrokerInv /\ [BrokerNext]_vars => BrokerInv'
  <1> SUFFICES ASSUME BrokerInv, [BrokerNext]_vars PROVE BrokerInv'
    OBVIOUS
  <1>1. ASSUME NEW t \in Thread, BrokerStep(t) PROVE BrokerInv'
    BY <1>1, StageStep, AccountStep, FaultStep DEF BrokerInv, TypeOK
  <1>2. CASE Crash
    BY <1>2, CrashStep
  <1>3. CASE UNCHANGED vars
    BY <1>3 DEF vars, BrokerInv, TypeOK, OrderReady
  <1>4. QED
    BY <1>1, <1>2, <1>3 DEF BrokerNext

\* The account, the file and the orders under way keep their types, through
\* deaths of the process and file operations that raise: a buy divides by a
\* quantity that is not 0, a sell never takes more than is held, and no amount
\* falls below 0 but cash and profit.  One thread uses the broker (SerialUse).
THEOREM BrokerTyped == Spec => []TypeOK
  <1>1. Init => BrokerInv
    BY BrokerInvInit
  <1>2. BrokerInv /\ [Next]_vars => BrokerInv'
    BY BrokerInvStep, NextIsBrokerNext
  <1>3. BrokerInv => TypeOK
    BY DEF BrokerInv
  <1>4. QED
    BY <1>1, <1>2, <1>3, PTL DEF Spec
-----------------------------------------------------------------------------
(***************************************************************************)
(* What a checked order asks for is still there when it is filled, because *)
(* nothing comes between (SerialUse).                                      *)
(***************************************************************************)

\* A checked buy is still one the account can pay, and a checked sell still
\* asks for no more than is held.
StillCovered ==
    \A t \in Thread :
        stage[t] = "checked" =>
            LET o == order[t]
            IN  /\ o.side = "buy" => o.notional + o.fee <= book.cash
                /\ o.side = "sell" => o.qty <= book.pos[o.symbol].qty

Solvent == book.cash >= 0 /\ ledger.book.cash >= 0

CashInv == Solvent /\ StillCovered

\* A new account owes nothing.
LEMMA CashInvInit == Init => CashInv
  <1>1. NewAccount.cash \in Nat
    BY BrokerConstants DEF NewAccount
  <1>2. Init => book.cash >= 0 /\ ledger.book.cash >= 0
    BY <1>1 DEF Init, EmptyLedger
  <1>3. QED
    BY <1>2 DEF Init, CashInv, Solvent, StillCovered

\* No step spends more than the account has.
LEMMA CashInvStep ==
    ASSUME BrokerInv, CashInv, [BrokerNext]_vars
    PROVE  CashInv'
  <1>1. BrokerInv'
    BY BrokerInvStep
  <1>2. /\ book \in Account /\ ledger \in Ledger /\ book' \in Account /\ ledger' \in Ledger
        /\ stage \in [Thread -> Stage]
        /\ order \in [Thread -> Order \cup {NoOrder}]
    BY <1>1 DEF BrokerInv, TypeOK
  <1>3. ledger.book \in Account /\ ledger'.book \in Account
    BY <1>2 DEF Ledger
  <1>4. /\ book.cash \in Int /\ book'.cash \in Int
        /\ ledger.book.cash \in Int /\ ledger'.book.cash \in Int
    BY <1>2, <1>3 DEF Account
  <1>5. book.cash >= 0 /\ ledger.book.cash >= 0
    BY DEF CashInv, Solvent
  \* A step that ends with its thread not at "checked" leaves no order to cover.
  <1>6. ASSUME NEW t \in Thread, stage'[t] # "checked" PROVE StillCovered'
    BY <1>6, SerialUse DEF StillCovered
  <1>7. ASSUME NEW t \in Thread, NEW r \in AnyRequest, TpRequest(r), Check(t, r)
        PROVE  CashInv'
    <2>1. /\ order' = [order EXCEPT ![t] = Priced(book, r)] /\ book' = book /\ ledger' = ledger
          /\ Accepts(book, Priced(book, r))
      BY <1>7 DEF Check
    <2>2. order'[t] = Priced(book, r)
      BY <1>2, <2>1
    <2>3. /\ order'[t].side = "sell" => order'[t].qty <= book.pos[order'[t].symbol].qty
          /\ order'[t].side = "buy" => order'[t].notional + order'[t].fee <= book.cash
      BY <1>2, <1>7, <2>1, <2>2, PricedChecked
    <2>4. StillCovered'
      BY <2>1, <2>3, SerialUse DEF StillCovered
    <2>5. QED
      BY <1>5, <2>1, <2>4 DEF CashInv, Solvent
  <1>8. ASSUME NEW t \in Thread, Buy(t) PROVE CashInv'
    <2> DEFINE o == order[t]
    <2>1. Checked(o) /\ o.notional + o.fee <= book.cash
      BY <1>8 DEF Buy, BrokerInv, OrderReady, CashInv, StillCovered
    <2>2. book'.cash = book.cash - (o.notional + o.fee)
      BY <1>2, <1>8, <2>1, AfterBuyTyped DEF Buy
    <2>3. ledger' = ledger
      BY <1>8 DEF Buy
    <2>4. o.notional \in Nat /\ o.fee \in Nat
      BY <2>1, FeeWithin
    <2> HIDE DEF o
    <2>5. book'.cash >= 0
      BY <1>4, <2>1, <2>2, <2>4
    <2>6. stage'[t] # "checked"
      BY <1>2, <1>8 DEF Buy
    <2>7. QED
      BY <1>5, <1>6, <2>3, <2>5, <2>6 DEF CashInv, Solvent
  <1>9. ASSUME NEW t \in Thread, Sell(t) PROVE CashInv'
    <2> DEFINE o == order[t]
               pos == book.pos[o.symbol]
    <2>1. Checked(o) /\ o.qty <= pos.qty
      BY <1>9 DEF Sell, BrokerInv, OrderReady, CashInv, StillCovered
    <2>2. /\ o.qty \in Nat /\ o.notional \in Nat /\ o.fee \in Nat /\ o.fee <= o.notional
          /\ o.symbol \in Symbol
      BY <2>1, FeeWithin
    <2>3. pos.qty \in Nat
      BY <1>2, <2>2 DEF Account, Position
    <2>4. Smaller(o.qty, pos.qty) = o.qty
      BY <2>1, <2>2, <2>3 DEF Smaller
    <2>5. book'.cash = book.cash + Amount(Smaller(o.qty, pos.qty), o.exec) - o.fee
      BY <1>2, <1>9, <2>1, AfterSellTyped DEF Sell
    <2>6. book'.cash = book.cash + o.notional - o.fee
      BY <2>1, <2>4, <2>5 DEF Checked
    <2>7. ledger' = ledger
      BY <1>9 DEF Sell
    <2> HIDE DEF o
    <2>8. book'.cash >= 0
      BY <1>4, <1>5, <2>2, <2>6
    <2>9. stage'[t] # "checked"
      BY <1>2, <1>9 DEF Sell
    <2>10. QED
      BY <1>5, <1>6, <2>7, <2>8, <2>9 DEF CashInv, Solvent
  <1>10. ASSUME NEW t \in Thread, SellRejectedLate(t) PROVE CashInv'
    <2>1. order[t] \in Order
      BY <1>10 DEF SellRejectedLate, BrokerInv, OrderReady, Checked
    <2>2. [order[t] EXCEPT !.tp = FALSE] \in Order
      BY <2>1 DEF Order
    <2>3. book'.cash = book.cash /\ ledger' = ledger /\ stage'[t] # "checked"
      BY <1>2, <1>10, <2>2, WithOrderTyped DEF SellRejectedLate, EndSubmit
    <2>4. QED
      BY <1>5, <1>6, <2>3 DEF CashInv, Solvent
  <1>11. ASSUME NEW t \in Thread, LogTrade(t) \/ LogTradeRaises(t) \/ Persist(t) PROVE CashInv'
    <2>1. book' = book /\ ledger'.book \in {ledger.book, book} /\ stage'[t] # "checked"
      BY <1>2, <1>11, RecordStep DEF EndSubmit
    <2>2. QED
      BY <1>5, <1>6, <2>1 DEF CashInv, Solvent
  <1>12. ASSUME NEW t \in Thread, EditAccount(t) PROVE CashInv'
    <2>1. stage'[t] # "checked"
      BY <1>12, EditStep
    <2>2. ledger' = ledger \/ ledger'.book = book'
      BY <1>2, <1>12, EditStep, WithBookTyped
    <2>3. ASSUME NEW s \in Symbol, NEW p \in Price,
                 EvaluateExit(t, s, p) \/ Commit(t, Marked(book, s, p)) \/ Commit(t, Evaluated(book, s, p))
          PROVE  book'.cash = book.cash
      <3>1. book' \in {Trailed(book, s, p), Marked(book, s, p), Evaluated(book, s, p)}
        BY <2>3 DEF EvaluateExit, Commit, Trailed
      <3>2. QED
        BY <1>2, <3>1, EvaluatedTyped
    <2>4. ASSUME NEW s \in Symbol, NEW h \in Holding, Commit(t, Synced(book, s, h))
          PROVE  book'.cash \in Nat
      BY <1>2, <2>4, SyncedTyped DEF Commit
    <2>5. Commit(t, NewAccount) => book'.cash \in Nat
      BY BrokerConstants DEF Commit, NewAccount
    <2>6. book'.cash = book.cash \/ book'.cash \in Nat
      BY <1>12, <2>3, <2>4, <2>5 DEF EditAccount
    <2>7. QED
      BY <1>4, <1>5, <1>6, <2>1, <2>2, <2>6 DEF CashInv, Solvent
  <1>13. CASE Crash
    <2>1. book'.cash = ledger.book.cash /\ ledger' = ledger
          /\ \A t \in Thread : stage'[t] = "idle"
      BY <1>13, CrashStep
    <2>2. QED
      BY <1>5, <2>1 DEF CashInv, Solvent, StillCovered
  <1>14. CASE UNCHANGED vars
    BY <1>14 DEF vars, CashInv, Solvent, StillCovered
  <1>15. QED
    BY <1>7, <1>8, <1>9, <1>10, <1>11, <1>12, <1>13, <1>14 DEF BrokerNext, BrokerStep, FillStep

-----------------------------------------------------------------------------
(***************************************************************************)
(* Trailing stops and targets.                                             *)
(***************************************************************************)

\* The positions after a fill.
LEMMA FilledPositions ==
    ASSUME BrokerInv, NEW t \in Thread, Buy(t) \/ Sell(t)
    PROVE  LET o == order[t]
           IN  /\ o.symbol \in Symbol /\ stage[t] = "checked" /\ stage'[t] = "filled"
               /\ \A u \in Symbol \ {o.symbol} : book'.pos[u] = book.pos[u]
               /\ Buy(t) => /\ o.side = "buy"
                            /\ book'.pos[o.symbol].trail = 0
                            /\ TpEnabled => ~book'.pos[o.symbol].tp1Done
                            /\ ~TpEnabled => book'.pos[o.symbol].tp1Done = book.pos[o.symbol].tp1Done
               /\ Sell(t) => /\ o.side = "sell"
                             /\ book'.pos[o.symbol].trail = book.pos[o.symbol].trail
                             /\ book'.pos[o.symbol].tp1Done <=> book.pos[o.symbol].tp1Done \/ o.tp
  <1> DEFINE o == order[t]
             s == o.symbol
  <1>1. /\ book \in Account /\ stage \in [Thread -> Stage]
        /\ stage[t] = "checked" /\ stage'[t] = "filled"
    BY DEF BrokerInv, TypeOK, Buy, Sell
  <1>2. Checked(o) /\ s \in Symbol
    BY <1>1, FeeWithin DEF BrokerInv, OrderReady
  <1>3. book.pos \in [Symbol -> Position] /\ book.pos[s] \in Position
    BY <1>1, <1>2 DEF Account
  <1>4. CASE Buy(t)
    <2> DEFINE new == Bought(book.pos[s], o)
    <2>1. book'.pos = [book.pos EXCEPT ![s] = Cleaned(new, o.exec)]
      BY <1>1, <1>2, <1>4, AfterBuyTyped DEF Buy
    <2>2. /\ new \in Position /\ new.trail = 0
          /\ TpEnabled => ~new.tp1Done
          /\ ~TpEnabled => new.tp1Done = book.pos[s].tp1Done
      BY <1>2, <1>3, BoughtTyped
    <2> HIDE DEF new
    <2>3. Cleaned(new, o.exec).trail = 0 /\ Cleaned(new, o.exec).tp1Done = new.tp1Done
      BY <2>2, CleanedTyped
    <2>4. o.side = "buy" /\ ~Sell(t)
      BY <1>4 DEF Buy, Sell
    <2>5. QED
      BY <1>1, <1>2, <1>3, <2>1, <2>2, <2>3, <2>4
  <1>5. CASE Sell(t)
    <2> DEFINE rest == [book.pos[s] EXCEPT !.qty = @ - Smaller(o.qty, book.pos[s].qty)]
               new == Cleaned(rest, o.exec)
    <2>1. book'.pos = [book.pos EXCEPT ![s] = Sold(new, o)] /\ rest \in Position
      BY <1>1, <1>2, <1>5, AfterSellTyped DEF Sell
    <2>2. rest.trail = book.pos[s].trail /\ rest.tp1Done = book.pos[s].tp1Done
      BY <1>3 DEF Position
    <2> HIDE DEF rest
    <2>3. new \in Position /\ new.trail = rest.trail /\ new.tp1Done = rest.tp1Done
      BY <2>1, CleanedTyped
    <2> HIDE DEF new
    <2>4. Sold(new, o).trail = new.trail /\ (Sold(new, o).tp1Done <=> new.tp1Done \/ o.tp)
      BY <1>2, <2>3, SoldTyped
    <2>5. o.side = "sell" /\ ~Buy(t)
      BY <1>5 DEF Buy, Sell
    <2>6. QED
      BY <1>1, <1>2, <1>3, <2>1, <2>2, <2>3, <2>4, <2>5
  <1>6. QED
    BY <1>4, <1>5

\* The positions after any other step of a thread.
LEMMA OtherPositions ==
    ASSUME BrokerInv, NEW t \in Thread, BrokerStep(t), ~Buy(t), ~Sell(t)
    PROVE  \/ book' = NewAccount
           \/ \A u \in Symbol :
                 /\ book'.pos[u].trail >= book.pos[u].trail
                 /\ book'.pos[u].tp1Done = book.pos[u].tp1Done
  <1>1. book \in Account /\ book.pos \in [Symbol -> Position]
    BY DEF BrokerInv, TypeOK, Account
  <1>2. \A u \in Symbol : book.pos[u].trail \in Nat
    BY <1>1 DEF Position
  <1>3. CASE \E r \in AnyRequest : TpRequest(r) /\ Check(t, r)
    BY <1>2, <1>3 DEF Check
  <1>4. CASE SellRejectedLate(t)
    <2>1. order[t] \in Order
      BY <1>4 DEF SellRejectedLate, BrokerInv, OrderReady, Checked
    <2>2. [order[t] EXCEPT !.tp = FALSE] \in Order
      BY <2>1 DEF Order
    <2>3. book'.pos = book.pos
      BY <1>1, <1>4, <2>2, WithOrderTyped DEF SellRejectedLate
    <2>4. QED
      BY <1>2, <2>3
  <1>5. CASE LogTrade(t) \/ LogTradeRaises(t) \/ Persist(t)
    BY <1>2, <1>5, RecordStep
  <1>6. CASE EditAccount(t)
    <2>2. ASSUME NEW s \in Symbol, NEW p \in Price,
                 EvaluateExit(t, s, p) \/ Commit(t, Marked(book, s, p)) \/ Commit(t, Evaluated(book, s, p)),
                 NEW u \in Symbol
          PROVE  /\ book'.pos[u].trail >= book.pos[u].trail
                 /\ book'.pos[u].tp1Done = book.pos[u].tp1Done
      <3> DEFINE new == AfterExitRules(book.pos[s], p)
      <3>1. book' \in {Trailed(book, s, p), Marked(book, s, p), Evaluated(book, s, p)}
        BY <2>2 DEF EvaluateExit, Commit, Trailed
      <3>2. book'.pos \in {book.pos, [book.pos EXCEPT ![s] = new]}
        BY <1>1, <3>1, EvaluatedTyped
      <3>3. new.trail >= book.pos[s].trail /\ new.tp1Done = book.pos[s].tp1Done
        BY <1>1, AfterExitRulesTyped, BrokerConstants
      <3> HIDE DEF new
      <3>4. QED
        BY <1>1, <1>2, <3>2, <3>3
    <2>3. ASSUME NEW s \in Symbol, NEW h \in Holding, Commit(t, Synced(book, s, h)), NEW u \in Symbol
          PROVE  /\ book'.pos[u].trail >= book.pos[u].trail
                 /\ book'.pos[u].tp1Done = book.pos[u].tp1Done
      BY <1>1, <1>2, <2>3, SyncedTyped DEF Commit
    <2>4. CASE Commit(t, NewAccount)
      BY <2>4 DEF Commit
    <2>5. QED
      BY <1>6, <2>2, <2>3, <2>4 DEF EditAccount
  <1>7. QED
    BY <1>3, <1>4, <1>5, <1>6 DEF BrokerStep, FillStep

\* The file holds the account it held or the one in memory.
LEMMA LedgerBook ==
    ASSUME BrokerInv, NEW t \in Thread, BrokerStep(t)
    PROVE  ledger'.book \in {ledger.book, book'}
  <1>1. CASE EditAccount(t)
    <2>1. ledger \in Ledger /\ book' \in Account
      BY AccountStep DEF BrokerInv, TypeOK
    <2>2. QED
      BY <1>1, <2>1, EditStep, WithBookTyped
  <1>2. CASE LogTrade(t) \/ LogTradeRaises(t) \/ Persist(t)
    BY <1>2, RecordStep
  <1>3. CASE \E r \in AnyRequest : TpRequest(r) /\ Check(t, r)
    BY <1>3 DEF Check
  <1>4. CASE Buy(t) \/ Sell(t) \/ SellRejectedLate(t)
    BY <1>4 DEF Buy, Sell, SellRejectedLate
  <1>5. QED
    BY <1>1, <1>2, <1>3, <1>4 DEF BrokerStep, FillStep

\* A step that takes no order to the account keeps the orders or drops them all.
LEMMA UnfilledOrders ==
    ASSUME BrokerInv, NEW t \in Thread, BrokerStep(t), ~Buy(t), ~Sell(t), ~SellRejectedLate(t)
    PROVE  book'.orders = book.orders \/ book' = NewAccount
  <1>1. book \in Account
    BY DEF BrokerInv, TypeOK
  <1>2. ASSUME NEW u \in Symbol, NEW p \in Price,
               EvaluateExit(t, u, p) \/ Commit(t, Marked(book, u, p)) \/ Commit(t, Evaluated(book, u, p))
        PROVE  book'.orders = book.orders
    <2>1. book' \in {Trailed(book, u, p), Marked(book, u, p), Evaluated(book, u, p)}
      BY <1>2 DEF EvaluateExit, Commit, Trailed
    <2>2. QED
      BY <1>1, <2>1, EvaluatedTyped
  <1>3. ASSUME NEW u \in Symbol, NEW h \in Holding, Commit(t, Synced(book, u, h))
        PROVE  book'.orders = book.orders
    BY <1>1, <1>3, SyncedTyped DEF Commit
  <1>4. CASE EditAccount(t)
    BY <1>2, <1>3, <1>4 DEF EditAccount, Commit
  <1>5. CASE LogTrade(t) \/ LogTradeRaises(t) \/ Persist(t)
    BY <1>5, RecordStep
  <1>6. CASE \E r \in AnyRequest : TpRequest(r) /\ Check(t, r)
    BY <1>6 DEF Check
  <1>7. QED
    BY <1>4, <1>5, <1>6 DEF BrokerStep, FillStep

\* What TrailingNeverLoosens says of one step.
TrailsHold ==
    \A s \in Symbol :
        \/ book'.pos[s].trail >= book.pos[s].trail
        \/ \E t \in Thread : stage'[t] = "filled" /\ order[t].side = "buy" /\ order[t].symbol = s
        \/ book' = NewAccount
        \/ crashes' > crashes

\* Every step keeps the trailing stops where they are or raises them, unless the
\* position is closed or the process dies.
LEMMA TrailsHoldStep ==
    ASSUME BrokerInv, [BrokerNext]_vars
    PROVE  TrailsHold
  <1>1. \A s \in Symbol : book.pos[s].trail \in Nat
    BY DEF BrokerInv, TypeOK, Account, Position
  <1>2. ASSUME NEW t \in Thread, BrokerStep(t) PROVE TrailsHold
    <2>1. CASE Buy(t)
      BY <1>1, <2>1, FilledPositions DEF TrailsHold
    <2>2. CASE Sell(t)
      <3>1. \A s \in Symbol : book'.pos[s].trail = book.pos[s].trail
        BY <2>2, FilledPositions
      <3>2. QED
        BY <1>1, <3>1 DEF TrailsHold
    <2>3. CASE ~Buy(t) /\ ~Sell(t)
      BY <1>2, <2>3, OtherPositions DEF TrailsHold
    <2>4. QED
      BY <2>1, <2>2, <2>3
  <1>3. CASE Crash
    BY <1>3, CrashStep DEF TrailsHold
  <1>4. CASE UNCHANGED vars
    BY <1>1, <1>4 DEF vars, TrailsHold
  <1>5. QED
    BY <1>2, <1>3, <1>4 DEF BrokerNext

\* The trailing stop of a position only rises, whatever the prices the exit
\* rules are asked about, until a buy, a reset or a restart.  One thread uses the
\* broker (SerialUse): a stop computed by one thread and assigned after another
\* has raised it is excluded.
THEOREM BrokerTrailingNeverLoosens == Spec => TrailingNeverLoosens
  <1>1. Init => BrokerInv
    BY BrokerInvInit
  <1>2. BrokerInv /\ [Next]_vars => BrokerInv'
    BY BrokerInvStep, NextIsBrokerNext
  <1>3. BrokerInv /\ [Next]_vars => TrailsHold
    BY TrailsHoldStep, NextIsBrokerNext
  <1>4. QED
    BY <1>1, <1>2, <1>3, PTL DEF Spec, TrailingNeverLoosens, TrailsHold

\* A target that the settings do not use is never spent.
UnusedTargetUnspent ==
    ~TpEnabled => \A s \in Symbol : ~book.pos[s].tp1Done /\ ~ledger.book.pos[s].tp1Done

\* A new account has taken no target.
LEMMA UnusedTargetInit == Init => UnusedTargetUnspent
  <1>1. \A s \in Symbol : ~NewAccount.pos[s].tp1Done
    BY DEF NewAccount, NoPosition
  <1>2. QED
    BY <1>1 DEF Init, EmptyLedger, UnusedTargetUnspent

\* Where the target is switched off, no step marks a position as having taken it.
LEMMA UnusedTargetStep ==
    ASSUME BrokerInv, UnusedTargetUnspent, [BrokerNext]_vars
    PROVE  UnusedTargetUnspent'
  <1> SUFFICES ASSUME ~TpEnabled, NEW s \in Symbol
               PROVE  ~book'.pos[s].tp1Done /\ ~ledger'.book.pos[s].tp1Done
    BY DEF UnusedTargetUnspent
  <1>1. ~book.pos[s].tp1Done /\ ~ledger.book.pos[s].tp1Done
    BY DEF UnusedTargetUnspent
  <1>5. ASSUME NEW t \in Thread, BrokerStep(t)
        PROVE  ~book'.pos[s].tp1Done /\ ~ledger'.book.pos[s].tp1Done
    <2>1. ~book'.pos[s].tp1Done
      <3>1. CASE Buy(t) \/ Sell(t)
        <4>1. stage[t] = "checked" /\ order[t].symbol \in Symbol
          BY <3>1, FilledPositions
        <4>2. ~order[t].tp
          BY <4>1 DEF BrokerInv, OrderReady, Checked
        <4>3. QED
          BY <1>1, <3>1, <4>2, FilledPositions
      <3>2. CASE ~Buy(t) /\ ~Sell(t)
        <4>1. ~NewAccount.pos[s].tp1Done
          BY DEF NewAccount, NoPosition
        <4>2. book' = NewAccount \/ book'.pos[s].tp1Done = book.pos[s].tp1Done
          BY <1>5, <3>2, OtherPositions
        <4>3. QED
          BY <1>1, <4>1, <4>2
      <3>3. QED
        BY <3>1, <3>2
    <2>2. QED
      BY <1>1, <1>5, <2>1, LedgerBook
  <1>6. CASE Crash
    BY <1>1, <1>6, CrashStep
  <1>7. CASE UNCHANGED vars
    BY <1>1, <1>7 DEF vars
  <1>8. QED
    BY <1>5, <1>6, <1>7 DEF BrokerNext

\* Only a fill takes the order of a thread from "checked" to "filled".
LEMMA FillIsBuyOrSell ==
    ASSUME BrokerInv, [BrokerNext]_vars, NEW t \in Thread, stage[t] = "checked", stage'[t] = "filled"
    PROVE  Buy(t) \/ Sell(t)
  <1>1. stage \in [Thread -> Stage]
    BY DEF BrokerInv, TypeOK
  <1>2. ~Crash
    BY CrashStep
  <1>3. ~UNCHANGED vars
    BY DEF vars
  <1>4. PICK u \in Thread : BrokerStep(u)
    BY <1>2, <1>3 DEF BrokerNext
  <1>5. u = t
    BY <1>4, StageStep
  <1>6. ASSUME ~Buy(t), ~Sell(t) PROVE FALSE
    <2>1. CASE \E r \in AnyRequest : TpRequest(r) /\ Check(t, r)
      BY <2>1 DEF Check
    <2>2. CASE SellRejectedLate(t) \/ LogTrade(t) \/ LogTradeRaises(t) \/ Persist(t)
      BY <1>1, <2>2, RecordStep DEF SellRejectedLate, EndSubmit
    <2>3. CASE EditAccount(t)
      BY <2>3, EditStep
    <2>4. QED
      BY <1>4, <1>5, <1>6, <2>1, <2>2, <2>3 DEF BrokerStep, FillStep
  <1>7. QED
    BY <1>6

-----------------------------------------------------------------------------
(***************************************************************************)
(* What a fill costs.                                                      *)
(***************************************************************************)

\* A buy, valued at the price it was asked at, costs the fee but for the
\* rounding of the notional.
LEMMA BuyCostsTheFee ==
    ASSUME BrokerInv, NEW t \in Thread, Buy(t)
    PROVE  LET o == order[t]
               loss == EquityAt(book, o.symbol, o.price) - EquityAt(book', o.symbol, o.price)
           IN  2 * (o.fee * Scale - loss) <= Scale
  <1> DEFINE o == order[t]
             s == o.symbol
             p == o.price
             q == book.pos[s].qty
             new == Bought(book.pos[s], o)
             qNew == book'.pos[s].qty
  <1>1. book \in Account /\ stage[t] = "checked"
    BY DEF BrokerInv, TypeOK, Buy
  <1>2. Checked(o)
    BY <1>1 DEF BrokerInv, OrderReady
  <1>3. /\ s \in Symbol /\ o.notional \in Nat /\ o.fee \in Nat /\ o.qty \in Nat
        /\ o.exec \in Nat /\ p \in Nat
    BY <1>2, FeeWithin
  <1>4. book.pos \in [Symbol -> Position] /\ book.cash \in Int
    BY <1>1 DEF Account
  <1>5. q \in Nat
    BY <1>3, <1>4 DEF Position
  <1>6. /\ book'.pos = [book.pos EXCEPT ![s] = Cleaned(new, o.exec)]
        /\ book'.cash = book.cash - (o.notional + o.fee)
    BY <1>1, <1>2, AfterBuyTyped DEF Buy
  <1>7. new \in Position /\ new.qty = q + o.qty
    BY <1>2, <1>3, <1>4, BoughtTyped
  <1> HIDE DEF new
  <1>8. qNew \in {0, q + o.qty}
    BY <1>3, <1>4, <1>6, <1>7, CleanedTyped
  <1>9. p <= o.exec
    <2>1. o.side = "buy" /\ o.price \in Price /\ o.exec = ExecutedPrice(o.side, o.price)
      BY <1>2 DEF Buy, Checked, Order
    <2>2. QED
      BY <2>1, ExecutedPriceBounds
  <1>10. 2 * Cost(o.qty, o.exec) < 2 * (o.notional * Scale) + Scale
    BY <1>2, <1>3, AmountBounds DEF Checked
  <1>11. Cost(o.qty, p) <= Cost(o.qty, o.exec)
    BY <1>3, <1>9 DEF Cost
  <1>12. Cost(q + o.qty, p) = Cost(q, p) + Cost(o.qty, p) /\ Cost(0, p) = 0
    BY <1>3, <1>5 DEF Cost
  <1>13. /\ Cost(q, p) \in Nat /\ Cost(o.qty, p) \in Nat /\ Cost(o.qty, o.exec) \in Nat
         /\ Scale \in Nat
    <2>1. Scale \in Nat
      BY MoneyConstants
    <2>2. QED
      BY <1>3, <1>5, <2>1 DEF Cost
  <1>14. Cost(qNew, p) <= Cost(q, p) + Cost(o.qty, p)
    BY <1>8, <1>12, <1>13
  <1>15. /\ EquityAt(book, s, p) = book.cash * Scale + Cost(q, p)
         /\ EquityAt(book', s, p) = (book.cash - (o.notional + o.fee)) * Scale + Cost(qNew, p)
    BY <1>6 DEF EquityAt
  <1> DEFINE before == book.cash * Scale
             paid == o.notional * Scale
             fee == o.fee * Scale
             old == EquityAt(book, s, p)
             left == EquityAt(book', s, p)
             c == Cost(q, p)
             cNew == Cost(qNew, p)
             cOrder == Cost(o.qty, p)
             cExec == Cost(o.qty, o.exec)
  <1>16. (book.cash - (o.notional + o.fee)) * Scale = before - paid - fee
    BY <1>3, <1>4, <1>13
  <1>17. before \in Int /\ paid \in Int /\ fee \in Int /\ cNew \in Int
    BY <1>3, <1>4, <1>8, <1>12, <1>13
  <1>18. /\ old = before + c /\ left = before - paid - fee + cNew
         /\ cNew <= c + cOrder /\ cOrder <= cExec /\ 2 * cExec < 2 * paid + Scale
         /\ c \in Nat /\ cOrder \in Nat /\ cExec \in Nat /\ Scale \in Nat
    BY <1>10, <1>11, <1>13, <1>14, <1>15, <1>16
  <1> HIDE DEF before, paid, fee, old, left, c, cNew, cOrder, cExec
  <1>19. 2 * (fee - (old - left)) <= Scale
    BY <1>17, <1>18
  <1>20. QED
    BY <1>19 DEF fee, old, left

\* So does a sell, which takes cost out of the position at its average price.
LEMMA SellCostsTheFee ==
    ASSUME BrokerInv, NEW t \in Thread, Sell(t)
    PROVE  LET o == order[t]
               loss == EquityAt(book, o.symbol, o.price) - EquityAt(book', o.symbol, o.price)
           IN  2 * (o.fee * Scale - loss) <= Scale
  <1> DEFINE o == order[t]
             s == o.symbol
             p == o.price
             q == book.pos[s].qty
             sold == Smaller(o.qty, q)
             rest == [book.pos[s] EXCEPT !.qty = @ - sold]
             qNew == book'.pos[s].qty
  <1>1. book \in Account /\ stage[t] = "checked"
    BY DEF BrokerInv, TypeOK, Sell
  <1>2. Checked(o)
    BY <1>1 DEF BrokerInv, OrderReady
  <1>3. /\ s \in Symbol /\ o.fee \in Nat /\ o.qty \in Nat /\ o.exec \in Nat /\ p \in Nat
    BY <1>2, FeeWithin
  <1>4. book.pos \in [Symbol -> Position] /\ book.cash \in Int
    BY <1>1 DEF Account
  <1>5. q \in Nat /\ sold \in Nat /\ sold <= q
    BY <1>3, <1>4 DEF Position, Smaller
  <1>6. /\ book'.pos = [book.pos EXCEPT ![s] = Sold(Cleaned(rest, o.exec), o)]
        /\ book'.cash = book.cash + Amount(sold, o.exec) - o.fee
        /\ rest \in Position
    BY <1>1, <1>2, AfterSellTyped DEF Sell
  <1>7. rest.qty = q - sold
    BY <1>3, <1>4 DEF Position
  <1> HIDE DEF rest, sold
  <1>8. qNew \in {0, q - sold}
    <2>1. Cleaned(rest, o.exec) \in Position /\ Cleaned(rest, o.exec).qty \in {0, q - sold}
      BY <1>6, <1>7, CleanedTyped
    <2>2. Sold(Cleaned(rest, o.exec), o).qty \in {0, q - sold}
      BY <1>2, <2>1, SoldTyped
    <2>3. QED
      BY <1>3, <1>4, <1>6, <2>2
  <1>9. o.exec <= p
    <2>1. o.side = "sell" /\ o.price \in Price /\ o.exec = ExecutedPrice(o.side, o.price)
      BY <1>2 DEF Sell, Checked, Order
    <2>2. QED
      BY <2>1, ExecutedPriceBounds
  <1> DEFINE amount == Amount(sold, o.exec)
             before == book.cash * Scale
             earned == amount * Scale
             fee == o.fee * Scale
             old == EquityAt(book, s, p)
             left == EquityAt(book', s, p)
             c == Cost(q, p)
             cNew == Cost(qNew, p)
             cSold == Cost(sold, p)
             cExec == Cost(sold, o.exec)
  <1>10. Scale \in Nat
    BY MoneyConstants
  <1>11. amount \in Nat /\ 2 * earned <= 2 * cExec + Scale
    BY <1>3, <1>5, AmountNat, AmountBounds
  <1>12. /\ c \in Nat /\ cSold \in Nat /\ cExec \in Nat /\ cExec <= cSold
    BY <1>3, <1>5, <1>9 DEF Cost
  <1>13. cNew \in {0, c - cSold} /\ c - cSold \in Nat
    <2>1. Cost(0, p) = 0 /\ Cost(q - sold, p) = c - cSold
      BY <1>3, <1>5 DEF Cost
    <2>2. q - sold \in Nat
      BY <1>5
    <2>3. Cost(q - sold, p) \in Nat
      BY <1>3, <2>2 DEF Cost
    <2>4. QED
      BY <1>8, <2>1, <2>3
  <1>14. (book.cash + amount - o.fee) * Scale = before + earned - fee
    BY <1>3, <1>4, <1>10, <1>11
  <1>15. old = before + c /\ left = before + earned - fee + cNew
    BY <1>6, <1>14 DEF EquityAt
  <1>16. before \in Int /\ earned \in Int /\ fee \in Int
    BY <1>3, <1>4, <1>10, <1>11
  <1> HIDE DEF amount, before, earned, fee, old, left, c, cNew, cSold, cExec
  <1>17. 2 * (fee - (old - left)) <= Scale
    BY <1>10, <1>11, <1>12, <1>13, <1>15, <1>16
  <1>18. QED
    BY <1>17 DEF fee, old, left

\* What FillsCostTheFee says of one step.
FeePaid ==
    \A t \in Thread :
        LET o == order[t]
            loss == EquityAt(book, o.symbol, o.price) - EquityAt(book', o.symbol, o.price)
        IN  stage[t] = "checked" /\ stage'[t] = "filled" => 2 * (o.fee * Scale - loss) <= Scale

\* Every fill costs at least the fee.
LEMMA FeePaidStep ==
    ASSUME BrokerInv, [BrokerNext]_vars
    PROVE  FeePaid
  BY FillIsBuyOrSell, BuyCostsTheFee, SellCostsTheFee DEF FeePaid

\* Filling an order costs the account at least the fee, but for the rounding of
\* one amount, for all prices, sizes, slippages and fees.  One thread uses the
\* broker (SerialUse).
THEOREM BrokerFillsCostTheFee == Spec => FillsCostTheFee
  <1>1. Init => BrokerInv
    BY BrokerInvInit
  <1>2. BrokerInv /\ [Next]_vars => BrokerInv'
    BY BrokerInvStep, NextIsBrokerNext
  <1>3. BrokerInv /\ [Next]_vars => FeePaid
    BY FeePaidStep, NextIsBrokerNext
  <1>4. QED
    BY <1>1, <1>2, <1>3, PTL DEF Spec, FillsCostTheFee, FeePaid
-----------------------------------------------------------------------------
(***************************************************************************)
(* Trade logs.                                                             *)
(***************************************************************************)

\* A set of indices is finite.
LEMMA FiniteIndexSet ==
    ASSUME NEW n \in Nat, NEW I, I \subseteq 1 .. n
    PROVE  IsFiniteSet(I)
  <1>1. IsFiniteSet(1 .. n)
    BY FS_Interval
  <1>2. I \in SUBSET (1 .. n)
    OBVIOUS
  <1>3. QED
    BY <1>1, <1>2, FS_Subset

\* The buys of a symbol after one more order.
LEMMA BuysAppended ==
    ASSUME NEW b \in Account, NEW c \in Account, NEW f \in Fill, c.orders = Append(b.orders, f),
           NEW s \in Symbol
    PROVE  /\ IsFiniteSet(BuysOf(b, s)) /\ IsFiniteSet(BuysOf(c, s))
           /\ f.symbol = s /\ f.side = "buy"
                => Cardinality(BuysOf(c, s)) = Cardinality(BuysOf(b, s)) + 1
           /\ ~(f.symbol = s /\ f.side = "buy") => BuysOf(c, s) = BuysOf(b, s)
  <1> DEFINE n == Len(b.orders)
  <1>1. b.orders \in Seq(Fill) /\ n \in Nat
    BY DEF Account
  <1>2. /\ DOMAIN b.orders = 1 .. n /\ DOMAIN c.orders = 1 .. n + 1
        /\ \A i \in 1 .. n : c.orders[i] = b.orders[i]
        /\ c.orders[n + 1] = f
    BY <1>1
  <1>3. BuysOf(b, s) \subseteq 1 .. n /\ BuysOf(c, s) \subseteq 1 .. n + 1
    BY <1>2 DEF BuysOf
  <1>4. IsFiniteSet(BuysOf(b, s)) /\ IsFiniteSet(BuysOf(c, s))
    <2>1. n + 1 \in Nat
      BY <1>1
    <2>2. QED
      BY <1>1, <1>3, <2>1, FiniteIndexSet
  <1>5. n + 1 \notin BuysOf(b, s)
    BY <1>1, <1>3
  <1> HIDE DEF n
  <1>6. CASE f.symbol = s /\ f.side = "buy"
    <2>1. BuysOf(c, s) = BuysOf(b, s) \cup {n + 1}
      BY <1>1, <1>2, <1>6 DEF BuysOf
    <2>2. QED
      BY <1>4, <1>5, <1>6, <2>1, FS_AddElement
  <1>7. CASE ~(f.symbol = s /\ f.side = "buy")
    <2>1. BuysOf(c, s) = BuysOf(b, s)
      BY <1>1, <1>2, <1>7 DEF BuysOf
    <2>2. QED
      BY <1>4, <1>7, <2>1
  <1>8. QED
    BY <1>6, <1>7

\* The logs of a symbol after one more log, and after one is closed.
LEMMA LogsAppended ==
    ASSUME NEW l \in Ledger, NEW o \in Symbol, NEW s \in Symbol
    PROVE  /\ IsFiniteSet(LogsOf(l, s)) /\ Cardinality(LogsOf(l, s)) \in Nat
           /\ Cardinality(LogsOf(WithTradeLog(l, o), s))
                 = Cardinality(LogsOf(l, s)) + IF o = s THEN 1 ELSE 0
           /\ LogsOf(WithTradeLogClosed(l, o), s) = LogsOf(l, s)
  <1> DEFINE n == Len(l.logs)
             new == WithTradeLog(l, o)
  <1>1. l.logs \in Seq(Entry) /\ n \in Nat
    BY DEF Ledger
  <1>2. DOMAIN l.logs = 1 .. n
    BY <1>1
  <1>3. /\ DOMAIN new.logs = DOMAIN l.logs \cup {n + 1} /\ n + 1 \notin DOMAIN l.logs
        /\ \A k \in DOMAIN l.logs : new.logs[k].symbol = l.logs[k].symbol
        /\ new.logs[n + 1].symbol = o
    BY WithTradeLogTyped
  <1>4. IsFiniteSet(LogsOf(l, s)) /\ Cardinality(LogsOf(l, s)) \in Nat
    <2>1. LogsOf(l, s) \subseteq 1 .. n
      BY <1>2 DEF LogsOf
    <2>2. QED
      BY <1>1, <2>1, FiniteIndexSet, FS_CardinalityType
  <1>5. n + 1 \notin LogsOf(l, s)
    BY <1>3 DEF LogsOf
  <1> HIDE DEF n, new
  <1>6. LogsOf(new, s) = IF o = s THEN LogsOf(l, s) \cup {n + 1} ELSE LogsOf(l, s)
    BY <1>3 DEF LogsOf
  <1>7. Cardinality(LogsOf(new, s)) = Cardinality(LogsOf(l, s)) + IF o = s THEN 1 ELSE 0
    BY <1>4, <1>5, <1>6, FS_AddElement
  <1>8. LogsOf(WithTradeLogClosed(l, o), s) = LogsOf(l, s)
    BY WithTradeLogClosedTyped DEF LogsOf
  <1>9. QED
    BY <1>4, <1>7, <1>8 DEF new

\* A buy that the account has and whose log has still to be appended.
LogDue(s) ==
    \E t \in Thread : stage[t] = "filled" /\ order[t].side = "buy" /\ order[t].symbol = s

Due(s) == IF LogDue(s) THEN 1 ELSE 0

\* The logs on file, with those that could not be appended, are as many as the
\* buys of the account in memory, but for the one in hand, and as those of the
\* account on file, which a restart reloads.
BothLogged ==
    \A s \in Symbol :
        /\ Cardinality(BuysOf(book, s)) <= Cardinality(LogsOf(ledger, s)) + unlogged[s] + Due(s)
        /\ Cardinality(BuysOf(ledger.book, s)) <= Cardinality(LogsOf(ledger, s)) + unlogged[s]

\* A new account has no buys.
LEMMA NewAccountBuys ==
    ASSUME NEW s \in Symbol
    PROVE  Cardinality(BuysOf(NewAccount, s)) = 0
  <1>1. BuysOf(NewAccount, s) = {}
    BY DEF BuysOf, NewAccount
  <1>2. QED
    BY <1>1, FS_EmptySet

\* The number of buys is a number.
LEMMA BuysCount ==
    ASSUME NEW b \in Account, NEW s \in Symbol
    PROVE  Cardinality(BuysOf(b, s)) \in Nat
  <1>1. Len(b.orders) \in Nat /\ DOMAIN b.orders = 1 .. Len(b.orders)
    BY DEF Account
  <1>2. BuysOf(b, s) \subseteq 1 .. Len(b.orders)
    BY <1>1 DEF BuysOf
  <1>3. QED
    BY <1>1, <1>2, FiniteIndexSet, FS_CardinalityType

\* What an order adds to the buys of a symbol.
LEMMA FilledBuys ==
    ASSUME BrokerInv, NEW t \in Thread, Buy(t) \/ Sell(t) \/ SellRejectedLate(t), NEW s \in Symbol
    PROVE  /\ Buy(t) /\ order[t].symbol = s
                => Cardinality(BuysOf(book', s)) = Cardinality(BuysOf(book, s)) + 1
           /\ ~(Buy(t) /\ order[t].symbol = s) => BuysOf(book', s) = BuysOf(book, s)
  <1> DEFINE o == order[t]
             late == [o EXCEPT !.tp = FALSE]
             f == [symbol |-> o.symbol, side |-> o.side, tp |-> IF SellRejectedLate(t) THEN FALSE ELSE o.tp]
  <1>1. book \in Account /\ stage[t] = "checked"
    BY DEF BrokerInv, TypeOK, Buy, Sell, SellRejectedLate
  <1>2. Checked(o) /\ o \in Order /\ o.symbol \in Symbol /\ o.side \in {"buy", "sell"}
    BY <1>1, FeeWithin DEF BrokerInv, OrderReady, Checked
  <1>3. f \in Fill /\ f.symbol = o.symbol /\ f.side = o.side
    BY <1>2 DEF Order, Fill
  <1>4. /\ Buy(t) => o.side = "buy" /\ book' = AfterBuy(book, o)
        /\ Sell(t) => o.side = "sell" /\ book' = AfterSell(book, o)
        /\ SellRejectedLate(t) => o.side = "sell" /\ book' = WithOrder(book, late)
    BY DEF Buy, Sell, SellRejectedLate
  <1>5. late \in Order /\ late.symbol = o.symbol /\ late.side = o.side /\ late.tp = FALSE
    BY <1>2 DEF Order
  <1>6. SellRejectedLate(t) => ~Buy(t) /\ ~Sell(t)
    BY <1>4 DEF Sell, SellRejectedLate
  <1> HIDE DEF late
  <1>7. book' \in Account /\ book'.orders = Append(book.orders, f)
    <2>1. CASE Buy(t)
      BY <1>1, <1>2, <1>4, <1>6, <2>1, AfterBuyTyped
    <2>2. CASE Sell(t)
      <3>1. f = [symbol |-> o.symbol, side |-> o.side, tp |-> o.tp]
        BY <1>6, <2>2
      <3> HIDE DEF f
      <3>2. book' = AfterSell(book, o)
        BY <1>4, <2>2
      <3> HIDE DEF o
      <3>3. QED
        BY <1>1, <1>2, <3>1, <3>2, AfterSellTyped
    <2>3. CASE SellRejectedLate(t)
      <3>1. f = [symbol |-> late.symbol, side |-> late.side, tp |-> late.tp]
        BY <1>5, <2>3
      <3>2. QED
        BY <1>1, <1>4, <1>5, <2>3, <3>1, WithOrderTyped
    <2>4. QED
      BY <2>1, <2>2, <2>3
  <1> HIDE DEF f
  <1>8. Buy(t) <=> f.side = "buy"
    BY <1>2, <1>3, <1>4
  <1>9. QED
    BY <1>1, <1>3, <1>7, <1>8, BuysAppended

\* Nothing is bought and nothing is logged at the start.
LEMMA BothLoggedInit == Init => BothLogged
  <1> SUFFICES ASSUME Init, NEW s \in Symbol
               PROVE  /\ Cardinality(BuysOf(book, s)) <= Cardinality(LogsOf(ledger, s)) + unlogged[s] + Due(s)
                      /\ Cardinality(BuysOf(ledger.book, s)) <= Cardinality(LogsOf(ledger, s)) + unlogged[s]
    BY DEF BothLogged
  <1>1. book = NewAccount /\ ledger.book = NewAccount /\ unlogged[s] = 0 /\ ~LogDue(s)
    BY DEF Init, EmptyLedger, LogDue
  <1>2. LogsOf(ledger, s) = {}
    BY DEF Init, EmptyLedger, LogsOf
  <1>3. QED
    BY <1>1, <1>2, NewAccountBuys, FS_EmptySet DEF Due

\* A step that neither fills an order nor logs one keeps the buys and the logs,
\* or drops the buys.
LEMMA LoggedKept ==
    ASSUME BrokerInv, BothLogged, NEW s \in Symbol,
           BuysOf(book', s) \in {BuysOf(book, s), BuysOf(NewAccount, s), BuysOf(ledger.book, s)},
           BuysOf(ledger'.book, s) \in {BuysOf(ledger.book, s), BuysOf(book', s)},
           LogsOf(ledger', s) = LogsOf(ledger, s), unlogged' = unlogged,
           ~LogDue(s)
    PROVE  /\ Cardinality(BuysOf(book', s)) <= Cardinality(LogsOf(ledger', s)) + unlogged'[s] + Due(s)'
           /\ Cardinality(BuysOf(ledger'.book, s)) <= Cardinality(LogsOf(ledger', s)) + unlogged'[s]
  <1> DEFINE all == Cardinality(LogsOf(ledger, s)) + unlogged[s]
  <1>1. book \in Account /\ ledger \in Ledger /\ ledger.book \in Account /\ unlogged[s] \in Nat
    BY DEF BrokerInv, TypeOK, Ledger
  <1>2. all \in Nat
    BY <1>1, LogsAppended
  <1>3. Cardinality(BuysOf(book, s)) <= all /\ Cardinality(BuysOf(ledger.book, s)) <= all
    <2>1. Due(s) = 0 /\ Cardinality(BuysOf(book, s)) <= all + Due(s)
      BY DEF BothLogged, Due
    <2> HIDE DEF all
    <2>2. Cardinality(BuysOf(book, s)) <= all
      BY <1>2, <2>1
    <2>3. QED
      BY <2>2 DEF BothLogged, all
  <1>4. Cardinality(BuysOf(book', s)) <= all /\ Cardinality(BuysOf(book', s)) \in Nat
    <2>1. Cardinality(BuysOf(NewAccount, s)) = 0
      BY NewAccountBuys
    <2>2. Cardinality(BuysOf(book, s)) \in Nat /\ Cardinality(BuysOf(ledger.book, s)) \in Nat
      BY <1>1, BuysCount
    <2> HIDE DEF all
    <2>3. QED
      BY <1>2, <1>3, <2>1, <2>2
  <1>5. Cardinality(BuysOf(ledger'.book, s)) <= all
    BY <1>3, <1>4
  <1>6. Due(s)' \in {0, 1}
    BY DEF Due
  <1>7. Cardinality(LogsOf(ledger', s)) + unlogged'[s] = all
    OBVIOUS
  <1> HIDE DEF all
  <1>8. Cardinality(BuysOf(book', s)) <= all + Due(s)'
    BY <1>2, <1>4, <1>6
  <1>9. QED
    BY <1>5, <1>7, <1>8

\* No step persists a buy without its log.
LEMMA BothLoggedStep ==
    ASSUME BrokerInv, BothLogged, [BrokerNext]_vars
    PROVE  BothLogged'
  <1> DEFINE Goal(s) ==
          /\ Cardinality(BuysOf(book', s)) <= Cardinality(LogsOf(ledger', s)) + unlogged'[s] + Due(s)'
          /\ Cardinality(BuysOf(ledger'.book, s)) <= Cardinality(LogsOf(ledger', s)) + unlogged'[s]
  <1> SUFFICES ASSUME NEW s \in Symbol
               PROVE  Goal(s)
    BY DEF BothLogged
  <1>1. /\ book \in Account /\ ledger \in Ledger /\ ledger.book \in Account
        /\ stage \in [Thread -> Stage] /\ order \in [Thread -> Order \cup {NoOrder}]
        /\ unlogged \in [Symbol -> Nat] /\ unlogged[s] \in Nat
    BY DEF BrokerInv, TypeOK, Ledger
  <1>2. book' \in Account /\ ledger' \in Ledger
    BY BrokerInvStep DEF BrokerInv, TypeOK
  <1>3. /\ Cardinality(BuysOf(book, s)) <= Cardinality(LogsOf(ledger, s)) + unlogged[s] + Due(s)
        /\ Cardinality(BuysOf(ledger.book, s)) <= Cardinality(LogsOf(ledger, s)) + unlogged[s]
    BY DEF BothLogged
  <1>4. /\ Cardinality(LogsOf(ledger, s)) \in Nat /\ Cardinality(BuysOf(book, s)) \in Nat
        /\ Cardinality(BuysOf(ledger.book, s)) \in Nat
    BY <1>1, LogsAppended, BuysCount
  <1>5. ASSUME NEW t \in Thread
        PROVE  /\ LogDue(s) <=> stage[t] = "filled" /\ order[t].side = "buy" /\ order[t].symbol = s
               /\ LogDue(s)' <=> stage'[t] = "filled" /\ order'[t].side = "buy" /\ order'[t].symbol = s
    BY SerialUse DEF LogDue
  <1>6. ASSUME NEW t \in Thread, Buy(t) \/ Sell(t) PROVE Goal(s)
    <2>1. /\ stage[t] = "checked" /\ stage'[t] = "filled"
          /\ order' = order /\ ledger' = ledger /\ unlogged' = unlogged
          /\ Buy(t) <=> order[t].side = "buy"
      BY <1>1, <1>6 DEF Buy, Sell
    <2>2. CASE Buy(t) /\ order[t].symbol = s
      <3>1. Due(s) = 0 /\ Due(s)' = 1
        BY <1>5, <2>1, <2>2 DEF Due
      <3>2. Cardinality(BuysOf(book', s)) = Cardinality(BuysOf(book, s)) + 1
        BY <1>6, <2>2, FilledBuys
      <3>3. QED
        BY <1>1, <1>3, <1>4, <2>1, <3>1, <3>2
    <2>3. CASE ~(Buy(t) /\ order[t].symbol = s)
      <3>1. ~LogDue(s) /\ BuysOf(book', s) = BuysOf(book, s)
        BY <1>5, <1>6, <2>1, <2>3, FilledBuys
      <3>2. QED
        BY <2>1, <3>1, LoggedKept
    <2>4. QED
      BY <2>2, <2>3
  <1>7. ASSUME NEW t \in Thread, SellRejectedLate(t) PROVE Goal(s)
    <2>1. stage[t] = "checked" /\ ledger' = ledger /\ unlogged' = unlogged /\ ~Buy(t)
      BY <1>7 DEF SellRejectedLate, Buy
    <2>2. ~LogDue(s) /\ BuysOf(book', s) = BuysOf(book, s)
      BY <1>5, <1>7, <2>1, FilledBuys
    <2>3. QED
      BY <2>1, <2>2, LoggedKept
  <1>8. ASSUME NEW t \in Thread, LogTrade(t) \/ LogTradeRaises(t) PROVE Goal(s)
    <2> DEFINE o == order[t]
    <2>1. stage[t] = "filled" /\ book' = book /\ stage'[t] # "filled"
      BY <1>1, <1>8 DEF LogTrade, LogTradeRaises, EndSubmit
    <2>2. o.symbol \in Symbol /\ o.side \in {"buy", "sell"}
      BY <2>1, FeeWithin DEF BrokerInv, OrderReady, Checked, Order
    <2>3. Due(s) = (IF o.side = "buy" /\ o.symbol = s THEN 1 ELSE 0) /\ Due(s)' = 0
      BY <1>5, <2>1 DEF Due
    <2>4. /\ WithTrade(ledger, o).book = ledger.book
          /\ Cardinality(LogsOf(WithTrade(ledger, o), s)) = Cardinality(LogsOf(ledger, s)) + Due(s)
      <3>1. CASE o.side = "buy"
        <4>1. WithTrade(ledger, o) = WithTradeLog(ledger, o.symbol)
          BY <3>1 DEF WithTrade
        <4>2. WithTradeLog(ledger, o.symbol).book = ledger.book
          BY <1>1, <2>2, WithTradeLogTyped
        <4>3. Cardinality(LogsOf(WithTradeLog(ledger, o.symbol), s))
                 = Cardinality(LogsOf(ledger, s)) + IF o.symbol = s THEN 1 ELSE 0
          BY <1>1, <2>2, LogsAppended
        <4>4. QED
          BY <2>3, <3>1, <4>1, <4>2, <4>3
      <3>2. CASE o.side # "buy"
        <4>1. WithTrade(ledger, o) = WithTradeLogClosed(ledger, o.symbol)
          BY <3>2 DEF WithTrade
        <4>2. WithTradeLogClosed(ledger, o.symbol).book = ledger.book
          BY <1>1, <2>2, WithTradeLogClosedTyped
        <4>3. LogsOf(WithTradeLogClosed(ledger, o.symbol), s) = LogsOf(ledger, s)
          BY <1>1, <2>2, LogsAppended
        <4>4. QED
          BY <1>4, <2>3, <3>2, <4>1, <4>2, <4>3
      <3>3. QED
        BY <3>1, <3>2
    <2>5. CASE ledger' = WithTrade(ledger, o) /\ unlogged' = unlogged
      BY <1>1, <1>3, <1>4, <2>1, <2>3, <2>4, <2>5
    <2>6. CASE /\ ledger' = ledger
               /\ unlogged' = [unlogged EXCEPT ![o.symbol] = IF o.side = "buy" THEN @ + 1 ELSE @]
      <3>1. unlogged'[s] = unlogged[s] + Due(s)
        BY <1>1, <2>2, <2>3, <2>6
      <3>2. QED
        BY <1>1, <1>3, <1>4, <2>1, <2>3, <2>6, <3>1
    <2>7. QED
      BY <1>8, <2>5, <2>6 DEF LogTrade, LogTradeRaises
  \* The file gets the account that memory has, or keeps its own; the logs stay.
  <1>9. ASSUME NEW t \in Thread, Persist(t) \/ EditAccount(t) \/ \E r \in AnyRequest : TpRequest(r) /\ Check(t, r)
        PROVE  Goal(s)
    <2>1. stage[t] # "filled" /\ unlogged' = unlogged /\ ~Buy(t) /\ ~Sell(t) /\ ~SellRejectedLate(t)
      BY <1>9, EditStep DEF Persist, Check, Buy, Sell, SellRejectedLate
    <2>2. BrokerStep(t)
      BY <1>9 DEF BrokerStep, FillStep
    <2>3. book'.orders = book.orders \/ book' = NewAccount
      BY <2>1, <2>2, UnfilledOrders
    <2>4. BuysOf(book', s) \in {BuysOf(book, s), BuysOf(NewAccount, s)}
      BY <2>3 DEF BuysOf
    <2>5. ledger'.book \in {ledger.book, book'}
      BY <2>2, LedgerBook
    <2>6. ledger' \in {ledger, WithBook(ledger, book')}
      BY <1>9, EditStep DEF Persist, Save, Check
    <2>7. LogsOf(ledger', s) = LogsOf(ledger, s)
      BY <1>1, <1>2, <2>6, WithBookTyped DEF LogsOf
    <2>8. QED
      BY <1>5, <2>1, <2>4, <2>5, <2>7, LoggedKept
  <1>10. CASE Crash
    <2>1. /\ book'.orders = ledger.book.orders /\ ledger' = ledger /\ unlogged' = unlogged
          /\ \A t \in Thread : stage'[t] = "idle"
      BY <1>10, CrashStep
    <2>2. BuysOf(book', s) = BuysOf(ledger.book, s) /\ Due(s)' = 0
      BY <2>1 DEF BuysOf, Due, LogDue
    <2>3. QED
      BY <1>1, <1>3, <1>4, <2>1, <2>2
  <1>11. CASE UNCHANGED vars
    <2>1. Due(s)' = Due(s)
      BY <1>11 DEF vars, Due, LogDue
    <2>2. QED
      BY <1>3, <1>11, <2>1 DEF vars
  <1>12. QED
    BY <1>6, <1>7, <1>8, <1>9, <1>10, <1>11 DEF BrokerNext, BrokerStep, FillStep

\* Each buy of the persisted account has its trade log on file, unless its
\* append has raised: the log comes before the account, and no later save of the
\* broker takes a log away.  One thread uses the broker (SerialUse), through any
\* number of deaths of the process and of file operations that raise.
THEOREM BrokerEveryBuyLogged == Spec => []EveryBuyLogged
  <1>1. Init => BrokerInv /\ BothLogged
    BY BrokerInvInit, BothLoggedInit
  <1>2. BrokerInv /\ BothLogged /\ [Next]_vars => (BrokerInv /\ BothLogged)'
    BY BrokerInvStep, BothLoggedStep, NextIsBrokerNext
  <1>3. BothLogged => EveryBuyLogged
    BY DEF BothLogged, EveryBuyLogged
  <1>4. QED
    BY <1>1, <1>2, <1>3, PTL DEF Spec
-----------------------------------------------------------------------------
(***************************************************************************)
(* Spent targets.                                                          *)
(***************************************************************************)

\* What SpentTargetsWereSold says of one account.
SpentFits(b) == \A s \in Symbol : b.pos[s].tp1Done <=> \E i \in DOMAIN b.orders : SpentAt(b, s, i)

\* It depends on the orders and on the spent targets only.
LEMMA SpentFitsKept ==
    ASSUME NEW b, NEW c, SpentFits(b), c.orders = b.orders,
           \A s \in Symbol : c.pos[s].tp1Done = b.pos[s].tp1Done
    PROVE  SpentFits(c)
  BY DEF SpentFits, SpentAt, BuysOf

\* A new account has sold nothing and spent nothing.
LEMMA NewAccountFits == SpentFits(NewAccount)
  <1>1. DOMAIN NewAccount.orders = {}
    BY DEF NewAccount
  <1>2. \A s \in Symbol : ~NewAccount.pos[s].tp1Done
    BY DEF NewAccount, NoPosition
  <1>3. QED
    BY <1>1, <1>2 DEF SpentFits

\* One more order keeps it, when a buy arms the target of its symbol and a sell
\* at the target spends it.
LEMMA SpentFitsAppended ==
    ASSUME NEW b \in Account, NEW c \in Account, NEW f \in Fill, SpentFits(b),
           c.orders = Append(b.orders, f), f.tp => f.side = "sell",
           \A s \in Symbol : s # f.symbol => c.pos[s].tp1Done = b.pos[s].tp1Done,
           f.side = "buy" => ~c.pos[f.symbol].tp1Done,
           f.side # "buy" => (c.pos[f.symbol].tp1Done <=> b.pos[f.symbol].tp1Done \/ f.tp)
    PROVE  SpentFits(c)
  <1> DEFINE n == Len(b.orders)
  <1>1. b.orders \in Seq(Fill) /\ n \in Nat
    BY DEF Account
  <1>2. /\ DOMAIN b.orders = 1 .. n /\ DOMAIN c.orders = 1 .. n + 1
        /\ \A i \in 1 .. n : c.orders[i] = b.orders[i]
        /\ c.orders[n + 1] = f
    BY <1>1
  <1> HIDE DEF n
  <1> SUFFICES ASSUME NEW s \in Symbol
               PROVE  c.pos[s].tp1Done <=> \E i \in DOMAIN c.orders : SpentAt(c, s, i)
    BY DEF SpentFits
  <1>3. b.pos[s].tp1Done <=> \E i \in DOMAIN b.orders : SpentAt(b, s, i)
    BY DEF SpentFits
  <1>4. BuysOf(b, s) \subseteq 1 .. n
    BY <1>2 DEF BuysOf
  <1>5. CASE f.symbol = s /\ f.side = "buy"
    <2>1. n + 1 \in BuysOf(c, s)
      BY <1>1, <1>2, <1>5 DEF BuysOf
    <2>2. ASSUME NEW i \in DOMAIN c.orders, SpentAt(c, s, i)
          PROVE  FALSE
      <3>1. n + 1 \in 1 .. i /\ i \in 1 .. n + 1
        BY <1>2, <2>1, <2>2 DEF SpentAt
      <3>2. i = n + 1
        BY <1>1, <3>1
      <3>3. f.tp
        BY <1>2, <2>2, <3>2 DEF SpentAt
      <3>4. QED
        BY <1>5, <3>3
    <2>3. QED
      BY <1>5, <2>2
  <1>6. CASE ~(f.symbol = s /\ f.side = "buy")
    <2>1. BuysOf(c, s) = BuysOf(b, s)
      BY <1>1, <1>2, <1>6 DEF BuysOf
    <2>2. \A i \in 1 .. n : SpentAt(c, s, i) <=> SpentAt(b, s, i)
      BY <1>2, <2>1 DEF SpentAt
    <2>3. 1 .. n \subseteq 1 .. n + 1
      BY <1>1
    <2>4. SpentAt(c, s, n + 1) <=> f.symbol = s /\ f.tp
      BY <1>2, <1>4, <2>1, <2>3 DEF SpentAt
    <2>5. \A i : i \in 1 .. n + 1 <=> i \in 1 .. n \/ i = n + 1
      BY <1>1
    <2>6. (\E i \in DOMAIN c.orders : SpentAt(c, s, i)) <=> b.pos[s].tp1Done \/ (f.symbol = s /\ f.tp)
      BY <1>2, <1>3, <2>2, <2>4, <2>5
    <2>7. f.symbol \in Symbol
      BY DEF Fill
    <2>8. c.pos[s].tp1Done <=> b.pos[s].tp1Done \/ (f.symbol = s /\ f.tp)
      BY <1>6, <2>7
    <2>9. QED
      BY <2>6, <2>8
  <1>7. QED
    BY <1>5, <1>6

\* The account in memory and the one on file, which a restart reloads.
SpentInv ==
    /\ UnusedTargetUnspent
    /\ SpentFits(book) /\ SpentFits(ledger.book)

\* Nothing is sold at the start.
LEMMA SpentInvInit == Init => SpentInv
  <1>1. Init => book = NewAccount /\ ledger.book = NewAccount
    BY DEF Init, EmptyLedger
  <1>2. QED
    BY <1>1, UnusedTargetInit, NewAccountFits DEF SpentInv

\* The fills, and the orders that the broker refuses late.
LEMMA FilledFits ==
    ASSUME BrokerInv, SpentInv, NEW t \in Thread, Buy(t) \/ Sell(t) \/ SellRejectedLate(t)
    PROVE  SpentFits(book')
  <1> DEFINE o == order[t]
             f == [symbol |-> o.symbol, side |-> o.side, tp |-> o.tp]
             late == [o EXCEPT !.tp = FALSE]
             g == [symbol |-> o.symbol, side |-> o.side, tp |-> FALSE]
  <1>1. book \in Account /\ SpentFits(book) /\ stage[t] = "checked"
    BY DEF BrokerInv, TypeOK, SpentInv, Buy, Sell, SellRejectedLate
  <1>2. Checked(o)
    BY <1>1 DEF BrokerInv, OrderReady
  <1>3. /\ o \in Order /\ o.symbol \in Symbol /\ o.side \in {"buy", "sell"} /\ o.tp \in BOOLEAN
        /\ o.tp => o.side = "sell"
    BY <1>2, FeeWithin DEF Checked
  <1>4. f \in Fill /\ g \in Fill
    BY <1>3 DEF Fill
  <1>5. CASE Buy(t)
    <2>1. book' \in Account /\ book'.orders = Append(book.orders, f) /\ o.side = "buy"
      BY <1>1, <1>2, <1>5, AfterBuyTyped DEF Buy
    <2>2. /\ \A s \in Symbol : s # o.symbol => book'.pos[s] = book.pos[s]
          /\ TpEnabled => ~book'.pos[o.symbol].tp1Done
          /\ ~TpEnabled => book'.pos[o.symbol].tp1Done = book.pos[o.symbol].tp1Done
      BY <1>5, FilledPositions
    <2>3. ~book'.pos[o.symbol].tp1Done
      BY <1>3, <2>2 DEF SpentInv, UnusedTargetUnspent
    <2>4. f.symbol = o.symbol /\ f.side = "buy" /\ ~f.tp
      BY <1>3, <2>1
    <2> HIDE DEF o, f
    <2>5. QED
      BY <1>1, <1>4, <2>1, <2>2, <2>3, <2>4, SpentFitsAppended
  <1>6. CASE Sell(t)
    <2>1. book' \in Account /\ book'.orders = Append(book.orders, f) /\ o.side = "sell"
      BY <1>1, <1>2, <1>6, AfterSellTyped DEF Sell
    <2>2. /\ \A s \in Symbol : s # o.symbol => book'.pos[s] = book.pos[s]
          /\ book'.pos[o.symbol].tp1Done <=> book.pos[o.symbol].tp1Done \/ o.tp
      BY <1>6, FilledPositions
    <2>3. f.symbol = o.symbol /\ f.side = "sell" /\ f.tp = o.tp
      BY <2>1
    <2> HIDE DEF o, f
    <2>4. QED
      BY <1>1, <1>4, <2>1, <2>2, <2>3, SpentFitsAppended
  <1>7. CASE SellRejectedLate(t)
    <2>1. late \in Order /\ late.symbol = o.symbol /\ late.side = o.side /\ late.tp = FALSE
      BY <1>3 DEF Order
    <2>2. book' = WithOrder(book, late) /\ o.side = "sell"
      BY <1>7 DEF SellRejectedLate
    <2> HIDE DEF late
    <2>3. g = [symbol |-> late.symbol, side |-> late.side, tp |-> late.tp]
      BY <2>1
    <2>4. book' \in Account /\ book'.orders = Append(book.orders, g) /\ book'.pos = book.pos
      BY <1>1, <2>1, <2>2, <2>3, WithOrderTyped
    <2>5. g.symbol = o.symbol /\ g.side = "sell" /\ ~g.tp
      BY <2>2
    <2>6. book'.pos[o.symbol].tp1Done <=> book.pos[o.symbol].tp1Done \/ g.tp
      BY <2>4, <2>5
    <2> HIDE DEF g, o
    <2>7. QED
      BY <1>1, <1>4, <2>4, <2>5, <2>6, SpentFitsAppended
  <1>8. QED
    BY <1>5, <1>6, <1>7

\* No step spends a target or arms it again but by an order of the account.
LEMMA SpentInvStep ==
    ASSUME BrokerInv, SpentInv, [BrokerNext]_vars
    PROVE  SpentInv'
  <1>1. UnusedTargetUnspent'
    BY UnusedTargetStep DEF SpentInv
  <1>2. ASSUME NEW t \in Thread, BrokerStep(t) PROVE SpentInv'
    <2>1. SpentFits(book')
      <3>1. CASE Buy(t) \/ Sell(t) \/ SellRejectedLate(t)
        BY <3>1, FilledFits
      <3>2. CASE book' = NewAccount
        BY <3>2, NewAccountFits
      <3>3. CASE ~(Buy(t) \/ Sell(t) \/ SellRejectedLate(t)) /\ book' # NewAccount
        <4>1. book'.orders = book.orders
          BY <1>2, <3>3, UnfilledOrders
        <4>2. \A s \in Symbol : book'.pos[s].tp1Done = book.pos[s].tp1Done
          BY <1>2, <3>3, OtherPositions
        <4>3. QED
          BY <4>1, <4>2, SpentFitsKept DEF SpentInv
      <3>4. QED
        BY <3>1, <3>2, <3>3
    <2>2. SpentFits(ledger'.book)
      BY <1>2, <2>1, LedgerBook DEF SpentInv
    <2>3. QED
      BY <1>1, <2>1, <2>2 DEF SpentInv, SpentFits, SpentAt, BuysOf
  <1>3. CASE Crash
    <2>1. book'.pos = ledger.book.pos /\ book'.orders = ledger.book.orders /\ ledger' = ledger
      BY <1>3, CrashStep
    <2>2. SpentFits(book')
      BY <2>1, SpentFitsKept DEF SpentInv
    <2>3. QED
      BY <1>1, <2>1, <2>2 DEF SpentInv, SpentFits, SpentAt, BuysOf
  <1>4. CASE UNCHANGED vars
    BY <1>1, <1>4 DEF vars, SpentInv, SpentFits, SpentAt, BuysOf
  <1>5. QED
    BY <1>2, <1>3, <1>4 DEF BrokerNext

\* The target of a position counts as spent exactly when the orders show a sell
\* at the target and no buy since, in memory and on file: whatever late
\* rejections, dust, syncs, failed saves and restarts come between.  One thread
\* uses the broker (SerialUse).
THEOREM BrokerSpentTargetsWereSold == Spec => []SpentTargetsWereSold
  <1>1. Init => BrokerInv /\ SpentInv
    BY BrokerInvInit, SpentInvInit
  <1>2. BrokerInv /\ SpentInv /\ [Next]_vars => (BrokerInv /\ SpentInv)'
    BY BrokerInvStep, SpentInvStep, NextIsBrokerNext
  <1>3. SpentInv => SpentTargetsWereSold
    BY DEF SpentInv, SpentFits, SpentTargetsWereSold
  <1>4. QED
    BY <1>1, <1>2, <1>3, PTL DEF Spec
-----------------------------------------------------------------------------
(***************************************************************************)
(* The books balance.                                                      *)
(***************************************************************************)

\* The cost of each position.
Costs(b) == [s \in Symbol |-> Cost(b.pos[s].qty, b.pos[s].avg)]

\* They are costs.
LEMMA CostsTyped ==
    ASSUME NEW b \in Account
    PROVE  /\ Costs(b) \in [Symbol -> Int]
           /\ \A s \in Symbol : /\ b.pos[s].qty \in Nat /\ b.pos[s].avg \in Nat
                                /\ Costs(b)[s] = Cost(b.pos[s].qty, b.pos[s].avg)
  <1>1. \A s \in Symbol : b.pos[s].qty \in Nat /\ b.pos[s].avg \in Nat
    <2>1. b.pos \in [Symbol -> Position]
      BY DEF Account
    <2>2. QED
      BY <2>1 DEF Position
  <1>2. \A s \in Symbol : Cost(b.pos[s].qty, b.pos[s].avg) \in Int
    <2> SUFFICES ASSUME NEW s \in Symbol PROVE Cost(b.pos[s].qty, b.pos[s].avg) \in Int
      OBVIOUS
    <2>1. Cost(b.pos[s].qty, b.pos[s].avg) \in Nat
      BY <1>1, AmountNat
    <2>2. QED
      BY <2>1
  <1>3. Costs(b) \in [Symbol -> Int]
    BY <1>2 DEF Costs
  <1>4. \A s \in Symbol : Costs(b)[s] = Cost(b.pos[s].qty, b.pos[s].avg)
    BY DEF Costs
  <1>5. QED
    BY <1>1, <1>3, <1>4

\* The fold over the symbols adds up their costs.
LEMMA HeldIsSum ==
    ASSUME NEW b \in Account
    PROVE  \E g : IsSum(g, Costs(b), Symbol) /\ Held(b) = g[Symbol]
  <1> DEFINE F(g) == [T \in SUBSET Symbol |->
                        IF T = {} THEN 0
                        ELSE Cost(b.pos[Chosen(T)].qty, b.pos[Chosen(T)].avg) + g[T \ {Chosen(T)}]]
             G == CHOOSE g : g = F(g)
  <1>1. \A T \in SUBSET Symbol : T # {} => Chosen(T) \in Symbol
    BY DEF Chosen
  <1>2. ASSUME NEW g PROVE IsSum(g, Costs(b), Symbol) <=> g = F(g)
    <2>1. \A T \in SUBSET Symbol :
             T # {} => Costs(b)[Chosen(T)] = Cost(b.pos[Chosen(T)].qty, b.pos[Chosen(T)].avg)
      BY <1>1 DEF Costs
    <2>2. F(g) = AddOne(g, Costs(b), Symbol)
      BY <2>1 DEF AddOne
    <2>3. QED
      BY <2>2 DEF IsSum
  <1>3. PICK f : IsSum(f, Costs(b), Symbol)
    BY CostsTyped, SetSumExists, BrokerAssumption
  <1>4. f = F(f)
    BY <1>2, <1>3
  <1>5. Held(b) = G[Symbol]
    BY DEF Held, FoldSet, MapThenFoldSet, Chosen
  <1> HIDE DEF F
  <1>6. G = F(G)
    BY <1>4
  <1> HIDE DEF G
  <1>7. QED
    BY <1>2, <1>5, <1>6

\* What one position costs more or less, all of them cost more or less.
LEMMA HeldChange ==
    ASSUME NEW b \in Account, NEW c \in Account, NEW s,
           \A u \in Symbol \ {s} : c.pos[u].qty = b.pos[u].qty /\ c.pos[u].avg = b.pos[u].avg
    PROVE  /\ Held(b) \in Int /\ Held(c) \in Int
           /\ s \in Symbol => Held(c) = Held(b) + (Costs(c)[s] - Costs(b)[s])
           /\ s \notin Symbol => Held(c) = Held(b)
  <1>1. PICK f : IsSum(f, Costs(b), Symbol) /\ Held(b) = f[Symbol]
    BY HeldIsSum
  <1>2. PICK g : IsSum(g, Costs(c), Symbol) /\ Held(c) = g[Symbol]
    BY HeldIsSum
  <1>3. \A u \in Symbol \ {s} : Costs(c)[u] = Costs(b)[u]
    BY CostsTyped
  <1>4. Costs(b) \in [Symbol -> Int] /\ Costs(c) \in [Symbol -> Int] /\ IsFiniteSet(Symbol)
    BY CostsTyped, BrokerAssumption
  <1>5. QED
    BY ONLY <1>1, <1>2, <1>3, <1>4, SetSumChange

\* A new account holds nothing.
LEMMA HeldByNew == Held(NewAccount) = 0
  <1>1. NewAccount \in Account
    BY NewAccountTyped
  <1>2. PICK g : IsSum(g, Costs(NewAccount), Symbol) /\ Held(NewAccount) = g[Symbol]
    BY <1>1, HeldIsSum
  <1>3. \A s \in Symbol : Costs(NewAccount)[s] = 0
    BY DEF Costs, Cost, NewAccount, NoPosition
  <1>4. QED
    BY <1>2, <1>3, SetSumZero, BrokerAssumption

\* The greatest of a finite set of natural numbers, or 0.
LEMMA LargestNat ==
    ASSUME NEW S, S \subseteq Nat, IsFiniteSet(S)
    PROVE  Largest(S) \in Nat /\ \A n \in S : n <= Largest(S)
  <1> DEFINE T == S \cup {0}
  <1>1. T \subseteq Nat /\ T # {} /\ IsFiniteSet(T)
    BY FS_AddElement
  <1>2. \E m \in T : \A n \in T : m >= n
    BY <1>1, GreatestOfFinite
  <1>3. Max(T) \in T /\ \A n \in T : Max(T) >= n
    BY <1>2 DEF Max
  <1>4. Max(T) \in Nat /\ \A n \in S : n \in Nat /\ n <= Max(T)
    BY <1>1, <1>3
  <1>5. QED
    BY <1>4 DEF Largest

\* The largest order and the largest quantity that the exchange reports.
Reported == {h.qty : h \in Holding}

LEMMA LargestInputs ==
    /\ Largest(Size) \in Nat /\ \A n \in Size : n <= Largest(Size)
    /\ Largest(Reported) \in Nat /\ \A h \in Holding : h.qty <= Largest(Reported)
  <1>1. Size \subseteq Nat /\ IsFiniteSet(Size)
    BY BrokerAssumption
  <1>2. Reported \subseteq Nat
    BY BrokerConstants DEF Reported
  <1>3. IsFiniteSet(Reported)
    <2> DEFINE q == [h \in Holding |-> h.qty]
    <2>1. q \in [Holding -> Reported] /\ \A r \in Reported : \E h \in Holding : q[h] = r
      BY DEF Reported
    <2>2. q \in Surjection(Holding, Reported)
      BY <2>1 DEF Surjection
    <2>3. QED
      BY <2>2, FS_Surjection, BrokerAssumption
  <1>4. \A h \in Holding : h.qty \in Reported
    BY DEF Reported
  <1>5. QED
    BY <1>1, <1>2, <1>3, <1>4, LargestNat

\* What an account may be off, and what each further order allows.
LEMMA AllowanceGrows ==
    ASSUME NEW b \in Account, NEW c \in Account
    PROVE  /\ LargestPosition(b) \in Nat /\ RoundingAllowed(b) \in Nat
           /\ Largest(Reported) <= LargestPosition(b)
           /\ Len(c.orders) = Len(b.orders) =>
                /\ LargestPosition(c) = LargestPosition(b)
                /\ RoundingAllowed(c) = RoundingAllowed(b)
           /\ Len(c.orders) = Len(b.orders) + 1 =>
                /\ LargestPosition(c) = LargestPosition(b) + Largest(Size)
                /\ RoundingAllowed(b) + (Scale + LargestPosition(c) \div 2) <= RoundingAllowed(c)
  <1> DEFINE n == Len(b.orders)
             L == Largest(Size)
             H == Largest(Reported)
             p == n * L + H
             q == (n + 1) * L + H
             x == p \div 2
             y == q \div 2
  <1>1. n \in Nat /\ L \in Nat /\ H \in Nat /\ Scale \in Nat
    BY LargestInputs, MoneyConstants DEF Account
  <1>2. LargestPosition(b) = p /\ RoundingAllowed(b) = n * (Scale + x)
    BY DEF LargestPosition, RoundingAllowed, Reported
  <1>3. Len(c.orders) = n => LargestPosition(c) = p /\ RoundingAllowed(c) = n * (Scale + x)
    BY DEF LargestPosition, RoundingAllowed, Reported
  <1>4. Len(c.orders) = n + 1 => LargestPosition(c) = q /\ RoundingAllowed(c) = (n + 1) * (Scale + y)
    BY DEF LargestPosition, RoundingAllowed, Reported
  <1> HIDE DEF n, L, H
  <1>5. p \in Nat /\ q \in Nat /\ H <= p /\ p <= q /\ q = p + L
    BY <1>1
  <1> HIDE DEF p, q
  <1>6. x \in Nat /\ y \in Nat /\ x <= y
    BY <1>5, DivNat, DivMonotone
  <1> HIDE DEF x, y
  <1>7. n * (Scale + x) \in Nat
    BY <1>1, <1>6
  <1>8. n * (Scale + x) + (Scale + y) <= (n + 1) * (Scale + y)
    <2>1. (n + 1) * (Scale + y) = n * (Scale + y) + (Scale + y)
      BY <1>1, <1>6
    <2>2. n * (Scale + x) <= n * (Scale + y)
      BY <1>1, <1>6
    <2>3. n * (Scale + x) \in Int /\ n * (Scale + y) \in Int
      BY <1>1, <1>6
    <2>4. QED
      BY <1>1, <1>6, <2>1, <2>2, <2>3
  <1>9. QED
    BY <1>2, <1>3, <1>4, <1>5, <1>7, <1>8 DEF n, L, H, y

\* No position is larger than the orders and the reports account for, and the
\* books are off by no more than the roundings.
Balanced(b) ==
    /\ \A s \in Symbol : b.pos[s].qty <= LargestPosition(b)
    /\ Imbalance(b) \in -RoundingAllowed(b) .. RoundingAllowed(b)

\* What a change of the account adds to the imbalance, at one symbol.
Moved(b, c, s) ==
    ((c.cash - b.cash) - (c.realized - b.realized)) * Scale
        + (Costs(c)[s] - Costs(b)[s]) + (c.dropped - b.dropped)

\* Only one symbol has changed in quantity or average price.
ChangedAt(b, c, s) ==
    \A u \in Symbol \ {s} : c.pos[u].qty = b.pos[u].qty /\ c.pos[u].avg = b.pos[u].avg

\* The imbalance changes by what is moved.
LEMMA ImbalanceChange ==
    ASSUME NEW b \in Account, NEW c \in Account, NEW s \in Symbol, ChangedAt(b, c, s)
    PROVE  /\ Imbalance(b) \in Int /\ Moved(b, c, s) \in Int
           /\ Imbalance(c) = Imbalance(b) + Moved(b, c, s)
  <1>1. /\ b.cash \in Int /\ b.realized \in Int /\ b.dropped \in Int
        /\ c.cash \in Int /\ c.realized \in Int /\ c.dropped \in Int
        /\ StartingCash \in Int /\ Scale \in Int
    BY BrokerConstants, MoneyConstants DEF Account
  <1>2. /\ Held(b) \in Int /\ Held(c) \in Int
        /\ Held(c) = Held(b) + (Costs(c)[s] - Costs(b)[s])
    BY HeldChange DEF ChangedAt
  <1>3. Costs(b)[s] \in Int /\ Costs(c)[s] \in Int
    BY CostsTyped
  <1>4. ASSUME NEW x \in Int, NEW y \in Int, NEW u \in Int, NEW v \in Int, NEW k \in Int
        PROVE  (y - k - v) * Scale = (x - k - u) * Scale + ((y - x) - (v - u)) * Scale
    BY <1>1
  <1>5. (c.cash - StartingCash - c.realized) * Scale
           = (b.cash - StartingCash - b.realized) * Scale
                + ((c.cash - b.cash) - (c.realized - b.realized)) * Scale
    BY <1>1, <1>4
  <1> DEFINE old == (b.cash - StartingCash - b.realized) * Scale
             new == (c.cash - StartingCash - c.realized) * Scale
             d == ((c.cash - b.cash) - (c.realized - b.realized)) * Scale
  <1>6. old \in Int /\ new \in Int /\ d \in Int /\ new = old + d
    BY <1>1, <1>5
  <1>7. /\ Imbalance(b) = old + Held(b) + b.dropped /\ Imbalance(c) = new + Held(c) + c.dropped
        /\ Moved(b, c, s) = d + (Costs(c)[s] - Costs(b)[s]) + (c.dropped - b.dropped)
    BY DEF Imbalance, Moved
  <1> HIDE DEF old, new, d
  <1>8. QED
    BY <1>1, <1>2, <1>3, <1>6, <1>7

\* An order moves no more than its roundings.
LEMMA OrderBalanced ==
    ASSUME NEW b \in Account, NEW c \in Account, NEW s \in Symbol, ChangedAt(b, c, s), Balanced(b),
           Len(c.orders) = Len(b.orders) + 1, c.pos[s].qty <= LargestPosition(c),
           2 * Moved(b, c, s) <= 2 * Scale + LargestPosition(c),
           -(2 * Moved(b, c, s)) <= 2 * Scale + LargestPosition(c)
    PROVE  Balanced(c)
  <1> DEFINE m == Moved(b, c, s)
             L == LargestPosition(c)
             h == L \div 2
  <1>1. /\ LargestPosition(b) \in Nat /\ L \in Nat /\ LargestPosition(b) <= L
        /\ RoundingAllowed(b) \in Nat /\ RoundingAllowed(c) \in Nat
        /\ RoundingAllowed(b) + (Scale + h) <= RoundingAllowed(c)
    BY AllowanceGrows, LargestInputs
  <1>2. Imbalance(b) \in Int /\ m \in Int /\ Imbalance(c) = Imbalance(b) + m
    BY ImbalanceChange
  <1>3. \A u \in Symbol : c.pos[u].qty <= L
    <2>1. \A u \in Symbol : b.pos[u].qty \in Nat /\ b.pos[u].qty <= LargestPosition(b)
      BY CostsTyped DEF Balanced
    <2>2. QED
      BY <1>1, <2>1 DEF ChangedAt
  <1>4. Imbalance(b) <= RoundingAllowed(b) /\ -RoundingAllowed(b) <= Imbalance(b)
    BY <1>1, <1>2 DEF Balanced
  <1>5. 2 * m <= 2 * Scale + L /\ -(2 * m) <= 2 * Scale + L
    OBVIOUS
  <1> HIDE DEF m, L
  <1>6. h \in Int /\ L <= 2 * h + 1
    BY <1>1
  <1> HIDE DEF h
  <1>7. Scale \in Nat
    BY MoneyConstants
  <1>8. m <= Scale + h /\ -(Scale + h) <= m
    BY <1>2, <1>5, <1>6, <1>7, <1>1
  <1>9. Imbalance(c) <= RoundingAllowed(c) /\ -RoundingAllowed(c) <= Imbalance(c)
    BY <1>1, <1>2, <1>4, <1>6, <1>7, <1>8
  <1>10. QED
    BY <1>1, <1>2, <1>3, <1>9 DEF Balanced, L

\* A change that is no order moves nothing.
LEMMA EditBalanced ==
    ASSUME NEW b \in Account, NEW c \in Account, NEW s \in Symbol, ChangedAt(b, c, s), Balanced(b),
           Len(c.orders) = Len(b.orders), c.pos[s].qty <= LargestPosition(c), Moved(b, c, s) = 0
    PROVE  Balanced(c)
  <1>1. Imbalance(b) \in Int /\ Imbalance(c) = Imbalance(b)
    BY ImbalanceChange
  <1>2. LargestPosition(c) = LargestPosition(b) /\ RoundingAllowed(c) = RoundingAllowed(b)
    BY AllowanceGrows
  <1>3. QED
    BY <1>1, <1>2 DEF Balanced, ChangedAt

\* An account with the same amounts is as balanced.
LEMMA SameBalanced ==
    ASSUME NEW b \in Account, NEW c \in Account, Balanced(b),
           \A u \in Symbol : c.pos[u].qty = b.pos[u].qty /\ c.pos[u].avg = b.pos[u].avg,
           c.cash = b.cash, c.realized = b.realized, c.dropped = b.dropped,
           Len(c.orders) = Len(b.orders)
    PROVE  Balanced(c)
  <1>1. Costs(c) = Costs(b)
    BY DEF Costs
  <1>2. \A s \in Symbol : ChangedAt(b, c, s)
    BY DEF ChangedAt
  <1>3. Held(c) = Held(b)
    <2>1. ASSUME NEW s \in Symbol PROVE Held(c) = Held(b)
      <3>1. \A x \in Int : x - x = 0
        OBVIOUS
      <3>2. Held(c) = Held(b) + (Costs(c)[s] - Costs(b)[s]) /\ Held(b) \in Int
        BY <1>2, HeldChange DEF ChangedAt
      <3>3. Costs(b)[s] \in Int
        BY CostsTyped
      <3>4. QED
        BY <1>1, <3>1, <3>2, <3>3
    <2>2. CASE Symbol = {}
      BY <2>2, HeldChange
    <2>3. QED
      BY <2>1, <2>2
  <1>4. Imbalance(c) = Imbalance(b)
    BY <1>3 DEF Imbalance
  <1>5. LargestPosition(c) = LargestPosition(b) /\ RoundingAllowed(c) = RoundingAllowed(b)
    BY AllowanceGrows
  <1>6. QED
    BY <1>4, <1>5 DEF Balanced

\* An order that is refused late moves nothing.
LEMMA NothingMoved ==
    ASSUME NEW b \in Account, NEW c \in Account, NEW s \in Symbol, Balanced(b),
           c.pos = b.pos, c.cash = b.cash, c.realized = b.realized, c.dropped = b.dropped,
           Len(c.orders) = Len(b.orders) + 1
    PROVE  Balanced(c)
  <1>1. ChangedAt(b, c, s) /\ Costs(c) = Costs(b)
    BY DEF ChangedAt, Costs
  <1>2. /\ b.cash \in Int /\ b.realized \in Int /\ b.dropped \in Int /\ Costs(b)[s] \in Int
        /\ Scale \in Nat
    <2>1. Costs(b)[s] \in Int
      BY CostsTyped
    <2>2. QED
      BY <2>1, MoneyConstants DEF Account
  <1>3. /\ c.cash - b.cash = 0 /\ c.realized - b.realized = 0 /\ c.dropped - b.dropped = 0
        /\ Costs(c)[s] - Costs(b)[s] = 0
    BY <1>1, <1>2
  <1>4. Moved(b, c, s) = (0 - 0) * Scale + 0 + 0
    BY <1>3 DEF Moved
  <1>5. /\ LargestPosition(b) \in Nat /\ LargestPosition(c) \in Nat
        /\ LargestPosition(b) <= LargestPosition(c)
    BY AllowanceGrows, LargestInputs
  <1>6. c.pos[s].qty <= LargestPosition(c)
    <2>1. b.pos[s].qty <= LargestPosition(b) /\ b.pos[s].qty \in Nat
      BY CostsTyped DEF Balanced
    <2>2. QED
      BY <1>5, <2>1
  <1>7. /\ 2 * Moved(b, c, s) <= 2 * Scale + LargestPosition(c)
        /\ -(2 * Moved(b, c, s)) <= 2 * Scale + LargestPosition(c)
    BY <1>2, <1>4, <1>5
  <1>8. QED
    BY <1>1, <1>6, <1>7, OrderBalanced

\* A new account is balanced (__init__ and reset).
LEMMA NewBalanced == Balanced(NewAccount)
  <1>1. NewAccount \in Account /\ Len(NewAccount.orders) = 0
    BY NewAccountTyped DEF NewAccount
  <1>2. LargestPosition(NewAccount) \in Nat /\ RoundingAllowed(NewAccount) \in Nat
    BY <1>1, AllowanceGrows
  <1>3. \A s \in Symbol : NewAccount.pos[s].qty = 0
    BY DEF NewAccount, NoPosition
  <1>4. Imbalance(NewAccount) = 0
    <2>1. (StartingCash - StartingCash - 0) * Scale + 0 + 0 = 0
      BY BrokerConstants, MoneyConstants
    <2>2. NewAccount.cash = StartingCash /\ NewAccount.realized = 0 /\ NewAccount.dropped = 0
      BY DEF NewAccount
    <2>3. QED
      BY <2>1, <2>2, HeldByNew DEF Imbalance
  <1>5. QED
    BY <1>2, <1>3, <1>4 DEF Balanced

\* What the dust rule forgets it adds to what is dropped.
LEMMA CleanedCost ==
    ASSUME NEW pos \in Position, NEW price
    PROVE  Cost(Cleaned(pos, price).qty, Cleaned(pos, price).avg) + Dropped(pos, price)
              = Cost(pos.qty, pos.avg)
  <1>1. Cost(pos.qty, pos.avg) \in Nat /\ Cost(0, 0) = 0
    <2>1. pos.qty \in Nat /\ pos.avg \in Nat
      BY DEF Position
    <2>2. Cost(pos.qty, pos.avg) \in Nat
      BY <2>1, AmountNat
    <2>3. QED
      BY <2>2 DEF Cost
  <1>2. CASE IsDust(pos, price)
    <2>1. Cleaned(pos, price).qty = 0 /\ Cleaned(pos, price).avg = 0
      BY <1>2 DEF Cleaned, Position
    <2>2. Dropped(pos, price) = Cost(pos.qty, pos.avg)
      BY <1>2 DEF Dropped
    <2>3. QED
      BY <1>1, <2>1, <2>2
  <1>3. CASE ~IsDust(pos, price)
    <2>1. Cleaned(pos, price) = pos /\ Dropped(pos, price) = 0
      BY <1>3 DEF Cleaned, Dropped
    <2>2. QED
      BY <1>1, <2>1
  <1>4. QED
    BY <1>2, <1>3

\* An order leaves the amounts alone.
LEMMA WithOrderMoney ==
    ASSUME NEW b \in Account, NEW o
    PROVE  WithOrder(b, o).realized = b.realized /\ WithOrder(b, o).dropped = b.dropped
  BY DEF WithOrder, Account

\* What a buy realizes and drops.
LEMMA AfterBuyMoney ==
    ASSUME NEW b \in Account, NEW o \in Order
    PROVE  /\ AfterBuy(b, o).realized = b.realized
           /\ AfterBuy(b, o).dropped = b.dropped + Dropped(Bought(b.pos[o.symbol], o), o.exec)
  <1> DEFINE mid == WithOrder(b, o)
             add == Dropped(Bought(b.pos[o.symbol], o), o.exec)
  <1>1. mid \in Account /\ mid.realized = b.realized /\ mid.dropped = b.dropped
    BY WithOrderTyped, WithOrderMoney
  <1>2. AfterBuy(b, o) =
          [mid EXCEPT !.pos[o.symbol] = Cleaned(Bought(@, o), o.exec),
                      !.dropped = @ + add,
                      !.cash = @ - (o.notional + o.fee),
                      !.buys[o.symbol] = o.streak + 1]
    BY DEF AfterBuy
  <1> HIDE DEF mid, add
  <1>3. AfterBuy(b, o).realized = mid.realized /\ AfterBuy(b, o).dropped = mid.dropped + add
    BY <1>1, <1>2 DEF Account
  <1>4. QED
    BY <1>1, <1>3 DEF add

\* What a sell realizes and drops.
LEMMA AfterSellMoney ==
    ASSUME NEW b \in Account, NEW o \in Order
    PROVE  LET pos == b.pos[o.symbol]
               qty == Smaller(o.qty, pos.qty)
               rest == [pos EXCEPT !.qty = pos.qty - qty]
               profit == (o.exec - pos.avg) * qty - o.fee * Scale
           IN  /\ AfterSell(b, o).realized = b.realized + RoundDiv(profit, Scale)
               /\ AfterSell(b, o).dropped = b.dropped + Dropped(rest, o.exec)
  <1> DEFINE mid == WithOrder(b, o)
             pos == b.pos[o.symbol]
             qty == Smaller(o.qty, pos.qty)
             rest == [pos EXCEPT !.qty = pos.qty - qty]
             profit == (o.exec - pos.avg) * qty - o.fee * Scale
             won == RoundDiv(profit, Scale)
             add == Dropped(rest, o.exec)
             streak == LosingStreak(mid.losing, profit)
  <1>1. mid \in Account /\ mid.realized = b.realized /\ mid.dropped = b.dropped
    BY WithOrderTyped, WithOrderMoney
  <1>2. AfterSell(b, o) =
          [mid EXCEPT !.pos[o.symbol] = Sold(Cleaned(rest, o.exec), o),
                      !.dropped = @ + add,
                      !.realized = @ + won,
                      !.cash = @ + Amount(qty, o.exec) - o.fee,
                      !.buys[o.symbol] = 0,
                      !.losing = streak]
    BY DEF AfterSell
  <1> HIDE DEF mid, won, add, qty, rest, streak
  <1>3. AfterSell(b, o).realized = mid.realized + won /\ AfterSell(b, o).dropped = mid.dropped + add
    BY <1>1, <1>2 DEF Account
  <1>4. QED
    BY <1>1, <1>3 DEF won, add, rest, qty

\* The average price of a buy is off by half of the smallest amount for each
\* smallest quantity of the position, and nothing else is.
LEMMA BuyBalanced ==
    ASSUME NEW b \in Account, NEW o, Checked(o), o.qty <= Largest(Size), Balanced(b)
    PROVE  Balanced(AfterBuy(b, o))
  <1> DEFINE s == o.symbol
             c == AfterBuy(b, o)
             old == b.pos[s]
             new == Bought(old, o)
             qty == old.qty + o.qty
             cost == Cost(old.qty, old.avg) + (o.notional + o.fee) * Scale
             avg == RoundDiv(cost, qty)
             drop == Dropped(new, o.exec)
  <1>1. /\ s \in Symbol /\ o \in Order /\ o.notional \in Nat /\ o.fee \in Nat
        /\ o.qty \in Nat \ {0} /\ Scale \in Nat
    BY FeeWithin, MoneyConstants DEF Checked
  <1>2. /\ old \in Position /\ old.qty \in Nat /\ old.avg \in Nat
        /\ Cost(old.qty, old.avg) \in Nat
    <2>1. old \in Position
      BY <1>1 DEF Account
    <2>2. old.qty \in Nat /\ old.avg \in Nat
      BY <2>1 DEF Position
    <2>3. QED
      BY <2>1, <2>2, AmountNat
  <1>3. c \in Account /\ c.pos = [b.pos EXCEPT ![s] = Cleaned(new, o.exec)]
        /\ c.cash = b.cash - (o.notional + o.fee) /\ Len(c.orders) = Len(b.orders) + 1
    <2>1. b.orders \in Seq(Fill) /\ [symbol |-> o.symbol, side |-> o.side, tp |-> o.tp] \in Fill
      BY FeeWithin DEF Account, Fill
    <2>2. QED
      BY <2>1, AfterBuyTyped
  <1>4. c.realized = b.realized /\ c.dropped = b.dropped + drop
    BY <1>1, AfterBuyMoney
  <1>5. new \in Position /\ new.qty = qty /\ new.avg = avg
    <2>1. new \in Position /\ new.qty = qty
      BY <1>2, BoughtTyped
    <2>2. new.avg = avg
      BY <1>2 DEF Bought, Position
    <2>3. QED
      BY <2>1, <2>2
  <1>6. c.pos[s] = Cleaned(new, o.exec) /\ \A u \in Symbol \ {s} : c.pos[u] = b.pos[u]
    BY <1>1, <1>3 DEF Account
  <1>7. ChangedAt(b, c, s)
    BY <1>6 DEF ChangedAt
  <1>8. /\ Costs(b)[s] = Cost(old.qty, old.avg)
        /\ Costs(c)[s] = Cost(Cleaned(new, o.exec).qty, Cleaned(new, o.exec).avg)
    <2> HIDE DEF c, new
    <2>1. Costs(b)[s] = Cost(old.qty, old.avg)
      BY <1>1, CostsTyped
    <2>2. Costs(c)[s] = Cost(c.pos[s].qty, c.pos[s].avg)
      BY <1>1, <1>3, CostsTyped
    <2>3. QED
      BY <1>6, <2>1, <2>2
  <1>9. Costs(c)[s] + drop = Cost(qty, avg) /\ Costs(c)[s] \in Int /\ drop \in Nat
    <2>1. Costs(c)[s] + drop = Cost(qty, avg)
      BY <1>5, <1>8, CleanedCost
    <2>2. Costs(c)[s] \in Int
      BY <1>1, <1>3, CostsTyped
    <2>3. QED
      BY <1>5, <2>1, <2>2, DroppedNat
  <1>10. qty \in Nat \ {0} /\ cost \in Int
    BY <1>1, <1>2
  <1>11. c.pos[s].qty <= LargestPosition(c) /\ qty <= LargestPosition(c)
    <2>1. old.qty <= LargestPosition(b) /\ LargestPosition(b) \in Nat
      BY <1>1, AllowanceGrows DEF Balanced
    <2>2. LargestPosition(c) = LargestPosition(b) + Largest(Size) /\ Largest(Size) \in Nat
      BY <1>3, AllowanceGrows, LargestInputs
    <2>3. qty <= LargestPosition(c) /\ 0 <= LargestPosition(c)
      BY <1>1, <1>2, <2>1, <2>2
    <2>4. c.pos[s].qty \in {0, qty}
      BY <1>5, <1>6, CleanedTyped
    <2>5. QED
      BY <2>3, <2>4
  <1>12. /\ avg \in Int
         /\ 2 * (qty * avg) <= 2 * cost + qty
         /\ 2 * cost < 2 * (qty * avg) + qty
    BY <1>10, RoundDivBounds
  <1>13. Moved(b, c, s) = qty * avg - cost
    <2> DEFINE paid == o.notional + o.fee
               was == Costs(b)[s]
               is == Costs(c)[s]
    <2>1. paid \in Int /\ b.cash \in Int /\ b.realized \in Int /\ b.dropped \in Int
      BY <1>1 DEF Account
    <2>2. was = Cost(old.qty, old.avg) /\ was \in Int /\ is \in Int /\ is + drop = qty * avg
      BY <1>2, <1>8, <1>9 DEF Cost
    <2> HIDE DEF c, drop, was, is
    <2>3. c.cash - b.cash = -paid /\ c.realized - b.realized = 0 /\ c.dropped - b.dropped = drop
      BY <1>3, <1>4, <1>9, <2>1
    <2>4. Moved(b, c, s) = (-paid - 0) * Scale + (is - was) + drop
      BY <2>3 DEF Moved, was, is
    <2>5. (-paid - 0) * Scale = -(paid * Scale) /\ paid * Scale \in Int
      BY <1>1, <2>1
    <2>6. cost = was + paid * Scale
      BY <2>2
    <2> HIDE DEF paid, cost, avg, qty
    <2>7. QED
      BY <1>9, <2>2, <2>4, <2>5, <2>6
  <1>14. LargestPosition(c) \in Nat
    BY <1>3, AllowanceGrows
  <1> HIDE DEF s, c, old, new, qty, cost, avg, drop
  <1>15. qty * avg \in Int
    BY <1>10, <1>12
  <1>16. /\ 2 * Moved(b, c, s) <= 2 * Scale + LargestPosition(c)
         /\ -(2 * Moved(b, c, s)) <= 2 * Scale + LargestPosition(c)
    BY <1>1, <1>10, <1>11, <1>12, <1>13, <1>14, <1>15
  <1>17. Balanced(c)
    BY <1>1, <1>3, <1>7, <1>11, <1>16, OrderBalanced
  <1>18. QED
    BY <1>17 DEF c

\* The profit and the cash of a sell are each off by half of the smallest
\* amount, and nothing else is.
LEMMA SellBalanced ==
    ASSUME NEW b \in Account, NEW o, Checked(o), Balanced(b)
    PROVE  Balanced(AfterSell(b, o))
  <1> DEFINE s == o.symbol
             c == AfterSell(b, o)
             old == b.pos[s]
             avg == old.avg
             qty == Smaller(o.qty, old.qty)
             rest == [old EXCEPT !.qty = old.qty - qty]
             got == Amount(qty, o.exec)
             profit == (o.exec - avg) * qty - o.fee * Scale
             won == RoundDiv(profit, Scale)
             drop == Dropped(rest, o.exec)
             left == Sold(Cleaned(rest, o.exec), o)
  <1>1. /\ s \in Symbol /\ o \in Order /\ o.fee \in Nat /\ o.exec \in Nat
        /\ o.qty \in Nat \ {0} /\ Scale \in Nat \ {0}
    BY FeeWithin, MoneyConstants DEF Checked
  <1>2. /\ old \in Position /\ old.qty \in Nat /\ avg \in Nat
        /\ Cost(old.qty, avg) \in Nat
    <2>1. old \in Position
      BY <1>1 DEF Account
    <2>2. old.qty \in Nat /\ avg \in Nat
      BY <2>1 DEF Position
    <2>3. QED
      BY <2>1, <2>2, AmountNat
  <1>3. qty \in Nat /\ old.qty - qty \in Nat
    <2>1. o.qty \in Nat /\ old.qty \in Nat
      BY <1>1, <1>2
    <2> HIDE DEF old
    <2>2. qty \in Nat /\ qty <= old.qty
      BY ONLY <2>1, SmallerNat
    <2> HIDE DEF qty
    <2>3. QED
      BY <2>1, <2>2
  <1>4. rest \in Position /\ rest.qty = old.qty - qty /\ rest.avg = avg
    BY <1>2, <1>3 DEF Position
  <1>5. c \in Account /\ c.pos = [b.pos EXCEPT ![s] = left]
        /\ c.cash = b.cash + got - o.fee /\ Len(c.orders) = Len(b.orders) + 1
    <2>1. b.orders \in Seq(Fill) /\ [symbol |-> o.symbol, side |-> o.side, tp |-> o.tp] \in Fill
      BY FeeWithin DEF Account, Fill
    <2>2. QED
      BY <2>1, AfterSellTyped
  <1>6. c.realized = b.realized + won /\ c.dropped = b.dropped + drop
    BY <1>1, AfterSellMoney
  <1>7. c.pos[s] = left /\ \A u \in Symbol \ {s} : c.pos[u] = b.pos[u]
    BY <1>1, <1>5 DEF Account
  <1>8. ChangedAt(b, c, s)
    BY <1>7 DEF ChangedAt
  <1>9. left.qty \in {0, old.qty - qty} /\ Cost(left.qty, left.avg) + drop = Cost(old.qty - qty, avg)
    <2> DEFINE mid == Cleaned(rest, o.exec)
    <2>1. mid \in Position /\ mid.qty \in {0, old.qty - qty}
      BY <1>4, CleanedTyped
    <2>2. left.qty = mid.qty /\ left.avg = IF mid.qty = 0 THEN 0 ELSE mid.avg
      BY <2>1 DEF Sold, Position
    <2>3. Cost(left.qty, left.avg) = Cost(mid.qty, mid.avg)
      <3>1. mid.qty \in Nat /\ mid.avg \in Nat
        BY <2>1 DEF Position
      <3>2. CASE mid.qty = 0
        BY <2>2, <3>1, <3>2 DEF Cost
      <3>3. CASE mid.qty # 0
        BY <2>2, <3>3
      <3>4. QED
        BY <3>2, <3>3
    <2>4. Cost(mid.qty, mid.avg) + drop = Cost(old.qty - qty, avg)
      BY <1>4, CleanedCost
    <2>5. QED
      BY <2>1, <2>2, <2>3, <2>4
  <1>10. Costs(b)[s] = Cost(old.qty, avg) /\ Costs(c)[s] = Cost(left.qty, left.avg)
         /\ Costs(c)[s] \in Int /\ drop \in Nat
    <2> HIDE DEF c, left
    <2>1. Costs(b)[s] = Cost(old.qty, avg) /\ Costs(c)[s] = Cost(left.qty, left.avg)
      <3>1. Costs(b)[s] = Cost(old.qty, old.avg)
        BY <1>1, CostsTyped
      <3>2. Costs(c)[s] = Cost(c.pos[s].qty, c.pos[s].avg)
        BY <1>1, <1>5, CostsTyped
      <3>3. QED
        BY <1>7, <3>1, <3>2
    <2>2. Costs(c)[s] \in Int
      BY <1>1, <1>5, CostsTyped
    <2>3. QED
      BY <1>4, <2>1, <2>2, DroppedNat
  <1>11. c.pos[s].qty <= LargestPosition(c)
    <2>1. old.qty <= LargestPosition(b) /\ LargestPosition(b) \in Nat
      BY <1>1, AllowanceGrows DEF Balanced
    <2>2. LargestPosition(c) = LargestPosition(b) + Largest(Size) /\ Largest(Size) \in Nat
      BY <1>5, AllowanceGrows, LargestInputs
    <2> HIDE DEF qty, left
    <2>3. c.pos[s].qty \in {0, old.qty - qty}
      BY <1>7, <1>9
    <2>4. QED
      BY <1>2, <1>3, <2>1, <2>2, <2>3
  <1>12. profit \in Int
    BY <1>1, <1>2, <1>3
  <1>13. /\ won \in Int
         /\ 2 * (Scale * won) <= 2 * profit + Scale
         /\ 2 * profit < 2 * (Scale * won) + Scale
    BY <1>1, <1>12, RoundDivBounds
  <1>14. /\ got \in Nat
         /\ 2 * (got * Scale) <= 2 * Cost(qty, o.exec) + Scale
         /\ 2 * Cost(qty, o.exec) < 2 * (got * Scale) + Scale
    BY <1>1, <1>3, AmountNat, AmountBounds
  <1>15. Moved(b, c, s) = (got * Scale - qty * o.exec) + (profit - Scale * won)
    <2> DEFINE was == Costs(b)[s]
               is == Costs(c)[s]
    <2>1. b.cash \in Int /\ b.realized \in Int /\ b.dropped \in Int
      BY DEF Account
    <2>2. /\ was \in Int /\ is \in Int /\ qty * avg \in Int
          /\ is + drop = was - qty * avg
      <3>1. (old.qty - qty) * avg = old.qty * avg - qty * avg /\ qty * avg \in Int
        BY <1>2, <1>3
      <3>2. was = old.qty * avg /\ is + drop = (old.qty - qty) * avg /\ is \in Int
        BY <1>9, <1>10 DEF Cost
      <3>3. was \in Int
        BY <1>2, <1>10
      <3>4. QED
        BY <3>1, <3>2, <3>3
    <2>3. profit = qty * o.exec - qty * avg - o.fee * Scale /\ qty * o.exec \in Int
          /\ o.fee * Scale \in Int
      <3> HIDE DEF qty, avg
      <3>1. (o.exec - avg) * qty = qty * o.exec - qty * avg /\ qty * o.exec \in Int
            /\ o.fee * Scale \in Int
        BY <1>1, <1>2, <1>3
      <3>2. QED
        BY <3>1
    <2> HIDE DEF c, old, avg, qty, rest, got, profit, won, drop, left, was, is
    <2>4. /\ c.cash - b.cash = got - o.fee /\ c.realized - b.realized = won
          /\ c.dropped - b.dropped = drop
      <3>1. got \in Int /\ o.fee \in Int /\ won \in Int /\ drop \in Int
        BY <1>1, <1>10, <1>13, <1>14
      <3>2. \A x, y \in Int : (x + y) - x = y
        OBVIOUS
      <3>3. c.cash = b.cash + (got - o.fee)
        BY <1>5, <2>1, <3>1
      <3>4. QED
        BY <1>6, <2>1, <3>1, <3>2, <3>3
    <2>5. Moved(b, c, s) = ((got - o.fee) - won) * Scale + (is - was) + drop
      BY <2>4 DEF Moved, was, is
    <2>6. ((got - o.fee) - won) * Scale = got * Scale - o.fee * Scale - Scale * won
          /\ got * Scale \in Int /\ Scale * won \in Int
      BY <1>1, <1>13, <1>14
    <2>7. QED
      BY <1>10, <1>12, <2>2, <2>3, <2>5, <2>6
  <1>16. LargestPosition(c) \in Nat
    BY <1>5, AllowanceGrows
  <1> HIDE DEF s, c, old, avg, qty, rest, got, profit, won, drop, left
  <1>17. qty * o.exec \in Int /\ Cost(qty, o.exec) = qty * o.exec
         /\ got * Scale \in Int /\ Scale * won \in Int
    BY <1>1, <1>3, <1>13, <1>14 DEF Cost
  <1>18. /\ 2 * Moved(b, c, s) <= 2 * Scale + LargestPosition(c)
         /\ -(2 * Moved(b, c, s)) <= 2 * Scale + LargestPosition(c)
    BY <1>1, <1>12, <1>13, <1>14, <1>15, <1>16, <1>17
  <1>19. Balanced(c)
    BY <1>1, <1>5, <1>8, <1>11, <1>18, OrderBalanced
  <1>20. QED
    BY <1>19 DEF c

\* Evaluating the exits and marking a price move no money.
LEMMA EvaluatedBalanced ==
    ASSUME NEW b \in Account, NEW s \in Symbol, NEW price \in Price, Balanced(b),
           NEW c \in {Trailed(b, s, price), Marked(b, s, price), Evaluated(b, s, price)}
    PROVE  Balanced(c)
  <1>1. /\ c \in Account
        /\ c.pos \in {b.pos, [b.pos EXCEPT ![s] = AfterExitRules(b.pos[s], price)]}
        /\ c.cash = b.cash /\ c.orders = b.orders
    BY EvaluatedTyped
  <1>2. c.realized = b.realized /\ c.dropped = b.dropped
    BY DEF Trailed, Marked, Evaluated, Account
  <1>3. /\ AfterExitRules(b.pos[s], price).qty = b.pos[s].qty
        /\ AfterExitRules(b.pos[s], price).avg = b.pos[s].avg
    <2>1. b.pos[s] \in Position /\ price \in Nat
      BY BrokerConstants DEF Account
    <2>2. QED
      BY <2>1, AfterExitRulesTyped
  <1>4. \A u \in Symbol : c.pos[u].qty = b.pos[u].qty /\ c.pos[u].avg = b.pos[u].avg
    <2>1. b.pos \in [Symbol -> Position]
      BY DEF Account
    <2>2. QED
      BY <1>1, <1>3, <2>1
  <1>5. QED
    BY <1>1, <1>2, <1>4, SameBalanced

\* What the exchange's numbers add and take is counted as dropped.
LEMMA SyncedBalanced ==
    ASSUME NEW b \in Account, NEW s \in Symbol, NEW h \in Holding, Balanced(b)
    PROVE  Balanced(Synced(b, s, h))
  <1> DEFINE c == Synced(b, s, h)
             avg == IF h.qty > 0 THEN h.avg ELSE 0
             old == b.pos[s]
             was == b.cash * Scale + Cost(old.qty, old.avg)
             is == h.cash * Scale + Cost(h.qty, avg)
             one == [old EXCEPT !.qty = h.qty, !.avg = avg]
  <1>1. c \in Account /\ c.orders = b.orders
    BY SyncedTyped
  <1>2. /\ h.qty \in Nat /\ avg \in Nat /\ h.cash \in Int /\ Scale \in Int
        /\ b.cash \in Int /\ b.realized \in Int /\ b.dropped \in Int
    BY BrokerConstants, MoneyConstants DEF Account
  <1>3. /\ c.pos = [b.pos EXCEPT ![s] = one] /\ c.cash = h.cash
        /\ c.realized = b.realized /\ c.dropped = b.dropped + was - is
    BY DEF Synced, Account
  <1>4. old \in Position /\ b.pos \in [Symbol -> Position]
    BY DEF Account
  <1>5. one.qty = h.qty /\ one.avg = avg
    BY <1>4 DEF Position
  <1>6. c.pos[s] = one /\ \A u \in Symbol \ {s} : c.pos[u] = b.pos[u]
    BY <1>3, <1>4
  <1> HIDE DEF c, avg, one
  <1>7. ChangedAt(b, c, s)
    BY <1>6 DEF ChangedAt
  <1>8. c.pos[s].qty <= LargestPosition(c)
    <2>1. h.qty <= Largest(Reported) /\ Largest(Reported) \in Nat
      BY LargestInputs
    <2>2. Largest(Reported) <= LargestPosition(c) /\ LargestPosition(c) \in Nat
      BY <1>1, AllowanceGrows
    <2>3. QED
      BY <1>2, <1>5, <1>6, <2>1, <2>2
  <1>9. Costs(b)[s] = Cost(old.qty, old.avg) /\ Costs(c)[s] = Cost(h.qty, avg)
        /\ Costs(b)[s] \in Int /\ Costs(c)[s] \in Int
    <2>1. Costs(b)[s] = Cost(b.pos[s].qty, b.pos[s].avg) /\ Costs(b)[s] \in Int
      BY CostsTyped
    <2>2. Costs(c)[s] = Cost(c.pos[s].qty, c.pos[s].avg) /\ Costs(c)[s] \in Int
      BY <1>1, CostsTyped
    <2>3. QED
      BY <1>5, <1>6, <2>1, <2>2
  <1>10. Moved(b, c, s) = 0
    <2> DEFINE x == b.cash * Scale
               y == h.cash * Scale
    <2>1. x \in Int /\ y \in Int /\ (h.cash - b.cash) * Scale = y - x
      BY <1>2
    <2>2. c.realized - b.realized = 0 /\ c.cash - b.cash = h.cash - b.cash
      BY <1>2, <1>3
    <2>3. c.dropped = b.dropped + (x + Costs(b)[s]) - (y + Costs(c)[s])
      BY <1>3, <1>9
    <2> HIDE DEF x, y, was, is, old
    <2>4. c.dropped - b.dropped = (x + Costs(b)[s]) - (y + Costs(c)[s])
      BY <1>2, <1>9, <2>1, <2>3
    <2>5. Moved(b, c, s) = ((h.cash - b.cash) - 0) * Scale + (Costs(c)[s] - Costs(b)[s])
                             + ((x + Costs(b)[s]) - (y + Costs(c)[s]))
      BY <2>2, <2>4 DEF Moved
    <2>6. (h.cash - b.cash) - 0 = h.cash - b.cash
      BY <1>2
    <2>7. QED
      BY <1>9, <2>1, <2>5, <2>6
  <1>11. Balanced(c)
    BY <1>1, <1>7, <1>8, <1>10, EditBalanced
  <1>12. QED
    BY <1>11 DEF c

\* No buy under way is larger than what a cycle asks for.
Sized ==
    \A t \in Thread : stage[t] # "idle" /\ order[t].side = "buy" => order[t].qty <= Largest(Size)

\* The largest order is not exceeded by a request.
LEMMA SizedStep ==
    ASSUME BrokerInv, Sized, [Next]_vars
    PROVE  Sized'
  <1>1. /\ order \in [Thread -> Order \cup {NoOrder}]
        /\ stage \in [Thread -> Stage]
    BY DEF BrokerInv, TypeOK
  <1>2. ASSUME NEW t \in Thread, NEW r \in Request, Check(t, r)
        PROVE  Sized'
    <2>1. /\ stage' = [stage EXCEPT ![t] = "checked"]
          /\ order' = [order EXCEPT ![t] = Priced(book, r)]
      BY <1>2 DEF Check
    <2>2. r.size \in Size
      BY DEF Request
    <2>3. Priced(book, r).side = r.side /\ (r.side # "sell" => Priced(book, r).qty = r.size)
      BY DEF Priced
    <2>4. Priced(book, r).side = "buy" => Priced(book, r).qty <= Largest(Size)
      BY <2>2, <2>3, LargestInputs
    <2>5. order'[t] = Priced(book, r) /\ \A u \in Thread \ {t} : stage'[u] = stage[u] /\ order'[u] = order[u]
      BY <1>1, <2>1
    <2>6. QED
      BY <2>4, <2>5 DEF Sized
  <1>3. ASSUME NEW t \in Thread, Buy(t) \/ Sell(t)
        PROVE  Sized'
    <2>1. /\ stage[t] = "checked" /\ stage' = [stage EXCEPT ![t] = "filled"] /\ order' = order
      BY <1>3 DEF Buy, Sell
    <2>2. QED
      BY <1>1, <2>1 DEF Sized
  <1>4. ASSUME NEW t \in Thread,
               SellRejectedLate(t) \/ LogTrade(t) \/ LogTradeRaises(t) \/ Persist(t)
        PROVE  Sized'
    <2>1. /\ stage[t] # "idle"
          /\ \/ stage' = [stage EXCEPT ![t] = "logged"] /\ order' = order
             \/ EndSubmit(t)
      BY <1>4, RecordStep DEF SellRejectedLate
    <2>2. QED
      BY <1>1, <2>1 DEF EndSubmit, Sized
  <1>5. stage' = stage /\ order' = order => Sized'
    BY DEF Sized
  <1>6. ASSUME NEW t \in Thread, ThreadStep(t)
        PROVE  Sized'
    <2>1. CASE \E s \in Symbol, p \in Price : EvaluateExit(t, s, p) \/ MarkPrice(t, s, p)
      BY <1>5, <2>1 DEF EvaluateExit, MarkPrice, Commit
    <2>2. CASE \E s \in Symbol, h \in Holding : SyncExchangePosition(t, s, h)
      BY <1>5, <2>2 DEF SyncExchangePosition, Commit
    <2>3. CASE Reset(t)
      BY <1>5, <2>3 DEF Reset, Commit
    <2>4. CASE SubmitStep(t)
      BY <1>2, <1>3, <1>4, <2>4 DEF SubmitStep, FillStep
    <2>5. QED
      BY <1>6, <2>1, <2>2, <2>3, <2>4 DEF ThreadStep
  <1>7. CASE Crash
    BY <1>7 DEF Crash, Sized
  <1>8. CASE UNCHANGED vars
    BY <1>5, <1>8 DEF vars
  <1>9. QED
    BY <1>6, <1>7, <1>8 DEF Next

\* The account in memory and the one on file, which a restart reloads.
BothBalanced == Balanced(book) /\ Balanced(ledger.book)

\* No step moves more than its roundings.
LEMMA BothBalancedStep ==
    ASSUME BrokerInv, Sized, BothBalanced, [BrokerNext]_vars
    PROVE  BothBalanced'
  <1>1. /\ book \in Account /\ ledger \in Ledger /\ ledger.book \in Account
        /\ Balanced(book) /\ Balanced(ledger.book)
    BY DEF BrokerInv, TypeOK, Ledger, BothBalanced
  <1>2. BrokerInv'
    BY BrokerInvStep
  <1>3. book' \in Account
    BY <1>2 DEF BrokerInv, TypeOK
  <1>4. ASSUME NEW t \in Thread, stage[t] = "checked"
        PROVE  Checked(order[t]) /\ order[t].symbol \in Symbol
    <2>1. Checked(order[t])
      BY <1>4 DEF BrokerInv, OrderReady
    <2>2. QED
      BY <2>1, FeeWithin
  <1>5. ASSUME Balanced(book'), ledger'.book \in {ledger.book, book'}
        PROVE  BothBalanced'
    BY <1>1, <1>5 DEF BothBalanced
  <1>6. ASSUME NEW t \in Thread, Buy(t) PROVE BothBalanced'
    <2>1. stage[t] = "checked" /\ order[t].side = "buy" /\ book' = AfterBuy(book, order[t])
          /\ ledger' = ledger
      BY <1>6 DEF Buy
    <2>2. Checked(order[t]) /\ order[t].symbol \in Symbol /\ order[t].qty <= Largest(Size)
      BY <1>4, <2>1 DEF Sized
    <2>3. Balanced(book')
      BY <1>1, <2>1, <2>2, BuyBalanced
    <2>4. QED
      BY <1>5, <2>1, <2>3
  <1>7. ASSUME NEW t \in Thread, Sell(t) PROVE BothBalanced'
    <2>1. stage[t] = "checked" /\ book' = AfterSell(book, order[t])
          /\ ledger' = ledger
      BY <1>7 DEF Sell
    <2>2. Checked(order[t]) /\ order[t].symbol \in Symbol
      BY <1>4, <2>1
    <2>3. Balanced(book')
      BY <1>1, <2>1, <2>2, SellBalanced
    <2>4. QED
      BY <1>5, <2>1, <2>3
  <1>8. ASSUME NEW t \in Thread, SellRejectedLate(t) PROVE BothBalanced'
    <2> DEFINE o == [order[t] EXCEPT !.tp = FALSE]
               f == [symbol |-> o.symbol, side |-> o.side, tp |-> o.tp]
    <2>1. stage[t] = "checked" /\ book' = WithOrder(book, o) /\ ledger' = ledger
      BY <1>8 DEF SellRejectedLate
    <2>2. o \in Order
      BY <1>4, <2>1 DEF Checked, Order
    <2> HIDE DEF o
    <2>3. /\ book'.pos = book.pos /\ book'.cash = book.cash /\ book'.realized = book.realized
          /\ book'.dropped = book.dropped /\ book'.orders = Append(book.orders, f) /\ f \in Fill
      BY <1>1, <2>1, <2>2, WithOrderTyped, WithOrderMoney
    <2> HIDE DEF f
    <2>4. Len(book'.orders) = Len(book.orders) + 1
      <3>1. book.orders \in Seq(Fill)
        BY <1>1 DEF Account
      <3>2. QED
        BY <2>3, <3>1
    <2>5. order[t].symbol \in Symbol
      BY <1>4, <2>1
    <2>6. Balanced(book')
      BY <1>1, <1>3, <2>3, <2>4, <2>5, NothingMoved
    <2>7. QED
      BY <1>5, <2>1, <2>6
  <1>9. ASSUME NEW t \in Thread, EditAccount(t) PROVE BothBalanced'
    <2>1. ASSUME NEW s \in Symbol, NEW p \in Price,
                 EvaluateExit(t, s, p) \/ Commit(t, Marked(book, s, p)) \/ Commit(t, Evaluated(book, s, p))
          PROVE  Balanced(book')
      <3>1. book' \in {Trailed(book, s, p), Marked(book, s, p), Evaluated(book, s, p)}
        BY <2>1 DEF EvaluateExit, Commit, Trailed
      <3>2. QED
        BY <1>1, <3>1, EvaluatedBalanced
    <2>2. ASSUME NEW s \in Symbol, NEW h \in Holding, Commit(t, Synced(book, s, h))
          PROVE  Balanced(book')
      BY <1>1, <2>2, SyncedBalanced DEF Commit
    <2>3. Commit(t, NewAccount) => Balanced(book')
      BY NewBalanced DEF Commit
    <2>4. Balanced(book')
      BY <1>9, <2>1, <2>2, <2>3 DEF EditAccount
    <2>5. ledger'.book \in {ledger.book, book'}
      BY <1>9, LedgerBook DEF BrokerStep
    <2>6. QED
      BY <1>5, <2>4, <2>5
  <1>10. ASSUME NEW t \in Thread, BrokerStep(t) PROVE BothBalanced'
    <2>1. CASE \E r \in AnyRequest : TpRequest(r) /\ Check(t, r)
      BY <1>1, <1>5, <2>1 DEF Check
    <2>2. CASE LogTrade(t) \/ LogTradeRaises(t) \/ Persist(t)
      BY <1>1, <1>5, <2>2, RecordStep
    <2>3. QED
      BY <1>6, <1>7, <1>8, <1>9, <1>10, <2>1, <2>2 DEF BrokerStep, FillStep
  <1>11. CASE Crash
    <2>1. book' = Restored(ledger.book) /\ ledger' = ledger
      BY <1>11 DEF Crash
    <2>2. /\ book'.pos = ledger.book.pos /\ book'.cash = ledger.book.cash
          /\ book'.orders = ledger.book.orders
      BY <1>1, <2>1, RestoredTyped
    <2>3. book'.realized = ledger.book.realized /\ book'.dropped = ledger.book.dropped
      BY <1>1, <2>1 DEF Restored, Account
    <2>4. Balanced(book')
      BY <1>1, <1>3, <2>2, <2>3, SameBalanced
    <2>5. QED
      BY <1>5, <2>1, <2>4
  <1>12. CASE UNCHANGED vars
    BY <1>1, <1>5, <1>12 DEF vars
  <1>13. QED
    BY <1>10, <1>11, <1>12 DEF BrokerNext

\* The imbalance is within what the roundings of the orders allow, in memory
\* and on file, for any number of orders, restarts and failed saves and for all
\* prices, fees and sizes: bookkeeping neither makes nor loses money.  One thread
\* uses the broker (SerialUse); fills that overlap are excluded.
THEOREM BrokerBooksBalance == Spec => []BooksBalance
  <1>1. Init => BrokerInv /\ Sized /\ BothBalanced
    <2>1. Init => Sized
      BY DEF Init, Sized
    <2>2. Init => BothBalanced
      BY NewBalanced DEF Init, EmptyLedger, BothBalanced
    <2>3. QED
      BY <2>1, <2>2, BrokerInvInit
  <1>2. BrokerInv /\ Sized /\ BothBalanced /\ [Next]_vars => (BrokerInv /\ Sized /\ BothBalanced)'
    BY BrokerInvStep, SizedStep, BothBalancedStep, NextIsBrokerNext
  <1>3. BothBalanced => BooksBalance
    BY DEF BothBalanced, Balanced, BooksBalance
  <1>4. QED
    BY <1>1, <1>2, <1>3, PTL DEF Spec
-----------------------------------------------------------------------------
(***************************************************************************)
(* The cap on buys in a row.                                               *)
(***************************************************************************)

\* What a restart must not forget is worth keeping: a buy, however small,
\* leaves a position of at least the meaningful notional (configured as the
\* minimum of an order), that the dust rule does not take, and its fee outweighs
\* the rounding of its average price.  So does what the exchange reports.
MeaningfulBuys ==
    /\ MeaningfulNotional <= MinNotional /\ DustNotional < MinNotional
    /\ \A p \in Price, q \in Nat :
          LET notional == Amount(q, ExecutedPrice("buy", p))
          IN  notional >= MinNotional => q >= DustQty /\ q <= 2 * Scale * Share(notional, FeeBps)
    /\ \A h \in Holding :
          h.qty > 0 /\ h.avg > 0 /\ h.qty * h.avg >= MeaningfulNotional * Scale

\* A position has an average price, and it is meaningful while its last fill
\* was a buy.
Worth(b, s) == Cost(b.pos[s].qty, b.pos[s].avg)

Kept(b) ==
    \A s \in Symbol :
        /\ b.pos[s].qty > 0 => b.pos[s].avg > 0
        /\ b.buys[s] > 0 => Worth(b, s) >= MeaningfulNotional * Scale

\* The buys of a symbol since its last other order are in its streak, and no
\* streak is above the cap.
AllBuys(b, s, i, j) == \A k \in OrdersBetween(b, s, i, j) : b.orders[k].side = "buy"

Streaks(b) ==
    \A s \in Symbol :
        /\ b.buys[s] <= MaxBuys
        /\ \A i \in Nat \ {0} :
              AllBuys(b, s, i, Len(b.orders))
                  => Cardinality(OrdersBetween(b, s, i, Len(b.orders))) <= b.buys[s]
        /\ \A i, j \in DOMAIN b.orders :
              AllBuys(b, s, i, j) => Cardinality(OrdersBetween(b, s, i, j)) <= MaxBuys

\* A checked buy carries the streak of the account.
StreakKnown ==
    \A t \in Thread :
        stage[t] = "checked" /\ order[t].side = "buy" =>
            /\ order[t].streak = book.buys[order[t].symbol] /\ order[t].streak < MaxBuys
            /\ order[t].notional >= MinNotional

\* One more order leaves the ones between two earlier places.
LEMMA BetweenBefore ==
    ASSUME NEW b \in Account, NEW c \in Account, NEW f \in Fill, c.orders = Append(b.orders, f),
           NEW s \in Symbol, NEW i \in Nat \ {0}, NEW j \in 1 .. Len(b.orders)
    PROVE  /\ OrdersBetween(c, s, i, j) = OrdersBetween(b, s, i, j)
           /\ AllBuys(c, s, i, j) <=> AllBuys(b, s, i, j)
  <1>1. b.orders \in Seq(Fill)
    BY DEF Account
  <1>2. \A k \in i .. j : c.orders[k] = b.orders[k]
    BY <1>1
  <1>3. OrdersBetween(c, s, i, j) = OrdersBetween(b, s, i, j)
    BY <1>2 DEF OrdersBetween
  <1>4. OrdersBetween(b, s, i, j) \subseteq i .. j
    BY DEF OrdersBetween
  <1>5. QED
    BY <1>2, <1>3, <1>4 DEF AllBuys

\* Nor does it count for another symbol.
LEMMA BetweenOther ==
    ASSUME NEW b \in Account, NEW c \in Account, NEW f \in Fill, c.orders = Append(b.orders, f),
           NEW s \in Symbol, NEW i \in Nat \ {0}, f.symbol # s
    PROVE  LET n == Len(b.orders)
           IN  /\ OrdersBetween(c, s, i, n + 1) = OrdersBetween(b, s, i, n)
               /\ AllBuys(c, s, i, n + 1) <=> AllBuys(b, s, i, n)
  <1> DEFINE n == Len(b.orders)
  <1>1. b.orders \in Seq(Fill) /\ n \in Nat
    BY DEF Account
  <1>2. (\A k \in 1 .. n : c.orders[k] = b.orders[k]) /\ c.orders[n + 1] = f
    BY <1>1
  <1> HIDE DEF n
  <1>3. \A k \in i .. n + 1 : k \in i .. n \/ k = n + 1
    BY <1>1
  <1>4. \A k \in i .. n : k \in 1 .. n /\ k \in i .. n + 1
    BY <1>1
  <1>5. OrdersBetween(b, s, i, n) \subseteq 1 .. n
    BY <1>4 DEF OrdersBetween
  <1>6. OrdersBetween(c, s, i, n + 1) = OrdersBetween(b, s, i, n)
    BY <1>2, <1>3, <1>4 DEF OrdersBetween
  <1>7. AllBuys(c, s, i, n + 1) <=> AllBuys(b, s, i, n)
    BY <1>2, <1>5, <1>6 DEF AllBuys
  <1>8. QED
    BY <1>6, <1>7 DEF n

\* For its own symbol it is one more, and ends a run of buys unless it is one.
LEMMA BetweenOwn ==
    ASSUME NEW b \in Account, NEW c \in Account, NEW f \in Fill, c.orders = Append(b.orders, f),
           NEW s \in Symbol, NEW i \in Nat \ {0}, f.symbol = s, i <= Len(b.orders) + 1
    PROVE  LET n == Len(b.orders)
           IN  /\ OrdersBetween(c, s, i, n + 1) = OrdersBetween(b, s, i, n) \cup {n + 1}
               /\ n + 1 \notin OrdersBetween(b, s, i, n)
               /\ AllBuys(c, s, i, n + 1) <=> AllBuys(b, s, i, n) /\ f.side = "buy"
  <1> DEFINE n == Len(b.orders)
  <1>1. b.orders \in Seq(Fill) /\ n \in Nat
    BY DEF Account
  <1>2. (\A k \in 1 .. n : c.orders[k] = b.orders[k]) /\ c.orders[n + 1] = f /\ i <= n + 1
    BY <1>1
  <1> HIDE DEF n
  <1>3. \A k \in i .. n + 1 : k \in i .. n \/ k = n + 1
    BY <1>1
  <1>4. \A k \in i .. n : k \in 1 .. n /\ k \in i .. n + 1
    BY <1>1
  <1>5. n + 1 \in i .. n + 1
    BY <1>1, <1>2
  <1>6. OrdersBetween(b, s, i, n) \subseteq 1 .. n
    BY <1>4 DEF OrdersBetween
  <1>7. OrdersBetween(c, s, i, n + 1) = OrdersBetween(b, s, i, n) \cup {n + 1}
    BY <1>2, <1>3, <1>4, <1>5 DEF OrdersBetween
  <1>8. n + 1 \notin OrdersBetween(b, s, i, n)
    BY <1>1, <1>6
  <1>9. AllBuys(c, s, i, n + 1) <=> AllBuys(b, s, i, n) /\ f.side = "buy"
    BY <1>2, <1>6, <1>7 DEF AllBuys
  <1>10. QED
    BY <1>7, <1>8, <1>9 DEF n

\* One more order keeps the streaks, when a buy is counted and within the cap
\* and the other streaks stay.
LEMMA StreaksAppended ==
    ASSUME NEW b \in Account, NEW c \in Account, NEW f \in Fill, c.orders = Append(b.orders, f),
           Streaks(b),
           \A s \in Symbol : c.buys[s] <= MaxBuys,
           \A s \in Symbol : s # f.symbol => c.buys[s] = b.buys[s],
           f.side = "buy" => c.buys[f.symbol] = b.buys[f.symbol] + 1
    PROVE  Streaks(c)
  <1> DEFINE n == Len(b.orders)
  <1>1. n \in Nat /\ DOMAIN b.orders = 1 .. n /\ DOMAIN c.orders = 1 .. n + 1 /\ Len(c.orders) = n + 1
    <2>1. b.orders \in Seq(Fill)
      BY DEF Account
    <2>2. QED
      BY <2>1
  <1>2. f.symbol \in Symbol /\ f.side \in {"buy", "sell"} /\ MaxBuys \in Nat
    BY BrokerConstants DEF Fill
  <1>3. \A s \in Symbol, i \in Nat \ {0} : f.symbol # s =>
            /\ OrdersBetween(c, s, i, n + 1) = OrdersBetween(b, s, i, n)
            /\ AllBuys(c, s, i, n + 1) <=> AllBuys(b, s, i, n)
    BY BetweenOther
  <1>4. \A s \in Symbol, i \in Nat \ {0} : i > n + 1 => OrdersBetween(c, s, i, n + 1) = {}
    <2> SUFFICES ASSUME NEW s \in Symbol, NEW i \in Nat \ {0}, i > n + 1
                 PROVE  OrdersBetween(c, s, i, n + 1) = {}
      OBVIOUS
    <2>1. \A k \in i .. n + 1 : FALSE
      BY <1>1
    <2>2. QED
      BY <2>1 DEF OrdersBetween
  <1>5. \A s \in Symbol, i \in Nat \ {0} : f.symbol = s /\ i <= n + 1 =>
            /\ OrdersBetween(c, s, i, n + 1) = OrdersBetween(b, s, i, n) \cup {n + 1}
            /\ n + 1 \notin OrdersBetween(b, s, i, n)
            /\ AllBuys(c, s, i, n + 1) <=> AllBuys(b, s, i, n) /\ f.side = "buy"
    BY BetweenOwn
  <1>6. \A s \in Symbol, i \in Nat \ {0}, j \in 1 .. n :
            /\ OrdersBetween(c, s, i, j) = OrdersBetween(b, s, i, j)
            /\ AllBuys(c, s, i, j) <=> AllBuys(b, s, i, j)
    BY BetweenBefore
  <1> HIDE DEF n
  <1>7. ASSUME NEW s \in Symbol, NEW i \in Nat \ {0}, AllBuys(c, s, i, n + 1)
        PROVE  Cardinality(OrdersBetween(c, s, i, n + 1)) <= c.buys[s]
    <2>1. b.buys[s] \in Nat /\ c.buys[s] \in Nat
      BY DEF Account
    <2>2. AllBuys(b, s, i, n) => Cardinality(OrdersBetween(b, s, i, n)) <= b.buys[s]
      BY DEF Streaks, n
    <2>3. /\ f.symbol # s =>
               /\ OrdersBetween(c, s, i, n + 1) = OrdersBetween(b, s, i, n)
               /\ AllBuys(c, s, i, n + 1) <=> AllBuys(b, s, i, n)
          /\ i > n + 1 => OrdersBetween(c, s, i, n + 1) = {}
          /\ f.symbol = s /\ i <= n + 1 =>
               /\ OrdersBetween(c, s, i, n + 1) = OrdersBetween(b, s, i, n) \cup {n + 1}
               /\ n + 1 \notin OrdersBetween(b, s, i, n)
               /\ AllBuys(c, s, i, n + 1) <=> AllBuys(b, s, i, n) /\ f.side = "buy"
      BY <1>3, <1>4, <1>5
    <2>4. CASE f.symbol # s
      BY <1>7, <2>1, <2>2, <2>3, <2>4
    <2>5. CASE i > n + 1
      <3>1. OrdersBetween(c, s, i, n + 1) = {}
        BY <1>4, <2>5
      <3>2. Cardinality(OrdersBetween(c, s, i, n + 1)) = 0
        BY <3>1, FS_EmptySet, Zenon
      <3>3. QED
        BY <2>1, <3>2
    <2>6. CASE f.symbol = s /\ i <= n + 1
      <3>1. IsFiniteSet(OrdersBetween(b, s, i, n)) /\ Cardinality(OrdersBetween(b, s, i, n)) \in Nat
        <4>1. OrdersBetween(b, s, i, n) \subseteq 1 .. n
          BY <1>1 DEF OrdersBetween
        <4>2. QED
          BY <1>1, <4>1, FiniteIndexSet, FS_CardinalityType
      <3>2. Cardinality(OrdersBetween(c, s, i, n + 1)) = Cardinality(OrdersBetween(b, s, i, n)) + 1
        BY <2>3, <2>6, <3>1, FS_AddElement
      <3>3. AllBuys(b, s, i, n) /\ f.side = "buy"
        BY <1>7, <2>3, <2>6
      <3>4. QED
        BY <2>1, <2>2, <2>6, <3>1, <3>2, <3>3
    <2>7. QED
      BY <1>1, <2>4, <2>5, <2>6
  <1>8. ASSUME NEW s \in Symbol, NEW i \in DOMAIN c.orders, NEW j \in DOMAIN c.orders,
               AllBuys(c, s, i, j)
        PROVE  Cardinality(OrdersBetween(c, s, i, j)) <= MaxBuys
    <2>1. i \in Nat \ {0} /\ i \in 1 .. n + 1 /\ j \in 1 .. n + 1
      BY <1>1
    <2>2. CASE j = n + 1
      <3>1. Cardinality(OrdersBetween(c, s, i, j)) <= c.buys[s] /\ c.buys[s] <= MaxBuys
        BY <1>7, <1>8, <2>1, <2>2
      <3>2. c.buys[s] \in Nat
        BY DEF Account
      <3>3. Cardinality(OrdersBetween(c, s, i, j)) \in Nat
        <4>1. OrdersBetween(c, s, i, j) \subseteq 1 .. n + 1 /\ n + 1 \in Nat
          BY <1>1, <2>1 DEF OrdersBetween
        <4>2. QED
          BY <4>1, FiniteIndexSet, FS_CardinalityType
      <3>4. QED
        BY <1>2, <3>1, <3>2, <3>3
    <2>3. CASE j # n + 1
      <3>1. j \in 1 .. n
        BY <1>1, <2>1, <2>3
      <3>2. OrdersBetween(c, s, i, j) = OrdersBetween(b, s, i, j) /\ AllBuys(b, s, i, j)
        BY <1>8, <1>6, <2>1, <3>1
      <3>3. CASE i \in 1 .. n
        BY <1>1, <3>1, <3>2, <3>3 DEF Streaks
      <3>4. CASE i = n + 1
        <4>1. OrdersBetween(b, s, i, j) = {}
          BY <1>1, <3>1, <3>4 DEF OrdersBetween
        <4>2. QED
          BY <1>2, <3>2, <4>1, FS_EmptySet
      <3>5. QED
        BY <1>1, <2>1, <3>3, <3>4
    <2>4. QED
      BY <2>2, <2>3
  <1>9. QED
    BY <1>1, <1>7, <1>8 DEF Streaks

\* The streaks depend on orders and counts alone.
LEMMA SameStreaks ==
    ASSUME NEW b, NEW c, Streaks(b), c.orders = b.orders, c.buys = b.buys
    PROVE  Streaks(c)
  <1>1. \A s, i, j : /\ OrdersBetween(c, s, i, j) = OrdersBetween(b, s, i, j)
                     /\ AllBuys(c, s, i, j) <=> AllBuys(b, s, i, j)
    BY DEF AllBuys, OrdersBetween
  <1>2. QED
    BY <1>1 DEF Streaks

\* A new account has no streak and nothing to keep.
LEMMA NewStreaks == Streaks(NewAccount) /\ Kept(NewAccount)
  <1>1. /\ NewAccount.orders = <<>> /\ Len(NewAccount.orders) = 0
        /\ \A s \in Symbol : NewAccount.buys[s] = 0 /\ NewAccount.pos[s].qty = 0
    BY DEF NewAccount, NoPosition
  <1>2. \A s \in Symbol, i \in Nat \ {0} : OrdersBetween(NewAccount, s, i, 0) = {}
    BY DEF OrdersBetween
  <1>3. DOMAIN NewAccount.orders = {} /\ MaxBuys \in Nat
    BY <1>1, BrokerConstants
  <1>4. Streaks(NewAccount)
    <2>1. Cardinality({}) = 0
      BY FS_EmptySet
    <2>2. \A s \in Symbol : NewAccount.buys[s] <= MaxBuys
      BY <1>1, <1>3
    <2>3. \A s \in Symbol, i \in Nat \ {0} :
             Cardinality(OrdersBetween(NewAccount, s, i, Len(NewAccount.orders))) <= NewAccount.buys[s]
      <3> SUFFICES ASSUME NEW s \in Symbol, NEW i \in Nat \ {0}
                   PROVE  Cardinality(OrdersBetween(NewAccount, s, i, 0)) <= NewAccount.buys[s]
        BY <1>1
      <3>1. OrdersBetween(NewAccount, s, i, 0) = {} /\ NewAccount.buys[s] = 0
        BY <1>1, <1>2
      <3>2. QED
        BY <2>1, <3>1
    <2>4. QED
      BY <1>3, <2>2, <2>3 DEF Streaks
  <1>5. QED
    BY <1>1, <1>4 DEF Kept

\* What a fill leaves of the streaks.
LEMMA FilledStreaks ==
    ASSUME NEW b \in Account, NEW o \in Order
    PROVE  /\ AfterBuy(b, o).buys = [b.buys EXCEPT ![o.symbol] = o.streak + 1]
           /\ AfterSell(b, o).buys = [b.buys EXCEPT ![o.symbol] = 0]
  <1> DEFINE mid == WithOrder(b, o)
             one == [b.buys EXCEPT ![o.symbol] = o.streak + 1]
             none == [b.buys EXCEPT ![o.symbol] = 0]
  <1>1. mid \in Account /\ mid.buys = b.buys
    BY WithOrderTyped
  <1>2. /\ [mid.buys EXCEPT ![o.symbol] = o.streak + 1] = one
        /\ [mid.buys EXCEPT ![o.symbol] = 0] = none
    BY <1>1
  <1> DEFINE pos == b.pos[o.symbol]
             qty == Smaller(o.qty, pos.qty)
             rest == [pos EXCEPT !.qty = pos.qty - qty]
             profit == (o.exec - pos.avg) * qty - o.fee * Scale
  <1>3. AfterBuy(b, o) =
          [mid EXCEPT !.pos[o.symbol] = Cleaned(Bought(@, o), o.exec),
                      !.dropped = @ + Dropped(Bought(b.pos[o.symbol], o), o.exec),
                      !.cash = @ - (o.notional + o.fee),
                      !.buys = [mid.buys EXCEPT ![o.symbol] = o.streak + 1]]
    BY DEF AfterBuy
  <1>4. AfterSell(b, o) =
          [mid EXCEPT !.pos[o.symbol] = Sold(Cleaned(rest, o.exec), o),
                      !.dropped = @ + Dropped(rest, o.exec),
                      !.realized = @ + RoundDiv(profit, Scale),
                      !.cash = @ + Amount(qty, o.exec) - o.fee,
                      !.buys = [mid.buys EXCEPT ![o.symbol] = 0],
                      !.losing = LosingStreak(@, profit)]
    BY DEF AfterSell
  <1> HIDE DEF mid, one, none, qty, rest, profit
  <1>5. AfterBuy(b, o).buys = one
    BY <1>1, <1>2, <1>3 DEF Account
  <1>6. AfterSell(b, o).buys = none
    BY <1>1, <1>2, <1>4 DEF Account
  <1>7. QED
    BY <1>5, <1>6 DEF one, none

\* A buy leaves a position the dust rule does not take, with an average price
\* and worth keeping: its fee pays for the rounding of the average.
LEMMA BoughtWorth ==
    ASSUME MeaningfulBuys, NEW pos \in Position, NEW o, Checked(o), o.side = "buy",
           o.notional >= MinNotional, pos.qty > 0 => pos.avg > 0
    PROVE  LET new == Cleaned(Bought(pos, o), o.exec)
           IN  new.avg > 0 /\ Cost(new.qty, new.avg) >= MeaningfulNotional * Scale
  <1> DEFINE n == o.qty
             q == pos.qty + n
             held == Cost(pos.qty, pos.avg)
             paid == o.notional * Scale
             fee == o.fee * Scale
             avg == RoundDiv(held + (o.notional + o.fee) * Scale, q)
             new == Bought(pos, o)
  <1>1. /\ pos.qty \in Nat /\ pos.avg \in Nat /\ n \in Nat \ {0} /\ o.notional \in Nat
        /\ o.fee \in Nat /\ o.exec \in Nat /\ Scale \in Nat \ {0} /\ MinNotional \in Nat \ {0}
        /\ o.price \in Price /\ MeaningfulNotional \in Nat /\ DustNotional \in Nat
    BY FeeWithin, MoneyConstants, BrokerAssumption DEF Position, Checked, Order
  <1>2. /\ paid \in Nat /\ fee \in Nat /\ q \in Nat \ {0}
        /\ (o.notional + o.fee) * Scale = paid + fee
    BY <1>1
  <1>3. held \in Nat /\ held >= pos.qty
    <2>1. held \in Nat
      BY <1>1, AmountNat
    <2>2. CASE pos.qty = 0
      BY <1>1, <2>1, <2>2
    <2>3. CASE pos.avg >= 1
      <3>1. pos.qty * pos.avg >= pos.qty * 1
        BY <1>1, <2>3, ProductMonotone
      <3>2. pos.qty * 1 = pos.qty
        BY <1>1
      <3>3. QED
        BY <2>1, <3>1, <3>2 DEF Cost
    <2>4. QED
      BY <1>1, <2>2, <2>3
  <1>4. n >= DustQty /\ n <= 2 * fee
    <2>1. o.notional = Amount(n, ExecutedPrice("buy", o.price)) /\ o.fee = Share(o.notional, FeeBps)
      BY DEF Checked
    <2>2. n >= DustQty /\ n <= 2 * Scale * o.fee
      BY <1>1, <2>1 DEF MeaningfulBuys
    <2>3. 2 * Scale * o.fee = 2 * fee
      BY <1>1
    <2>4. QED
      BY <2>2, <2>3
  <1>5. avg \in Nat /\ 2 * (held + (paid + fee)) < 2 * (q * avg) + q
    <2>1. held + (paid + fee) \in Nat
      BY <1>2, <1>3
    <2>2. avg = RoundDiv(held + (paid + fee), q)
      BY <1>2
    <2> DEFINE cost == held + (paid + fee)
    <2> HIDE DEF held, paid, fee, q, avg, cost
    <2>3. cost \in Nat /\ q \in Nat \ {0} /\ avg = RoundDiv(cost, q)
      BY <1>2, <2>1, <2>2 DEF cost
    <2>4. RoundDiv(cost, q) \in Nat
      BY <2>3, RoundDivNat
    <2>5. 2 * cost < 2 * (q * RoundDiv(cost, q)) + q
      BY <2>3, RoundDivBounds
    <2>6. QED
      BY <2>3, <2>4, <2>5 DEF cost
  <1>6. /\ new.qty = q /\ new.avg = avg /\ new \in Position
    <2>1. new.qty = q /\ new \in Position
      BY BoughtTyped
    <2>2. new.avg = avg
      BY DEF Bought, Position
    <2>3. QED
      BY <2>1, <2>2
  <1>7. q * avg >= paid
    <2>1. q = pos.qty + n /\ q * avg \in Nat
      BY <1>2, <1>5
    <2> HIDE DEF q, held, paid, fee, avg, n
    <2>2. QED
      BY <1>1, <1>2, <1>3, <1>4, <1>5, <2>1
  <1>8. paid >= MinNotional * Scale /\ MinNotional * Scale >= MeaningfulNotional * Scale
        /\ MinNotional * Scale > DustNotional * Scale
    <2>1. MinNotional >= MeaningfulNotional /\ MinNotional >= DustNotional + 1
      BY <1>1 DEF MeaningfulBuys
    <2>2. /\ Scale * o.notional >= Scale * MinNotional
          /\ Scale * MinNotional >= Scale * MeaningfulNotional
          /\ Scale * MinNotional >= Scale * (DustNotional + 1)
      BY <1>1, <2>1, ProductMonotone
    <2>3. Scale * (DustNotional + 1) = DustNotional * Scale + Scale
      BY <1>1
    <2>4. /\ Scale * o.notional = paid /\ Scale * MinNotional = MinNotional * Scale
          /\ Scale * MeaningfulNotional = MeaningfulNotional * Scale
      BY <1>1
    <2>5. MinNotional * Scale \in Nat /\ MeaningfulNotional * Scale \in Nat /\ DustNotional * Scale \in Nat
      BY <1>1
    <2> HIDE DEF paid
    <2>6. QED
      BY <1>1, <2>2, <2>3, <2>4, <2>5
  <1>9. MinNotional * Scale >= 1 /\ MinNotional * Scale \in Nat /\ MeaningfulNotional * Scale \in Nat
        /\ DustNotional * Scale \in Nat
    BY <1>1
  <1>10. avg > 0
    <2> HIDE DEF avg, q, paid
    <2>1. avg = 0 => q * avg = 0
      BY <1>2
    <2>2. QED
      BY <1>2, <1>5, <1>7, <1>8, <1>9, <2>1
  <1>11. ~IsDust(new, o.exec)
    <2>1. ~(new.qty < DustQty)
      BY <1>1, <1>2, <1>4, <1>6, BrokerConstants
    <2>2. ~(Cost(new.qty, o.exec) < DustNotional * Scale)
      <3>1. Cost(q, o.exec) >= Cost(n, o.exec) /\ Cost(n, o.exec) \in Nat /\ Cost(q, o.exec) \in Nat
        <4>1. o.exec * q >= o.exec * n
          BY <1>1, <1>2, ProductMonotone
        <4>2. o.exec * q = Cost(q, o.exec) /\ o.exec * n = Cost(n, o.exec)
          BY <1>1, <1>2 DEF Cost
        <4>3. QED
          BY <1>1, <1>2, <4>1, <4>2, AmountNat
      <3>2. 2 * (Amount(n, o.exec) * Scale) <= 2 * Cost(n, o.exec) + Scale
        BY <1>1, AmountBounds
      <3>3. Amount(n, o.exec) * Scale = paid
        BY DEF Checked
      <3>4. paid >= DustNotional * Scale + Scale
        <4>1. Scale * o.notional >= Scale * (DustNotional + 1)
          <5>1. o.notional >= DustNotional + 1
            BY <1>1 DEF MeaningfulBuys
          <5>2. QED
            BY <1>1, <5>1, ProductMonotone
        <4>2. Scale * o.notional = paid /\ Scale * (DustNotional + 1) = DustNotional * Scale + Scale
          BY <1>1
        <4>3. QED
          BY <4>1, <4>2
      <3>5. Cost(q, o.exec) = Cost(new.qty, o.exec)
        BY <1>6
      <3> HIDE DEF paid, q, n, new
      <3>6. QED
        BY <1>1, <1>2, <1>9, <3>1, <3>2, <3>3, <3>4, <3>5
    <2>3. QED
      BY <2>1, <2>2 DEF IsDust
  <1>12. Cleaned(new, o.exec) = new
    BY <1>11 DEF Cleaned
  <1>13. Cost(new.qty, new.avg) = q * avg
    BY <1>6 DEF Cost
  <1> HIDE DEF q, avg, paid, new
  <1>14. q * avg \in Nat
    BY <1>2, <1>5
  <1>15. QED
    BY <1>2, <1>6, <1>7, <1>8, <1>9, <1>10, <1>12, <1>13, <1>14 DEF new

\* A position is worth keeping by its quantity and average price.
LEMMA SameKept ==
    ASSUME NEW b, NEW c, Kept(b), c.buys = b.buys,
           \A s \in Symbol : c.pos[s].qty = b.pos[s].qty /\ c.pos[s].avg = b.pos[s].avg
    PROVE  Kept(c)
  BY DEF Kept, Worth

\* A buy is one more in its streak, which the check found below the cap.
LEMMA BuyStreaks ==
    ASSUME MeaningfulBuys, NEW b \in Account, NEW o, Checked(o), o.side = "buy",
           o.notional >= MinNotional, o.streak = b.buys[o.symbol], o.streak < MaxBuys,
           Streaks(b), Kept(b)
    PROVE  Streaks(AfterBuy(b, o)) /\ Kept(AfterBuy(b, o))
  <1> DEFINE c == AfterBuy(b, o)
             s == o.symbol
             f == [symbol |-> s, side |-> o.side, tp |-> o.tp]
             one == Cleaned(Bought(b.pos[s], o), o.exec)
  <1>1. /\ o \in Order /\ s \in Symbol /\ o.streak \in Nat /\ MaxBuys \in Nat
        /\ b.pos \in [Symbol -> Position] /\ b.buys \in [Symbol -> Nat]
    BY FeeWithin, BrokerConstants DEF Checked, Account
  <1>2. /\ c \in Account /\ c.pos = [b.pos EXCEPT ![s] = one]
        /\ c.orders = Append(b.orders, f) /\ c.buys = [b.buys EXCEPT ![s] = o.streak + 1]
    BY <1>1, AfterBuyTyped, FilledStreaks
  <1>3. f \in Fill /\ f.symbol = s
    BY <1>1, FeeWithin DEF Fill
  <1> HIDE DEF c, f, one
  <1>4. /\ c.buys[s] = o.streak + 1 /\ c.pos[s] = one
        /\ \A u \in Symbol : u # s => c.buys[u] = b.buys[u] /\ c.pos[u] = b.pos[u]
    BY <1>1, <1>2
  <1>5. \A u \in Symbol : c.buys[u] <= MaxBuys
    <2>1. \A u \in Symbol : b.buys[u] <= MaxBuys
      BY DEF Streaks
    <2>2. o.streak + 1 <= MaxBuys
      BY <1>1
    <2>3. QED
      BY <1>4, <2>1, <2>2
  <1>6. c.buys[s] = b.buys[s] + 1
    BY <1>4
  <1>7. Streaks(c)
    BY <1>2, <1>3, <1>4, <1>5, <1>6, StreaksAppended
  <1>8. one.avg > 0 /\ Cost(one.qty, one.avg) >= MeaningfulNotional * Scale
    <2>1. b.pos[s] \in Position /\ (b.pos[s].qty > 0 => b.pos[s].avg > 0)
      BY <1>1 DEF Kept
    <2>2. QED
      BY <2>1, BoughtWorth DEF one
  <1>9. Kept(c)
    <2> SUFFICES ASSUME NEW u \in Symbol
                 PROVE  /\ c.pos[u].qty > 0 => c.pos[u].avg > 0
                        /\ c.buys[u] > 0 => Worth(c, u) >= MeaningfulNotional * Scale
      BY DEF Kept
    <2>1. CASE u = s
      BY <1>4, <1>8, <2>1 DEF Worth
    <2>2. CASE u # s
      BY <1>4, <2>2 DEF Kept, Worth
    <2>3. QED
      BY <2>1, <2>2
  <1>10. QED
    BY <1>7, <1>9 DEF c

\* A sell ends the streak of its symbol and leaves the average price alone
\* unless nothing is left.
LEMMA SellStreaks ==
    ASSUME NEW b \in Account, NEW o, Checked(o), o.side = "sell", Streaks(b), Kept(b)
    PROVE  Streaks(AfterSell(b, o)) /\ Kept(AfterSell(b, o))
  <1> DEFINE c == AfterSell(b, o)
             s == o.symbol
             f == [symbol |-> s, side |-> o.side, tp |-> o.tp]
             old == b.pos[s]
             qty == Smaller(o.qty, old.qty)
             rest == [old EXCEPT !.qty = old.qty - qty]
             one == Sold(Cleaned(rest, o.exec), o)
  <1>1. /\ o \in Order /\ s \in Symbol /\ MaxBuys \in Nat
        /\ b.pos \in [Symbol -> Position] /\ b.buys \in [Symbol -> Nat]
    BY FeeWithin, BrokerConstants DEF Checked, Account
  <1>2. /\ c \in Account /\ rest \in Position /\ c.pos = [b.pos EXCEPT ![s] = one]
        /\ c.orders = Append(b.orders, f) /\ c.buys = [b.buys EXCEPT ![s] = 0]
    BY <1>1, AfterSellTyped, FilledStreaks
  <1>3. f \in Fill /\ f.symbol = s /\ f.side = "sell"
    BY <1>1, FeeWithin DEF Fill
  <1>4. one.qty > 0 => one.avg > 0
    <2>1. rest.avg = old.avg /\ rest.qty = old.qty - qty
      BY <1>1 DEF Position
    <2>2. old.qty \in Nat /\ qty \in Nat /\ (old.qty > 0 => old.avg > 0)
      <3>1. old \in Position /\ o.qty \in Nat
        BY <1>1, FeeWithin
      <3>2. old.qty \in Nat
        BY <3>1 DEF Position
      <3>3. qty \in Nat
        BY <3>1, <3>2 DEF Smaller
      <3>4. old.qty > 0 => old.avg > 0
        BY <1>1 DEF Kept
      <3>5. QED
        BY <3>2, <3>3, <3>4
    <2> HIDE DEF qty, old
    <2>3. rest.qty > 0 => rest.avg > 0
      BY <2>1, <2>2
    <2> HIDE DEF rest
    <2> DEFINE left == Cleaned(rest, o.exec)
    <2>4. left \in Position /\ (left.qty > 0 => left.avg > 0)
      BY <1>2, <2>3 DEF Cleaned, Position
    <2> HIDE DEF left
    <2>5. one = Sold(left, o)
      BY DEF left
    <2>6. QED
      BY <2>4, <2>5 DEF Sold, Position
  <1> HIDE DEF c, f, one, rest, qty, old
  <1>5. /\ c.buys[s] = 0 /\ c.pos[s] = one
        /\ \A u \in Symbol : u # s => c.buys[u] = b.buys[u] /\ c.pos[u] = b.pos[u]
    BY <1>1, <1>2
  <1>6. \A u \in Symbol : c.buys[u] <= MaxBuys
    <2>1. \A u \in Symbol : b.buys[u] <= MaxBuys
      BY DEF Streaks
    <2>2. QED
      BY <1>1, <1>5, <2>1
  <1>7. Streaks(c)
    BY <1>2, <1>3, <1>5, <1>6, StreaksAppended
  <1>8. Kept(c)
    <2> SUFFICES ASSUME NEW u \in Symbol
                 PROVE  /\ c.pos[u].qty > 0 => c.pos[u].avg > 0
                        /\ c.buys[u] > 0 => Worth(c, u) >= MeaningfulNotional * Scale
      BY DEF Kept
    <2>1. CASE u = s
      BY <1>4, <1>5, <2>1
    <2>2. CASE u # s
      BY <1>5, <2>2 DEF Kept, Worth
    <2>3. QED
      BY <2>1, <2>2
  <1>9. QED
    BY <1>7, <1>8 DEF c

\* A sell that is refused late is an order and nothing else.
LEMMA RejectedStreaks ==
    ASSUME NEW b \in Account, NEW o \in Order, o.side = "sell", Streaks(b), Kept(b)
    PROVE  Streaks(WithOrder(b, o)) /\ Kept(WithOrder(b, o))
  <1> DEFINE c == WithOrder(b, o)
             f == [symbol |-> o.symbol, side |-> o.side, tp |-> o.tp]
  <1>1. /\ c \in Account /\ c.orders = Append(b.orders, f) /\ f \in Fill
        /\ c.pos = b.pos /\ c.buys = b.buys
    BY WithOrderTyped
  <1>2. f.side = "sell"
    OBVIOUS
  <1> HIDE DEF c, f
  <1>3. \A s \in Symbol : c.buys[s] <= MaxBuys
    BY <1>1 DEF Streaks
  <1>4. Streaks(c)
    BY <1>1, <1>2, <1>3, StreaksAppended
  <1>5. Kept(c)
    BY <1>1, SameKept
  <1>6. QED
    BY <1>4, <1>5 DEF c

\* Evaluating and marking touch neither.
LEMMA EvaluatedStreaks ==
    ASSUME NEW b \in Account, NEW s \in Symbol, NEW price \in Price, Streaks(b), Kept(b),
           NEW c \in {Trailed(b, s, price), Marked(b, s, price), Evaluated(b, s, price)}
    PROVE  Streaks(c) /\ Kept(c)
  <1>1. /\ c.pos \in {b.pos, [b.pos EXCEPT ![s] = AfterExitRules(b.pos[s], price)]}
        /\ c.orders = b.orders
    BY EvaluatedTyped
  <1>2. c.buys = b.buys
    BY DEF Trailed, Marked, Evaluated, Account
  <1>3. /\ AfterExitRules(b.pos[s], price).qty = b.pos[s].qty
        /\ AfterExitRules(b.pos[s], price).avg = b.pos[s].avg
    <2>1. b.pos[s] \in Position /\ price \in Nat
      BY BrokerConstants DEF Account
    <2>2. QED
      BY <2>1, AfterExitRulesTyped
  <1>4. \A u \in Symbol : c.pos[u].qty = b.pos[u].qty /\ c.pos[u].avg = b.pos[u].avg
    <2>1. b.pos \in [Symbol -> Position]
      BY DEF Account
    <2>2. QED
      BY <1>1, <1>3, <2>1
  <1>5. QED
    BY <1>1, <1>2, <1>4, SameStreaks, SameKept

\* What the exchange reports is worth keeping.
LEMMA SyncedStreaks ==
    ASSUME MeaningfulBuys, NEW b \in Account, NEW s \in Symbol, NEW h \in Holding,
           Streaks(b), Kept(b)
    PROVE  Streaks(Synced(b, s, h)) /\ Kept(Synced(b, s, h))
  <1> DEFINE c == Synced(b, s, h)
             avg == IF h.qty > 0 THEN h.avg ELSE 0
             one == [b.pos[s] EXCEPT !.qty = h.qty, !.avg = avg]
  <1>1. c.orders = b.orders /\ c.buys = b.buys /\ c.pos = [b.pos EXCEPT ![s] = one]
    BY DEF Synced, Account
  <1>2. b.pos \in [Symbol -> Position]
    BY DEF Account
  <1>3. one.qty = h.qty /\ one.avg = avg
    BY <1>2 DEF Position
  <1>4. h.qty > 0 /\ h.avg > 0 /\ h.qty * h.avg >= MeaningfulNotional * Scale
    BY DEF MeaningfulBuys
  <1>5. avg = h.avg
    BY <1>4
  <1> HIDE DEF c, avg, one
  <1>6. c.pos[s] = one /\ \A u \in Symbol : u # s => c.pos[u] = b.pos[u]
    BY <1>1, <1>2
  <1>7. Kept(c)
    <2> SUFFICES ASSUME NEW u \in Symbol
                 PROVE  /\ c.pos[u].qty > 0 => c.pos[u].avg > 0
                        /\ c.buys[u] > 0 => Worth(c, u) >= MeaningfulNotional * Scale
      BY DEF Kept
    <2>1. CASE u = s
      BY <1>3, <1>4, <1>5, <1>6, <2>1 DEF Worth, Cost
    <2>2. CASE u # s
      BY <1>1, <1>6, <2>2 DEF Kept, Worth
    <2>3. QED
      BY <2>1, <2>2
  <1>8. Streaks(c)
    BY <1>1, SameStreaks
  <1>9. QED
    BY <1>7, <1>8 DEF c

\* A restart clears the streaks only when there is none: a streak keeps its
\* position worth managing.
LEMMA RestoredStreaks ==
    ASSUME NEW b \in Account, Streaks(b), Kept(b)
    PROVE  Streaks(Restored(b)) /\ Kept(Restored(b))
  <1>1. Restored(b).orders = b.orders /\ Restored(b).pos = b.pos
    BY RestoredTyped
  <1>2. Restored(b).buys = b.buys
    <2>1. CASE \E s \in Symbol : Cost(b.pos[s].qty, b.pos[s].avg) >= MeaningfulNotional * Scale
      BY <2>1 DEF Restored
    <2>2. CASE ~\E s \in Symbol : Cost(b.pos[s].qty, b.pos[s].avg) >= MeaningfulNotional * Scale
      <3>1. b.buys \in [Symbol -> Nat]
        BY DEF Account
      <3>2. \A s \in Symbol : ~(b.buys[s] > 0)
        BY <2>2 DEF Kept, Worth
      <3>3. b.buys = [s \in Symbol |-> 0]
        BY <3>1, <3>2
      <3>4. Restored(b).buys = [s \in Symbol |-> 0]
        BY <2>2 DEF Restored, Account
      <3>5. QED
        BY <3>3, <3>4
    <2>3. QED
      BY <2>1, <2>2
  <1>3. QED
    BY <1>1, <1>2, SameStreaks, SameKept

\* The account in memory and the one on file, which a restart reloads, and the
\* check made before the buy.
StreakInv ==
    /\ StreakKnown
    /\ Streaks(book) /\ Kept(book)
    /\ Streaks(ledger.book) /\ Kept(ledger.book)

\* Nothing is bought at the start.
LEMMA StreakInvInit == Init => StreakInv
  <1>1. Init => StreakKnown
    BY DEF Init, StreakKnown
  <1>2. Init => book = NewAccount /\ ledger.book = NewAccount
    BY DEF Init, EmptyLedger
  <1>3. QED
    BY <1>1, <1>2, NewStreaks DEF StreakInv

\* The streak that was checked is the one that grows, and no step loses one.
LEMMA StreakInvStep ==
    ASSUME MeaningfulBuys, BrokerInv, StreakInv, [BrokerNext]_vars
    PROVE  StreakInv'
  <1>1. /\ book \in Account /\ ledger \in Ledger /\ ledger.book \in Account
        /\ stage \in [Thread -> Stage]
        /\ order \in [Thread -> Order \cup {NoOrder}]
        /\ Streaks(book) /\ Kept(book) /\ Streaks(ledger.book) /\ Kept(ledger.book)
    BY DEF BrokerInv, TypeOK, Ledger, StreakInv
  <1>2. BrokerInv'
    BY BrokerInvStep
  <1>3. book' \in Account
    BY <1>2 DEF BrokerInv, TypeOK
  <1>4. ASSUME NEW t \in Thread, stage'[t] # "checked" PROVE StreakKnown'
    BY <1>4, SerialUse DEF StreakKnown
  <1>5. ASSUME StreakKnown', Streaks(book'), Kept(book'), ledger'.book \in {ledger.book, book'}
        PROVE  StreakInv'
    BY <1>1, <1>5 DEF StreakInv
  <1>6. ASSUME NEW t \in Thread, stage[t] = "checked"
        PROVE  Checked(order[t]) /\ order[t] \in Order /\ order[t].symbol \in Symbol
    <2>1. Checked(order[t])
      BY <1>6 DEF BrokerInv, OrderReady
    <2>2. QED
      BY <2>1, FeeWithin DEF Checked
  <1>7. ASSUME NEW t \in Thread, NEW r \in AnyRequest, TpRequest(r), Check(t, r)
        PROVE  StreakInv'
    <2> DEFINE o == Priced(book, r)
    <2>1. /\ order' = [order EXCEPT ![t] = o] /\ book' = book /\ ledger' = ledger
          /\ Accepts(book, o)
      BY <1>7 DEF Check
    <2>2. o.streak = book.buys[o.symbol]
      BY DEF Priced
    <2>3. o.notional >= MinNotional /\ (o.side = "buy" => o.streak < MaxBuys)
      BY <2>1 DEF Accepts
    <2> HIDE DEF o
    <2>4. order'[t] = o
      BY <1>1, <2>1
    <2>5. StreakKnown'
      BY <2>1, <2>2, <2>3, <2>4, SerialUse DEF StreakKnown
    <2>6. QED
      BY <1>1, <1>5, <2>1, <2>5
  <1>8. ASSUME NEW t \in Thread, Buy(t) PROVE StreakInv'
    <2>1. stage[t] = "checked" /\ order[t].side = "buy" /\ book' = AfterBuy(book, order[t])
          /\ ledger' = ledger
          /\ stage' = [stage EXCEPT ![t] = "filled"]
      BY <1>8 DEF Buy
    <2>2. Checked(order[t]) /\ order[t].symbol \in Symbol
      BY <1>6, <2>1
    <2>3. /\ order[t].streak = book.buys[order[t].symbol] /\ order[t].streak < MaxBuys
          /\ order[t].notional >= MinNotional
      BY <2>1 DEF StreakInv, StreakKnown
    <2>4. Streaks(book') /\ Kept(book')
      BY <1>1, <2>1, <2>2, <2>3, BuyStreaks
    <2>5. stage'[t] # "checked"
      BY <1>1, <2>1
    <2>6. QED
      BY <1>4, <1>5, <2>1, <2>4, <2>5
  <1>9. ASSUME NEW t \in Thread, Sell(t) PROVE StreakInv'
    <2>1. stage[t] = "checked" /\ order[t].side = "sell" /\ book' = AfterSell(book, order[t])
          /\ ledger' = ledger
          /\ stage' = [stage EXCEPT ![t] = "filled"]
      BY <1>9 DEF Sell
    <2>2. Checked(order[t]) /\ order[t].symbol \in Symbol
      BY <1>6, <2>1
    <2>3. Streaks(book') /\ Kept(book')
      BY <1>1, <2>1, <2>2, SellStreaks
    <2>4. stage'[t] # "checked"
      BY <1>1, <2>1
    <2>5. QED
      BY <1>4, <1>5, <2>1, <2>3, <2>4
  <1>10. ASSUME NEW t \in Thread, SellRejectedLate(t) PROVE StreakInv'
    <2> DEFINE o == [order[t] EXCEPT !.tp = FALSE]
    <2>1. stage[t] = "checked" /\ order[t].side = "sell" /\ book' = WithOrder(book, o)
          /\ ledger' = ledger /\ stage' = [stage EXCEPT ![t] = "idle"]
      BY <1>10 DEF SellRejectedLate, EndSubmit
    <2>2. o \in Order /\ o.side = "sell"
      BY <1>6, <2>1 DEF Order
    <2> HIDE DEF o
    <2>3. Streaks(book') /\ Kept(book')
      BY <1>1, <2>1, <2>2, RejectedStreaks
    <2>4. stage'[t] # "checked"
      BY <1>1, <2>1
    <2>5. QED
      BY <1>4, <1>5, <2>1, <2>3, <2>4
  <1>11. ASSUME NEW t \in Thread, LogTrade(t) \/ LogTradeRaises(t) \/ Persist(t) PROVE StreakInv'
    <2>1. book' = book /\ ledger'.book \in {ledger.book, book}
      BY <1>11, RecordStep
    <2>2. stage'[t] # "checked"
      BY <1>1, <1>11, RecordStep DEF EndSubmit
    <2>3. QED
      BY <1>1, <1>4, <1>5, <2>1, <2>2
  <1>12. ASSUME NEW t \in Thread, EditAccount(t) PROVE StreakInv'
    <2>1. ASSUME NEW s \in Symbol, NEW p \in Price,
                 EvaluateExit(t, s, p) \/ Commit(t, Marked(book, s, p)) \/ Commit(t, Evaluated(book, s, p))
          PROVE  Streaks(book') /\ Kept(book')
      <3>1. book' \in {Trailed(book, s, p), Marked(book, s, p), Evaluated(book, s, p)}
        BY <2>1 DEF EvaluateExit, Commit, Trailed
      <3>2. QED
        BY <1>1, <3>1, EvaluatedStreaks
    <2>2. ASSUME NEW s \in Symbol, NEW h \in Holding, Commit(t, Synced(book, s, h))
          PROVE  Streaks(book') /\ Kept(book')
      BY <1>1, <2>2, SyncedStreaks DEF Commit
    <2>3. Commit(t, NewAccount) => Streaks(book') /\ Kept(book')
      BY NewStreaks DEF Commit
    <2>4. Streaks(book') /\ Kept(book')
      BY <1>12, <2>1, <2>2, <2>3 DEF EditAccount
    <2>5. ledger'.book \in {ledger.book, book'} /\ stage'[t] # "checked"
      BY <1>12, EditStep, LedgerBook DEF BrokerStep
    <2>6. QED
      BY <1>4, <1>5, <2>4, <2>5
  <1>13. ASSUME NEW t \in Thread, BrokerStep(t) PROVE StreakInv'
    BY <1>7, <1>8, <1>9, <1>10, <1>11, <1>12, <1>13 DEF BrokerStep, FillStep
  <1>14. CASE Crash
    <2>1. book' = Restored(ledger.book) /\ ledger' = ledger
      BY <1>14 DEF Crash
    <2>2. \A t \in Thread : stage'[t] = "idle"
      BY <1>14, CrashStep
    <2>3. StreakKnown'
      BY <2>2 DEF StreakKnown
    <2>4. Streaks(book') /\ Kept(book')
      BY <1>1, <2>1, RestoredStreaks
    <2>5. QED
      BY <1>5, <2>1, <2>3, <2>4
  <1>15. CASE UNCHANGED vars
    <2>1. StreakKnown'
      BY <1>15 DEF vars, StreakInv, StreakKnown
    <2>2. QED
      BY <1>1, <1>5, <1>15, <2>1 DEF vars
  <1>16. QED
    BY <1>13, <1>14, <1>15 DEF BrokerNext

\* The orders of a symbol never hold more than max_consecutive_buys buys in a
\* row, whatever the number of restarts and of failed saves: a streak is
\* forgotten only together with a position not worth managing, and a position
\* that was last bought is worth it.  One thread uses the broker (SerialUse).
THEOREM BrokerBuyStreakCapped ==
    ASSUME MeaningfulBuys PROVE Spec => []BuyStreakCapped
  <1>1. Init => BrokerInv /\ StreakInv
    BY BrokerInvInit, StreakInvInit
  <1>2. BrokerInv /\ StreakInv /\ [Next]_vars => (BrokerInv /\ StreakInv)'
    BY BrokerInvStep, StreakInvStep, NextIsBrokerNext
  <1>3. StreakInv => BuyStreakCapped
    BY DEF StreakInv, Streaks, AllBuys, BuyStreakCapped
  <1>4. QED
    BY <1>1, <1>2, <1>3, PTL DEF Spec
=============================================================================
