------------------------- MODULE AutoTradeRoundProofs ------------------------
(***************************************************************************)
(* Theorems about AutoTradeRound: what a run decides, orders and keeps.    *)
(***************************************************************************)
EXTENDS AutoTradeRound, MoneyProofs

-----------------------------------------------------------------------------
(***************************************************************************)
(* Constants and choices.                                                  *)
(***************************************************************************)

\* The constants of the sizes, one by one.
LEMMA SizingConstants ==
    /\ Symbols \in Seq(Symbol) /\ Len(Symbols) \in Nat \ {0} /\ IsInjective(Symbols)
    /\ MinKrw \in Nat /\ TotalBps \in Nat /\ SymbolBps \in Nat
    /\ Meaningful \in Nat /\ MinManaged \in Nat
    /\ StopLossBps \in Nat /\ TakeProfitBps \in Nat /\ TrailBps \in Nat
    /\ AllocationBps \in Nat /\ SellRatioBps \in Nat /\ SellRatioBps <= BasisPoints
    /\ Thousand \in Nat \ {0}
  <1>1. Symbols \in Seq(STRING) /\ Len(Symbols) > 0 /\ IsInjective(Symbols)
    BY LiveSizingAssumption
  <1>2. Symbols \in Seq(Symbol) /\ Len(Symbols) \in Nat \ {0}
    BY <1>1 DEF Symbol, Range
  <1>3. /\ MinKrw \in Nat /\ TotalBps \in Nat /\ SymbolBps \in Nat
        /\ Meaningful \in Nat /\ MinManaged \in Nat
        /\ StopLossBps \in Nat /\ TakeProfitBps \in Nat /\ TrailBps \in Nat
    BY LiveSizingAssumption
  <1>4. AllocationBps \in 1 .. BasisPoints /\ SellRatioBps \in 1 .. BasisPoints
    BY LiveSizingAssumption
  <1>5. AllocationBps \in Nat /\ SellRatioBps \in Nat /\ SellRatioBps <= BasisPoints
    BY <1>4 DEF BasisPoints
  <1>6. QED
    BY <1>1, <1>2, <1>3, <1>5, LiveSizingAssumption

\* The constants of a run, one by one.
LEMMA RoundConstants ==
    /\ TopN \in Nat /\ StartingKrw \in Nat /\ MaxOrders \in Nat
    /\ CycleQty \subseteq Nat
    /\ \A p \in Price : /\ p \in [Symbol -> Nat]
                        /\ \A s \in Symbol : p[s] \in Nat \ {0} /\ p[s] <= MinNotional * Scale
    /\ Strategies \in Seq(Range(Strategies)) /\ Len(Strategies) \in Nat \ {0}
    /\ \A opinion \in Opinion, strategy \in Range(Strategies) :
          opinion.review[strategy] \in [action : Action, confidence : Nat, target : Nat]
  <1>1. TopN \in Nat /\ StartingKrw \in Nat /\ MaxOrders \in Nat /\ CycleQty \subseteq Nat
    BY AutoTradeRoundAssumption
  <1>2. ASSUME NEW p \in Price
        PROVE  /\ p \in [Symbol -> Nat]
               /\ \A s \in Symbol : p[s] \in Nat \ {0} /\ p[s] <= MinNotional * Scale
    <2>1. p \in [Symbol -> 1 .. MinNotional * Scale] /\ MinNotional * Scale \in Nat
      BY AutoTradeRoundAssumption, MoneyConstants
    <2>2. \A s \in Symbol : p[s] \in Nat \ {0} /\ p[s] <= MinNotional * Scale
      BY <2>1
    <2>3. QED
      BY <2>1, <2>2
  <1>3. Strategies \in Seq(Range(Strategies)) /\ Len(Strategies) \in Nat \ {0}
    BY AutoTradeRoundAssumption DEF Range
  <1>4. \A opinion \in Opinion, strategy \in Range(Strategies) :
           opinion.review[strategy] \in [action : Action, confidence : Nat, target : Nat]
    BY AutoTradeRoundAssumption
  <1>5. QED
    BY <1>1, <1>2, <1>3, <1>4

\* Of pairs of numbers, compared by the first and then by the second, the first
\* greatest one.
IsFirstGreatest(I, p, k, i) ==
    \A j \in I \ {i} :
        /\ ~(p[j] > p[i] \/ (p[j] = p[i] /\ k[j] > k[i]))
        /\ j < i => p[i] > p[j] \/ (p[i] = p[j] /\ k[i] > k[j])

\* Among finitely many pairs there is one.
LEMMA FirstGreatest ==
    ASSUME NEW n \in Nat, NEW I, I \subseteq 1 .. n, I # {},
           NEW p \in [I -> Int], NEW k \in [I -> Int]
    PROVE  \E i \in I : IsFirstGreatest(I, p, k, i)
  <1> DEFINE Precedes(j, i) == \/ p[j] > p[i]
                               \/ p[j] = p[i] /\ k[j] > k[i]
                               \/ p[j] = p[i] /\ k[j] = k[i] /\ j < i
             R == {ij \in I \X I : Precedes(ij[1], ij[2])}
  <1>1. IsFiniteSet(I)
    <2>1. IsFiniteSet(1 .. n) /\ I \in SUBSET (1 .. n)
      BY FS_Interval
    <2>2. QED
      BY <2>1, FS_Subset
  <1>2. \A i \in I : p[i] \in Int /\ k[i] \in Int /\ i \in Int
    OBVIOUS
  <1>3. \A i, j \in I : <<i, j>> \in R <=> Precedes(i, j)
    OBVIOUS
  <1>4. \A i \in I : ~Precedes(i, i)
    BY <1>2
  <1>5. \A i, j, l \in I : Precedes(i, j) /\ Precedes(j, l) => Precedes(i, l)
    BY <1>2
  <1>6. \A i, j \in I : i = j \/ Precedes(i, j) \/ Precedes(j, i)
    BY <1>2
  <1> HIDE DEF R
  <1>7. PICK i \in I : \A j \in I : <<j, i>> \notin R
    <2>1. \A i \in I : <<i, i>> \notin R
      BY <1>3, <1>4
    <2>2. \A i, j, l \in I : <<i, j>> \in R /\ <<j, l>> \in R => <<i, l>> \in R
      <3> HIDE DEF Precedes
      <3> QED BY <1>3, <1>5
    <2>3. QED
      BY <1>1, <2>1, <2>2, MinimalElement
  <1>8. \A j \in I \ {i} : ~Precedes(j, i) /\ Precedes(i, j)
    <2> HIDE DEF Precedes
    <2> QED BY <1>3, <1>6, <1>7
  <1>9. QED
    BY <1>2, <1>8 DEF IsFirstGreatest

\* A candidate's score and priority are numbers.
LEMMA ScoreNat ==
    ASSUME NEW c \in CandidateType
    PROVE  Score(c) \in Nat /\ Priority(c) \in {0, 200, 300}
  <1>1. c.confidence \in Nat /\ c.target \in Nat /\ Thousand \in Nat
    BY SizingConstants DEF CandidateType
  <1>2. Smaller(c.target, 20 * Thousand) \in Nat /\ c.confidence * Thousand \in Nat
    BY <1>1 DEF Smaller
  <1>3. Score(c) \in Nat
    BY <1>2 DEF Score
  <1>4. QED
    BY <1>3 DEF Priority

\* A best candidate exists: it is one of those asked for.
LEMMA BestByScore ==
    ASSUME NEW seq \in Seq(CandidateType), NEW I, I \subseteq DOMAIN seq, I # {}
    PROVE  Foremost(seq, I, ScoresMore) \in I
  <1> DEFINE p == [i \in I |-> 0]
             k == [i \in I |-> Score(seq[i])]
  <1>1. Len(seq) \in Nat /\ I \subseteq 1 .. Len(seq) /\ \A i \in I : seq[i] \in CandidateType
    OBVIOUS
  <1>2. p \in [I -> Int] /\ k \in [I -> Int]
    BY <1>1, ScoreNat
  <1>3. /\ \A i \in I : p[i] = 0 /\ k[i] = Score(seq[i])
    OBVIOUS
  <1> HIDE DEF p, k
  <1>4. PICK i \in I : IsFirstGreatest(I, p, k, i)
    BY <1>1, <1>2, FirstGreatest
  <1> DEFINE IsBest(x) == \A j \in I \ {x} :
                 ~ScoresMore(seq[j], seq[x]) /\ (j < x => ScoresMore(seq[x], seq[j]))
  <1>5. IsBest(i)
    BY <1>3, <1>4 DEF IsFirstGreatest, ScoresMore
  <1>6. Foremost(seq, I, ScoresMore) = CHOOSE x \in I : IsBest(x)
    BY DEF Foremost
  <1>7. QED
    <2> HIDE DEF IsBest
    <2> QED BY <1>5, <1>6

\* So does a best candidate to sell, and none of the others comes before it.
LEMMA BestToSell ==
    ASSUME NEW seq \in Seq(CandidateType), NEW I, I \subseteq DOMAIN seq, I # {}
    PROVE  LET best == Foremost(seq, I, SellBefore)
           IN  best \in I /\ \A j \in I : ~SellBefore(seq[j], seq[best])
  <1> DEFINE p == [i \in I |-> Priority(seq[i])]
             k == [i \in I |-> Score(seq[i])]
             IsBest(i) == \A j \in I \ {i} :
                 ~SellBefore(seq[j], seq[i]) /\ (j < i => SellBefore(seq[i], seq[j]))
  <1>1. Len(seq) \in Nat /\ I \subseteq 1 .. Len(seq) /\ \A i \in I : seq[i] \in CandidateType
    OBVIOUS
  <1>2. p \in [I -> Int] /\ k \in [I -> Int]
    BY <1>1, ScoreNat
  <1>3. /\ \A i \in I : p[i] = Priority(seq[i]) /\ k[i] = Score(seq[i])
    OBVIOUS
  <1> HIDE DEF p, k
  <1>4. PICK i \in I : IsFirstGreatest(I, p, k, i)
    BY <1>1, <1>2, FirstGreatest
  <1>5. IsBest(i)
    BY <1>3, <1>4 DEF IsFirstGreatest, SellBefore, ScoresMore
  <1>6. Foremost(seq, I, SellBefore) \in I /\ IsBest(Foremost(seq, I, SellBefore))
    <2>1. Foremost(seq, I, SellBefore) = CHOOSE x \in I : IsBest(x)
      BY DEF Foremost
    <2> HIDE DEF IsBest
    <2>2. QED
      BY <1>5, <2>1
  <1>7. \A j \in I : ~SellBefore(seq[j], seq[j])
    BY <1>1, ScoreNat DEF SellBefore, ScoresMore
  <1>8. QED
    BY <1>6, <1>7
-----------------------------------------------------------------------------
(***************************************************************************)
(* Accounts.                                                               *)
(***************************************************************************)

\* What a run has read of the account.
AccountType ==
    [cash : Nat, held : [Symbol -> Nat], avg : [Symbol -> Nat], price : [Symbol -> Nat],
     ticker : BOOLEAN]

\* The assets of an account have a value, and so has the account.
LEMMA ExposureNat ==
    ASSUME NEW account \in AccountType
    PROVE  /\ \A s \in Symbol : AssetValue(account, s) \in Nat
           /\ Exposure(account) \in Nat
  <1>1. \A s \in Symbol : AssetValue(account, s) \in Nat
    BY AmountNat DEF AccountType, AssetValue
  <1> DEFINE N == Len(Symbols)
             V == [n \in 1 .. N |-> AssetValue(account, Symbols[n])]
             UpTo(sum) == [n \in 0 .. N |->
                              IF n = 0 THEN 0 ELSE sum[n - 1] + AssetValue(account, Symbols[n])]
             sums == CHOOSE sum : sum = UpTo(sum)
  <1>2. N \in Nat /\ V \in [1 .. N -> Nat]
    <2>1. N \in Nat /\ \A n \in 1 .. N : Symbols[n] \in Symbol
      BY SizingConstants
    <2>2. QED
      BY <1>1, <2>1
  <1>3. \A sum : UpTo(sum) = [n \in 0 .. N |-> IF n = 0 THEN 0 ELSE sum[n - 1] + V[n]]
    BY <1>2
  <1>4. Exposure(account) = sums[N]
    BY DEF Exposure
  <1> HIDE DEF N, V, UpTo
  <1>5. sums = UpTo(sums)
    BY <1>2, <1>3, SumExists
  <1> HIDE DEF sums
  <1>6. sums[0] = 0 /\ \A n \in 1 .. N : sums[n] = sums[n - 1] + V[n]
    BY <1>2, <1>3, <1>5
  <1>7. \A n \in 0 .. N : sums[n] \in Nat
    BY <1>2, <1>6, SumNat
  <1>8. QED
    BY <1>1, <1>2, <1>4, <1>7
-----------------------------------------------------------------------------
(***************************************************************************)
(* Candidates.                                                             *)
(***************************************************************************)

AssetType == [qty : Nat, avg : Nat]
ReviewType == [action : Action, confidence : Nat, target : Nat]

\* A holding that is worth a sell and has lost as much as the stop-loss allows.
Stopped(qty, average, at) == Exitable(qty, average, at) /\ LossAtLeast(at, average, StopLossBps)

\* A candidate that sells all of a holding at its stop-loss.
StopsOut(c, s, qty, at) ==
    /\ c.symbol = s /\ c.action = "sell"
    /\ c.override = [reason |-> "stop_loss", ratio |-> BasisPoints]
    /\ c.price = at /\ c.qty = qty

\* The override is one of its kinds, and the stop-loss comes first.
LEMMA LiveExitTyped ==
    ASSUME NEW average \in Nat, NEW at \in Nat, NEW top \in Nat
    PROVE  /\ LiveExit(average, at, top) \in Override
           /\ LiveExit(average, at, top).reason = "stop_loss"
                <=> LossAtLeast(at, average, StopLossBps)
           /\ LiveExit(average, at, top).reason = "stop_loss" =>
                LiveExit(average, at, top) = [reason |-> "stop_loss", ratio |-> BasisPoints]
  <1>1. /\ BasisPoints \in 0 .. BasisPoints /\ SellRatioBps \in 0 .. BasisPoints
        /\ 0 \in 0 .. BasisPoints
    BY SizingConstants DEF BasisPoints
  <1>2. LiveExit(average, at, top) \in
            {[reason |-> "stop_loss", ratio |-> BasisPoints],
             [reason |-> "take_profit_trailing_stop", ratio |-> SellRatioBps], NoOverride}
    BY DEF LiveExit
  <1>3. LiveExit(average, at, top) \in Override
    BY <1>1, <1>2 DEF Override, NoOverride
  <1>4. CASE LossAtLeast(at, average, StopLossBps)
    BY <1>3, <1>4 DEF LiveExit
  <1>5. CASE ~LossAtLeast(at, average, StopLossBps)
    BY <1>3, <1>5 DEF LiveExit, NoOverride
  <1>6. QED
    BY <1>3, <1>4, <1>5

\* What a strategy's review makes of a holding.
LEMMA CandidateTyped ==
    ASSUME NEW s \in Symbol, NEW strategy \in Range(Strategies), NEW review \in ReviewType,
           NEW base \in AssetType, NEW at \in Nat \ {0}, NEW top \in Nat,
           NEW c, c = Candidate(s, strategy, review, base, at, top)
    PROVE  /\ c \in CandidateType
           /\ c.symbol = s /\ c.price = at /\ c.qty = base.qty
           /\ c.override.reason = "stop_loss" =>
                Stopped(base.qty, base.avg, at) /\ StopsOut(c, s, base.qty, at)
           /\ Stopped(base.qty, base.avg, at) => StopsOut(c, s, base.qty, at)
  <1> DEFINE exitable == Exitable(base.qty, base.avg, at)
             override == IF exitable THEN LiveExit(base.avg, at, top) ELSE NoOverride
             action == IF override # NoOverride THEN "sell"
                       ELSE IF review.action = "sell" /\ ~exitable THEN "hold"
                       ELSE review.action
  <1>1. base.qty \in Nat /\ base.avg \in Nat /\ at \in Nat
    BY DEF AssetType
  <1>2. /\ review.action \in Action /\ review.confidence \in Nat /\ review.target \in Nat
    BY DEF ReviewType
  <1>3. c = [symbol |-> s, strategy |-> strategy, action |-> action,
             confidence |-> review.confidence, target |-> review.target,
             override |-> override, price |-> at, qty |-> base.qty]
    BY DEF Candidate
  <1>4. NoOverride \in Override /\ NoOverride.reason # "stop_loss"
    BY DEF NoOverride, Override, BasisPoints
  <1>5. override \in Override
    BY <1>1, <1>4, LiveExitTyped
  <1>6. action \in Action
    BY <1>2 DEF Action
  <1>7. override.reason = "stop_loss" =>
           /\ exitable /\ LossAtLeast(at, base.avg, StopLossBps)
           /\ override = [reason |-> "stop_loss", ratio |-> BasisPoints]
           /\ action = "sell"
    BY <1>1, <1>4, LiveExitTyped
  <1>8. exitable /\ LossAtLeast(at, base.avg, StopLossBps) => override.reason = "stop_loss"
    BY <1>1, LiveExitTyped
  <1> HIDE DEF action, override
  <1>9. c \in CandidateType
    BY <1>1, <1>2, <1>3, <1>5, <1>6 DEF CandidateType
  <1>10. /\ c.symbol = s /\ c.price = at /\ c.qty = base.qty
         /\ c.override = override /\ c.action = action
    BY <1>3
  <1> HIDE DEF exitable
  <1>11. Stopped(base.qty, base.avg, at) <=> exitable /\ LossAtLeast(at, base.avg, StopLossBps)
    BY DEF Stopped, exitable
  <1>12. QED
    BY <1>7, <1>8, <1>9, <1>10, <1>11 DEF StopsOut

\* At most one of the candidates of a symbol is chosen, and one is if any can be.
LEMMA ChooseOne ==
    ASSUME NEW candidates \in Seq(CandidateType), NEW regime
    PROVE  \/ /\ Choose(candidates, regime) = <<>>
              /\ \A i \in DOMAIN candidates : ~Selectable(candidates[i], regime)
           \/ \E i \in DOMAIN candidates :
                 /\ Choose(candidates, regime) = <<candidates[i]>>
                 /\ Selectable(candidates[i], regime)
  <1> DEFINE filtered == {i \in DOMAIN candidates : Selectable(candidates[i], regime)}
             best == Foremost(candidates, filtered, ScoresMore)
  <1>1. Choose(candidates, regime) = IF filtered = {} THEN <<>> ELSE <<candidates[best]>>
    BY DEF Choose
  <1>2. filtered # {} => best \in filtered
    BY BestByScore
  <1> HIDE DEF best
  <1>3. QED
    BY <1>1, <1>2
-----------------------------------------------------------------------------
(***************************************************************************)
(* Sizes and previews.                                                     *)
(***************************************************************************)

\* The greater of two numbers is one of them.
LEMMA LargerNat ==
    ASSUME NEW a \in Int, NEW b \in Int
    PROVE  /\ Larger(a, b) \in Int /\ Larger(a, b) >= a /\ Larger(a, b) >= b
           /\ a \in Nat \/ b \in Nat => Larger(a, b) \in Nat
           /\ Larger(a, b) = a \/ Larger(a, b) = b
  BY DEF Larger

\* A buy is sized within the room of the account and of the symbol.
LEMMA TargetInRoom ==
    ASSUME NEW account \in AccountType, NEW s \in Symbol, NEW reviewed \in Nat
    PROVE  LET target == BuyTarget(account, s, reviewed)
               equity == account.cash + Exposure(account)
           IN  /\ target \in Nat
               /\ target > 0 => /\ Exposure(account) + target <= Share(equity, TotalBps)
                                /\ AssetValue(account, s) + target <= Share(equity, SymbolBps)
  <1> DEFINE exposure == Exposure(account)
             value == AssetValue(account, s)
             equity == account.cash + exposure
             total == Share(equity, TotalBps)
             limit == Share(equity, SymbolBps)
             room == Larger(0, total - exposure)
             symbolRoom == Larger(0, limit - value)
             part == Share(account.cash, AllocationBps)
             affordable == Affordable(account.cash)
             capped == Smaller(Smaller(part, reviewed), room)
             raised == IF room >= MinNotional THEN Larger(capped, MinNotional) ELSE capped
             target == Smaller(Smaller(raised, symbolRoom), affordable)
  <1>1. BuyTarget(account, s, reviewed) = target
    BY DEF BuyTarget
  <1>2. account.cash \in Nat /\ exposure \in Nat /\ value \in Nat /\ equity \in Nat
    BY ExposureNat DEF AccountType
  <1>3. total \in Nat /\ limit \in Nat /\ part \in Nat
    BY <1>2, ShareNat, SizingConstants
  <1>4. affordable \in Nat
    <2>1. account.cash * BasisPoints \in Nat /\ BasisPoints + FeeBps \in Nat \ {0}
      BY <1>2, MoneyConstants
    <2>2. QED
      BY <2>1, DivNat DEF Affordable
  <1> HIDE DEF exposure, value, equity, total, limit, part, affordable
  <1>5. room \in Nat /\ symbolRoom \in Nat /\ MinNotional \in Nat
    BY <1>2, <1>3, MoneyConstants DEF Larger
  <1>6. /\ room > 0 => room = total - exposure
        /\ symbolRoom > 0 => symbolRoom = limit - value
    BY <1>2, <1>3 DEF Larger
  <1> HIDE DEF room, symbolRoom
  <1>7. capped \in Nat /\ capped <= room
    BY <1>3, <1>5, SmallerNat
  <1> HIDE DEF capped
  <1>8. raised \in Nat /\ raised <= room
    BY <1>5, <1>7 DEF Larger
  <1> HIDE DEF raised
  <1>9. target \in Nat /\ target <= room /\ target <= symbolRoom
    BY <1>4, <1>5, <1>8 DEF Smaller
  <1> HIDE DEF target
  <1>10. target > 0 => exposure + target <= total /\ value + target <= limit
    BY <1>2, <1>3, <1>5, <1>6, <1>9
  <1>11. QED
    BY <1>1, <1>9, <1>10 DEF exposure, value, equity, total, limit

\* A quantity bought for a target is a quantity, and costs no more than that.
LEMMA QuantityForTarget ==
    ASSUME NEW target \in Nat, NEW at \in Nat \ {0}
    PROVE  LET qty == (target * Scale) \div at
           IN  qty \in Nat /\ Amount(qty, at) <= target
  <1> DEFINE n == target * Scale
             qty == n \div at
  <1>1. n \in Nat /\ Scale \in Nat \ {0}
    BY MoneyConstants
  <1> HIDE DEF n
  <1>2. qty \in Nat /\ at * qty <= n
    BY <1>1, DivNat, DivBounds
  <1> HIDE DEF qty
  <1>3. Cost(qty, at) \in Int /\ Cost(qty, at) <= n
    BY <1>2 DEF Cost
  <1>4. Amount(qty, at) <= RoundDiv(n, Scale)
    BY <1>1, <1>3, RoundDivMonotone DEF Amount
  <1>5. RoundDiv(n, Scale) = target
    BY <1>1, RoundDivExact DEF n
  <1>6. QED
    BY <1>2, <1>4, <1>5 DEF qty, n

\* What is sold of a holding is a quantity, and all of it at the stop-loss.
LEMMA SellQtyTyped ==
    ASSUME NEW c \in CandidateType
    PROVE  /\ SellQty(c) \in Nat
           /\ c.override = [reason |-> "stop_loss", ratio |-> BasisPoints] => SellQty(c) = c.qty
  <1> DEFINE ratio == IF c.override # NoOverride THEN c.override.ratio
                      ELSE Smaller(Larger(c.confidence, 2500), BasisPoints)
             part == Share(c.qty, ratio)
  <1>1. c.qty \in Nat /\ c.confidence \in Nat /\ c.override.ratio \in Nat
    <2>1. c.qty \in Nat /\ c.confidence \in Nat /\ c.override \in Override
      BY DEF CandidateType
    <2>2. \A r \in 0 .. BasisPoints : r \in Nat
      BY DEF BasisPoints
    <2>3. QED
      BY <2>1, <2>2 DEF Override
  <1>2. ratio \in Nat
    BY <1>1 DEF Larger, Smaller, BasisPoints
  <1>3. part \in Nat
    <2> HIDE DEF ratio
    <2> QED BY <1>1, <1>2, ShareNat
  <1>4. SellQty(c) = IF ~AtLeastMin(part, c.price) /\ AtLeastMin(c.qty, c.price)
                     THEN c.qty ELSE part
    BY DEF SellQty
  <1>5. ASSUME c.override = [reason |-> "stop_loss", ratio |-> BasisPoints]
        PROVE  part = c.qty
    <2>1. c.override.reason = "stop_loss" /\ c.override.ratio = BasisPoints
      BY <1>5
    <2>2. ratio = BasisPoints
      BY <2>1 DEF NoOverride
    <2>3. QED
      BY <1>1, <2>2, ShareWhole
  <1> HIDE DEF part
  <1>6. QED
    BY <1>1, <1>3, <1>4, <1>5

\* An order to buy that is allowed is worth the minimum, and is paid for with
\* its fee.
LEMMA PreviewBuyAllowed ==
    ASSUME NEW t \in TradeType, NEW balance \in Nat
    PROVE  LET preview == PreviewBuy(t, balance)
           IN  /\ preview.notional \in Nat
               /\ preview.notional <= Larger(MinNotional, Amount(t.qty, t.price))
               /\ preview.allowed => /\ preview.notional >= MinNotional
                                     /\ preview.notional + Share(preview.notional, FeeBps) <= balance
  <1> DEFINE asked == Larger(MinNotional, Amount(t.qty, t.price))
             limit == RoundDiv(balance * BasisPoints, BasisPoints + FeeBps)
             notional == Smaller(asked, limit)
             preview == PreviewBuy(t, balance)
  <1>1. Amount(t.qty, t.price) \in Nat /\ MinNotional \in Nat
    BY AmountNat, MoneyConstants DEF TradeType
  <1>2. asked \in Nat
    BY <1>1 DEF Larger
  <1>3. limit \in Nat
    <2>1. balance * BasisPoints \in Nat /\ BasisPoints + FeeBps \in Nat \ {0}
      BY MoneyConstants
    <2>2. QED
      BY <2>1, RoundDivNat
  <1>4. preview = [notional |-> notional, qty |-> 0,
                   allowed |-> notional >= MinNotional
                               /\ notional + Share(notional, FeeBps) <= balance]
    BY DEF PreviewBuy
  <1> HIDE DEF asked, limit
  <1>5. notional \in Nat /\ notional <= asked
    BY <1>2, <1>3, SmallerNat
  <1> HIDE DEF notional, preview
  <1>6. /\ preview.notional = notional
        /\ preview.allowed = (notional >= MinNotional /\ notional + Share(notional, FeeBps) <= balance)
    BY <1>4
  <1>7. QED
    BY <1>5, <1>6 DEF asked, preview

\* An order to sell takes no more than the balance.
LEMMA PreviewSellWithin ==
    ASSUME NEW t \in TradeType, NEW balance \in Nat
    PROVE  LET preview == PreviewSell(t, balance)
           IN  preview.qty \in Nat /\ preview.qty <= balance /\ preview.qty = Smaller(t.qty, balance)
  <1>1. t.qty \in Nat
    BY DEF TradeType
  <1>2. PreviewSell(t, balance).qty = Smaller(t.qty, balance)
    BY DEF PreviewSell
  <1>3. QED
    BY <1>1, <1>2, SmallerNat

\* A price is normalised downwards: there is a tick for each.
LEMMA NormalizedBelow ==
    ASSUME NEW at \in Nat
    PROVE  Normalized(at) \in Nat /\ Normalized(at) <= at
  <1> DEFINE below == {rung \in Ladder : rung.from <= at}
             Top(rung) == \A other \in below : other.from <= rung.from
             gaps == {at - rung.from : rung \in below}
             tick == Tick(at)
  <1>1. \A rung \in Ladder : rung.from \in Nat /\ rung.tick \in Nat \ {0}
    BY LiveSizingAssumption
  <1>2. below # {}
    BY LiveSizingAssumption
  <1>3. gaps \subseteq Nat /\ gaps # {}
    BY <1>1, <1>2
  <1>4. PICK gap \in gaps : \A other \in gaps : gap <= other
    <2> HIDE DEF gaps
    <2> QED BY <1>3, LeastNat
  <1>5. PICK rung \in below : gap = at - rung.from
    BY <1>4
  <1>6. Top(rung)
    <2>1. \A other \in below : gap <= at - other.from
      BY <1>4
    <2>2. QED
      BY <1>1, <1>5, <2>1
  <1>7. (CHOOSE r \in below : Top(r)) \in below
    <2> HIDE DEF Top, below
    <2> QED BY <1>6
  <1>8. tick = (CHOOSE r \in below : Top(r)).tick
    BY DEF Tick
  <1> HIDE DEF Top
  <1>9. tick \in Nat \ {0}
    BY <1>1, <1>7, <1>8
  <1> HIDE DEF tick
  <1>10. at \div tick \in Nat /\ tick * (at \div tick) <= at
    BY <1>9, DivNat, DivBounds
  <1>11. (at \div tick) * tick \in Nat /\ (at \div tick) * tick = tick * (at \div tick)
    BY <1>9, <1>10
  <1>12. QED
    BY <1>10, <1>11 DEF Normalized, tick

\* What is worth the minimum after slippage, rounded, is worth it before: the
\* slippage of the minimum outweighs the rounding.
LEMMA SlippageOutweighsRounding ==
    ASSUME NEW S \in Nat \ {0}, NEW M \in Nat \ {0}, NEW L \in Nat, L < 10000,
           NEW C \in Nat, NEW r \in Int, r >= M, 10000 <= 2 * (M * L),
           2 * ((10000 * S) * r) <= 2 * (C * (10000 - L)) + 10000 * S
    PROVE  C >= M * S
  <1> DEFINE x == M * S
             y == x * L
  <1>1. x \in Nat /\ y \in Nat
    OBVIOUS
  <1>2. SUFFICES ASSUME C <= x - 1 PROVE FALSE
    BY <1>1
  <1>3. C * (10000 - L) <= (x - 1) * (10000 - L)
    <2>1. x - 1 \in Int /\ 10000 - L \in Nat /\ C \in Int
      BY <1>1
    <2> HIDE DEF x
    <2>2. QED
      BY <1>2, <2>1, ProductMonotone
  <1>4. (x - 1) * (10000 - L) = 10000 * x - y - 10000 + L
    <2>1. \A z \in Int : (z - 1) * (10000 - L) = 10000 * z - z * L - 10000 + L
      OBVIOUS
    <2>2. QED
      BY <1>1, <2>1
  <1>5. 10000 * x <= (10000 * S) * r
    <2>1. M * (10000 * S) <= r * (10000 * S)
      <3>1. M \in Int /\ 10000 * S \in Nat
        OBVIOUS
      <3>2. QED
        BY <3>1, ProductMonotone
    <2>2. M * (10000 * S) = 10000 * (M * S) /\ r * (10000 * S) = (10000 * S) * r
      OBVIOUS
    <2>3. QED
      BY <2>1, <2>2
  <1>6. 10000 * S <= 2 * y
    <2>1. 10000 * S <= (2 * (M * L)) * S
      <3>1. 2 * (M * L) \in Int /\ S \in Nat
        OBVIOUS
      <3>2. QED
        BY <3>1, ProductMonotone
    <2>2. (2 * (M * L)) * S = 2 * ((M * S) * L)
      OBVIOUS
    <2>3. QED
      BY <2>1, <2>2
  <1>7. C * (10000 - L) \in Int /\ (10000 * S) * r \in Int
    OBVIOUS
  <1> HIDE DEF x, y
  <1>8. QED
    BY <1>1, <1>3, <1>4, <1>5, <1>6, <1>7

\* An order to sell that is allowed is worth the minimum at its price.
LEMMA PreviewSellWorthy ==
    ASSUME NEW t \in TradeType, NEW balance \in Nat, PreviewSell(t, balance).allowed,
           BasisPoints <= 2 * (MinNotional * SlipBps)
    PROVE  AtLeastMin(PreviewSell(t, balance).qty, t.price)
  <1> DEFINE qty == Smaller(t.qty, balance)
             at == Normalized(t.price)
             C == Cost(qty, at)
             n == C * (BasisPoints - SlipBps)
             d == BasisPoints * Scale
             r == RoundDiv(n, d)
             preview == PreviewSell(t, balance)
  <1>1. preview = [notional |-> r, qty |-> qty, allowed |-> r >= MinNotional]
    BY DEF PreviewSell
  <1>2. qty \in Nat /\ at \in Nat /\ t.price \in Nat /\ at <= t.price
    BY SmallerNat, NormalizedBelow DEF TradeType
  <1>3. r >= MinNotional /\ preview.qty = qty
    <2> HIDE DEF r, qty, preview
    <2>1. preview.allowed = (r >= MinNotional) /\ preview.qty = qty
      BY <1>1
    <2>2. QED
      BY <2>1 DEF preview
  <1> HIDE DEF qty, at
  <1>4. C \in Nat /\ C <= Cost(qty, t.price) /\ Cost(qty, t.price) \in Nat
    <2>1. at * qty <= t.price * qty /\ at * qty = qty * at /\ t.price * qty = qty * t.price
      BY <1>2, ProductMonotone
    <2>2. QED
      BY <1>2, <2>1 DEF Cost
  <1> HIDE DEF C
  <1>5. n \in Int /\ d \in Nat \ {0} /\ n = C * (10000 - SlipBps) /\ d = 10000 * Scale
    BY <1>4, MoneyConstants
  <1>6. r \in Int /\ 2 * (d * r) <= 2 * n + d
    <2>1. n \in Int /\ d \in Nat \ {0}
      BY <1>5
    <2> HIDE DEF n, d
    <2>2. QED
      BY <2>1, RoundDivBounds
  <1> HIDE DEF n, d
  <1> HIDE DEF r
  <1>7. C >= MinNotional * Scale
    <2>1. 2 * ((10000 * Scale) * r) <= 2 * (C * (10000 - SlipBps)) + 10000 * Scale
      BY <1>5, <1>6
    <2>2. 10000 <= 2 * (MinNotional * SlipBps) /\ SlipBps \in Nat /\ SlipBps < 10000
      BY MoneyConstants
    <2>3. QED
      BY <1>3, <1>4, <1>6, <2>1, <2>2, MoneyConstants, SlippageOutweighsRounding
  <1>8. MinNotional * Scale \in Nat
    BY MoneyConstants
  <1>9. QED
    BY <1>3, <1>4, <1>7, <1>8 DEF AtLeastMin
-----------------------------------------------------------------------------
(***************************************************************************)
(* The lists of symbols.                                                   *)
(***************************************************************************)

\* Lists of symbols without repetition.
SymbolList == {seq \in Seq(Symbol) : IsInjective(seq)}

\* A list of symbols names finitely many.
LEMMA SymbolFinite == IsFiniteSet(Symbol)
  <1>1. Len(Symbols) \in Nat /\ Symbols \in [1 .. Len(Symbols) -> Symbol]
    BY SizingConstants
  <1>2. \A s \in Symbol : \E n \in 1 .. Len(Symbols) : Symbols[n] = s
    BY <1>1 DEF Symbol, Range
  <1>3. Symbols \in Surjection(1 .. Len(Symbols), Symbol)
    BY <1>1, <1>2 DEF Surjection
  <1>4. ExistsSurjection(1 .. Len(Symbols), Symbol)
    BY <1>3 DEF ExistsSurjection
  <1>5. QED
    BY <1>1, <1>4, FS_NatSurjection

\* A listing of a set of symbols is such a list.
LEMMA ListingTyped ==
    ASSUME NEW S \in SUBSET Symbol, NEW q \in [1 .. Cardinality(S) -> S], IsInjective(q)
    PROVE  q \in SymbolList /\ Range(q) \subseteq S
  <1>1. Cardinality(S) \in Nat
    BY SymbolFinite, FS_Subset, FS_CardinalityType
  <1>2. q \in Seq(Symbol)
    BY <1>1
  <1>3. QED
    BY <1>2 DEF SymbolList, Range

\* So are two lists that share no symbol, one after the other.
LEMMA ConcatList ==
    ASSUME NEW a \in SymbolList, NEW b \in SymbolList, Range(a) \cap Range(b) = {}
    PROVE  /\ a \o b \in SymbolList
           /\ Len(a \o b) = Len(a) + Len(b)
  <1>1. a \in Seq(Symbol) /\ b \in Seq(Symbol) /\ IsInjective(a) /\ IsInjective(b)
    BY DEF SymbolList
  <1>2. /\ a \o b \in Seq(Symbol) /\ Len(a \o b) = Len(a) + Len(b)
        /\ \A i \in 1 .. Len(a) + Len(b) :
              (a \o b)[i] = IF i <= Len(a) THEN a[i] ELSE b[i - Len(a)]
    BY <1>1
  <1>3. ASSUME NEW i \in 1 .. Len(a) + Len(b), NEW j \in 1 .. Len(a) + Len(b),
               (a \o b)[i] = (a \o b)[j]
        PROVE  i = j
    <2>1. Len(a) \in Nat /\ Len(b) \in Nat
      BY <1>1
    <2>2. \A x \in 1 .. Len(a), y \in 1 .. Len(b) : a[x] # b[y]
      BY <1>1 DEF Range
    <2>3. CASE i <= Len(a) /\ j <= Len(a)
      <3>1. i \in DOMAIN a /\ j \in DOMAIN a /\ a[i] = a[j]
        BY <1>1, <1>2, <1>3, <2>1, <2>3
      <3>2. QED
        BY <1>1, <3>1 DEF IsInjective
    <2>4. CASE i > Len(a) /\ j > Len(a)
      <3>1. /\ i - Len(a) \in DOMAIN b /\ j - Len(a) \in DOMAIN b
            /\ b[i - Len(a)] = b[j - Len(a)]
        BY <1>1, <1>2, <1>3, <2>1, <2>4
      <3>2. i - Len(a) = j - Len(a)
        BY <1>1, <3>1 DEF IsInjective
      <3>3. QED
        BY <2>1, <3>2
    <2>5. CASE i <= Len(a) /\ j > Len(a)
      <3>1. i \in 1 .. Len(a) /\ j - Len(a) \in 1 .. Len(b) /\ a[i] = b[j - Len(a)]
        BY <1>2, <1>3, <2>1, <2>5
      <3>2. QED
        BY <2>2, <3>1
    <2>6. CASE i > Len(a) /\ j <= Len(a)
      <3>1. j \in 1 .. Len(a) /\ i - Len(a) \in 1 .. Len(b) /\ a[j] = b[i - Len(a)]
        BY <1>2, <1>3, <2>1, <2>6
      <3>2. QED
        BY <2>2, <3>1
    <2>7. QED
      BY <2>1, <2>3, <2>4, <2>5, <2>6
  <1>4. IsInjective(a \o b)
    <2>1. DOMAIN (a \o b) = 1 .. Len(a) + Len(b)
      BY <1>1, <1>2
    <2>2. QED
      BY <1>3, <2>1 DEF IsInjective
  <1>5. QED
    BY <1>2, <1>4 DEF SymbolList

\* And the first symbols of a list.
LEMMA FirstOfList ==
    ASSUME NEW seq \in SymbolList, NEW n \in Nat
    PROVE  /\ FirstOf(seq, n) \in SymbolList
           /\ Len(FirstOf(seq, n)) = Smaller(Len(seq), n)
           /\ n > 0 /\ seq # <<>> => Len(FirstOf(seq, n)) > 0
  <1> DEFINE m == Smaller(Len(seq), n)
  <1>1. seq \in Seq(Symbol) /\ IsInjective(seq) /\ Len(seq) \in Nat
    BY DEF SymbolList
  <1>2. m \in Nat /\ m <= Len(seq)
    BY <1>1, SmallerNat
  <1>3. n > 0 /\ seq # <<>> => m > 0
    BY <1>1 DEF Smaller
  <1>4. FirstOf(seq, n) = SubSeq(seq, 1, m)
    BY DEF FirstOf
  <1> HIDE DEF m
  <1>5. /\ SubSeq(seq, 1, m) \in Seq(Symbol) /\ Len(SubSeq(seq, 1, m)) = m
        /\ \A i \in 1 .. m : SubSeq(seq, 1, m)[i] = seq[i]
    BY <1>1, <1>2
  <1>6. IsInjective(SubSeq(seq, 1, m))
    <2>1. DOMAIN SubSeq(seq, 1, m) = 1 .. m /\ 1 .. m \subseteq DOMAIN seq
      BY <1>1, <1>2, <1>5
    <2>2. QED
      BY <1>1, <1>5, <2>1 DEF IsInjective
  <1>7. QED
    BY <1>3, <1>4, <1>5, <1>6 DEF SymbolList, m

\* The selector ranks the symbols of a set into such a list.
LEMMA RankedTyped ==
    ASSUME NEW S \in SUBSET Symbol, NEW verdicts, NEW q \in Ranked(S, verdicts)
    PROVE  q \in SymbolList /\ Range(q) \subseteq S
  <1>1. q \in [1 .. Cardinality(S) -> S] /\ IsInjective(q)
    BY DEF Ranked, Listings
  <1>2. QED
    BY <1>1, ListingTyped

\* It selects such a list, strict and soft ones, which are never the same.
LEMMA SelectedTyped ==
    ASSUME NEW verdicts, NEW chosen \in SelectedSymbols(verdicts)
    PROVE  chosen \in SymbolList
  <1> DEFINE Strict == InClass("strict", verdicts)
             Soft == InClass("soft", verdicts)
  <1>1. PICK strict \in Ranked(Strict, verdicts), soft \in Ranked(Soft, verdicts) :
           chosen = FirstOf(strict \o soft, TopN)
    BY DEF SelectedSymbols
  <1>2. Strict \in SUBSET Symbol /\ Soft \in SUBSET Symbol /\ Strict \cap Soft = {}
    BY DEF InClass
  <1> HIDE DEF Strict, Soft
  <1>3. /\ strict \in SymbolList /\ Range(strict) \subseteq Strict
        /\ soft \in SymbolList /\ Range(soft) \subseteq Soft
    BY <1>2, RankedTyped
  <1>4. strict \o soft \in SymbolList
    BY <1>2, <1>3, ConcatList
  <1>5. QED
    BY <1>1, <1>4, FirstOfList, RoundConstants

\* What it rejects but would have been the best of is such a list.
LEMMA FallbackTyped ==
    ASSUME NEW verdicts, NEW ranked \in FallbackSymbols(verdicts)
    PROVE  ranked \in SymbolList
  <1> DEFINE S == {s \in InClass("rejected", verdicts) : verdicts[s].score > 0}
  <1>1. PICK q \in Ranked(S, verdicts) : ranked = FirstOf(q, TopN)
    BY DEF FallbackSymbols
  <1>2. S \in SUBSET Symbol
    BY DEF InClass
  <1> HIDE DEF S
  <1>3. QED
    BY <1>1, <1>2, RankedTyped, FirstOfList, RoundConstants

\* A list that is not empty stays so and a list with the held symbols it lacks.
LEMMA WithHeldTyped ==
    ASSUME NEW seq \in SymbolList \ {<<>>}, NEW account, NEW all \in WithHeld(seq, account)
    PROVE  all \in SymbolList \ {<<>>}
  <1> DEFINE S == HeldSymbols(account) \ Range(seq)
  <1>1. PICK others \in [1 .. Cardinality(S) -> S] :
            IsInjective(others) /\ all = seq \o others
    BY DEF WithHeld, Listings
  <1>2. S \in SUBSET Symbol /\ Range(seq) \cap S = {}
    BY DEF HeldSymbols
  <1> HIDE DEF S
  <1>3. others \in SymbolList /\ Range(others) \subseteq S
    BY <1>1, <1>2, ListingTyped
  <1>4. all \in SymbolList /\ Len(all) = Len(seq) + Len(others)
    BY <1>1, <1>2, <1>3, ConcatList
  <1>5. Len(seq) > 0 /\ Len(seq) \in Nat /\ Len(others) \in Nat
    BY <1>3 DEF SymbolList
  <1>6. QED
    BY <1>4, <1>5

\* The first symbols that a fallback takes are some.
LEMMA SliceTyped ==
    ASSUME NEW seq \in SymbolList \ {<<>>}
    PROVE  Slice(seq) \in SymbolList \ {<<>>}
  <1> DEFINE n == Larger(1, TopN)
  <1>1. n \in Nat \ {0}
    BY RoundConstants DEF Larger
  <1>2. Slice(seq) = FirstOf(seq, n)
    BY DEF Slice
  <1> HIDE DEF n
  <1>3. Slice(seq) \in SymbolList /\ Len(Slice(seq)) > 0
    BY <1>1, <1>2, FirstOfList
  <1>4. QED
    BY <1>3

\* The configured symbols are such a list.
LEMMA SymbolsTyped == Symbols \in SymbolList \ {<<>>}
  <1>1. Symbols \in Seq(Symbol) /\ Len(Symbols) > 0 /\ IsInjective(Symbols)
    BY SizingConstants
  <1>2. QED
    BY <1>1 DEF SymbolList
-----------------------------------------------------------------------------
(***************************************************************************)
(* Types, and what an order keeps of the account.                          *)
(***************************************************************************)

SchedulerType ==
    {sched \in [all : Seq(Symbol), count : Nat] :
        IsInjective(sched.all) /\ sched.count \in 1 .. Len(sched.all)}

\* What a run is evaluating, and that a trade is created only as it was allowed.
RunKept ==
    /\ price \in Price /\ view \in AccountType /\ asset \in AssetType
    /\ scheduler = NoScheduler \/ scheduler \in SchedulerType
    /\ todo \in SymbolList
    /\ phase \in {"scan", "evaluate"} => todo # <<>>
    /\ phase \in {"decide", "preview", "create"} => todo = <<>>
    /\ phase = "create" => Preview(trade).allowed

RoundInv == RoundTypeOK /\ RunKept

\* The account has its types, whatever the run is at.
LEMMA AccountTyped ==
    ASSUME RoundInv, NEW ticker \in BOOLEAN
    PROVE  /\ cash \in Nat
           /\ held \in [Symbol -> Nat] /\ avg \in [Symbol -> Nat] /\ peak \in [Symbol -> Nat]
           /\ price \in [Symbol -> Nat]
           /\ \A s \in Symbol : price[s] \in Nat \ {0} /\ price[s] <= MinNotional * Scale
           /\ Account(ticker) \in AccountType
  <1>1. /\ cash \in Nat
        /\ held \in [Symbol -> Nat] /\ avg \in [Symbol -> Nat] /\ peak \in [Symbol -> Nat]
    BY DEF RoundInv, RoundTypeOK
  <1>2. /\ price \in [Symbol -> Nat]
        /\ \A s \in Symbol : price[s] \in Nat \ {0} /\ price[s] <= MinNotional * Scale
    BY RoundConstants DEF RoundInv, RunKept
  <1>3. QED
    BY <1>1, <1>2 DEF Account, AccountType

\* An order that is paid for leaves an account, and the other symbols alone.
LEMMA BoughtTyped ==
    ASSUME RoundInv, NEW s \in Symbol, NEW notional \in Nat, notional >= MinNotional,
           notional + Share(notional, FeeBps) <= cash, Bought(s, notional)
    PROVE  /\ cash' \in Nat
           /\ held' \in [Symbol -> Nat] /\ avg' \in [Symbol -> Nat]
           /\ \A x \in Symbol \ {s} : held'[x] = held[x] /\ avg'[x] = avg[x]
  <1> DEFINE qty == (notional * Scale) \div price[s]
             total == held[s] + qty
             mean == RoundDiv(held[s] * avg[s] + qty * price[s], total)
  <1>1. /\ cash \in Nat /\ held \in [Symbol -> Nat] /\ avg \in [Symbol -> Nat]
        /\ price[s] \in Nat \ {0} /\ price[s] <= MinNotional * Scale
        /\ held[s] \in Nat /\ avg[s] \in Nat
    BY AccountTyped
  <1>2. Share(notional, FeeBps) \in Nat
    BY ShareNat, MoneyConstants
  <1>3. qty \in Nat \ {0}
    <2>1. notional * Scale \in Nat /\ MinNotional * Scale <= notional * Scale
      <3>1. MinNotional \in Int /\ Scale \in Nat
        BY MoneyConstants
      <3>2. QED
        BY <3>1, ProductMonotone
    <2>2. MinNotional * Scale \in Nat
      BY MoneyConstants
    <2>3. \A n \in Nat : \A d \in Nat \ {0} : d <= n => n \div d \in Nat \ {0}
      <3>1. ASSUME NEW n \in Nat, NEW d \in Nat \ {0}, d <= n PROVE n \div d \in Nat \ {0}
        <4> DEFINE r == n \div d
        <4>1. r \in Nat /\ n < d * r + d
          BY DivNat, DivBounds
        <4>2. r = 0 => d * r = 0
          OBVIOUS
        <4> HIDE DEF r
        <4>3. r # 0
          BY <3>1, <4>1, <4>2
        <4>4. QED
          BY <4>1, <4>3 DEF r
      <3>2. QED
        BY <3>1
    <2>4. QED
      BY <1>1, <2>1, <2>2, <2>3
  <1>4. cash' = cash - notional - Share(notional, FeeBps)
    BY DEF Bought
  <1>5. held' = [held EXCEPT ![s] = total] /\ avg' = [avg EXCEPT ![s] = mean]
    BY DEF Bought
  <1> HIDE DEF qty
  <1>6. total \in Nat \ {0}
    BY <1>1, <1>3
  <1>7. mean \in Nat
    <2>1. held[s] * avg[s] + qty * price[s] \in Nat
      BY <1>1, <1>3
    <2> HIDE DEF total
    <2>2. QED
      BY <1>6, <2>1, RoundDivNat
  <1> HIDE DEF total, mean
  <1>8. cash' \in Nat
    BY <1>1, <1>2, <1>4
  <1>9. QED
    BY <1>1, <1>5, <1>6, <1>7, <1>8

\* So does a sale of no more than is held.
LEMMA SoldTyped ==
    ASSUME RoundInv, NEW s \in Symbol, NEW qty \in Nat, qty <= held[s], Sold(s, qty)
    PROVE  /\ cash' \in Nat
           /\ held' \in [Symbol -> Nat] /\ avg' \in [Symbol -> Nat]
           /\ \A x \in Symbol \ {s} : held'[x] = held[x] /\ avg'[x] = avg[x]
  <1> DEFINE proceeds == Amount(qty, price[s])
             fee == Share(proceeds, FeeBps)
             left == IF held[s] = qty THEN 0 ELSE avg[s]
  <1>1. /\ cash \in Nat /\ held \in [Symbol -> Nat] /\ avg \in [Symbol -> Nat]
        /\ price[s] \in Nat /\ held[s] \in Nat /\ avg[s] \in Nat
    BY AccountTyped
  <1>2. proceeds \in Nat
    BY <1>1, AmountNat
  <1>3. cash' = cash + proceeds - fee
    BY DEF Sold
  <1> HIDE DEF proceeds
  <1>4. fee \in Nat /\ fee <= proceeds
    <2>1. FeeBps \in Nat /\ FeeBps <= BasisPoints
      BY MoneyConstants
    <2>2. Share(proceeds, FeeBps) \in Nat
      BY <1>2, <2>1, ShareNat
    <2>3. Share(proceeds, FeeBps) <= proceeds
      BY <1>2, <2>1, ShareWithin
    <2>4. QED
      BY <2>2, <2>3
  <1>5. held' = [held EXCEPT ![s] = held[s] - qty] /\ avg' = [avg EXCEPT ![s] = left]
    BY DEF Sold
  <1> HIDE DEF fee
  <1>6. held[s] - qty \in Nat /\ left \in Nat
    BY <1>1
  <1>7. cash' \in Nat
    BY <1>1, <1>2, <1>3, <1>4
  <1> HIDE DEF left
  <1>8. QED
    BY <1>1, <1>5, <1>6, <1>7

\* So does an order that its preview allows.
LEMMA ExecuteTyped ==
    ASSUME RoundInv, NEW t \in TradeType, Preview(t).allowed, Execute(t, Preview(t))
    PROVE  /\ cash' \in Nat
           /\ held' \in [Symbol -> Nat] /\ avg' \in [Symbol -> Nat]
           /\ \A x \in Symbol \ {t.symbol} : held'[x] = held[x] /\ avg'[x] = avg[x]
           /\ price' = price /\ placed' \in 0 .. MaxOrders
  <1>1. t.symbol \in Symbol /\ t.side \in {"buy", "sell"}
    BY DEF TradeType
  <1>2. price' = price /\ placed' \in 0 .. MaxOrders
    <2>1. placed \in 0 .. MaxOrders /\ MaxOrders \in Nat
      BY RoundConstants DEF RoundInv, RoundTypeOK
    <2>2. placed < MaxOrders /\ placed' = placed + 1 /\ price' = price
      BY DEF Execute
    <2>3. QED
      BY <2>1, <2>2
  <1>3. CASE t.side = "buy"
    <2>1. cash \in Nat
      BY AccountTyped
    <2>2. Preview(t) = PreviewBuy(t, cash) /\ Bought(t.symbol, Preview(t).notional)
      BY <1>3 DEF Preview, Execute
    <2>3. /\ Preview(t).notional \in Nat /\ Preview(t).notional >= MinNotional
          /\ Preview(t).notional + Share(Preview(t).notional, FeeBps) <= cash
      BY <2>1, <2>2, PreviewBuyAllowed
    <2>4. QED
      BY <1>1, <1>2, <2>2, <2>3, BoughtTyped
  <1>4. CASE t.side # "buy"
    <2>1. held[t.symbol] \in Nat
      BY <1>1, AccountTyped
    <2>2. Preview(t) = PreviewSell(t, held[t.symbol]) /\ Sold(t.symbol, Preview(t).qty)
      BY <1>4 DEF Preview, Execute
    <2>3. Preview(t).qty \in Nat /\ Preview(t).qty <= held[t.symbol]
      BY <2>1, <2>2, PreviewSellWithin
    <2>4. QED
      BY <1>1, <1>2, <2>2, <2>3, SoldTyped
  <1>5. QED
    BY <1>3, <1>4
-----------------------------------------------------------------------------
(***************************************************************************)
(* RoundInv is an invariant.                                               *)
(***************************************************************************)

\* The empty lists.
LEMMA EmptyLists ==
    /\ <<>> \in SymbolList /\ <<>> \in Seq(CandidateType)
    /\ [qty |-> 0, avg |-> 0] \in AssetType
    /\ [s \in Symbol |-> 0] \in [Symbol -> Nat]
  <1>1. <<>> \in Seq(Symbol) /\ IsInjective(<<>>)
    BY DEF IsInjective
  <1>2. <<>> \in Seq(CandidateType)
    OBVIOUS
  <1>3. QED
    BY <1>1, <1>2 DEF SymbolList, AssetType

\* The account a run starts with is well formed.
LEMMA RoundInvInit ==
    ASSUME RoundInit
    PROVE  RoundInv
  <1>1. /\ cash = StartingKrw /\ held = [s \in Symbol |-> 0] /\ avg = [s \in Symbol |-> 0]
        /\ price \in Price /\ peak = [s \in Symbol |-> 0] /\ scheduler = NoScheduler /\ placed = 0
        /\ AtRest
    BY DEF RoundInit
  <1>2. /\ cash \in Nat /\ placed \in 0 .. MaxOrders
        /\ held \in [Symbol -> Nat] /\ avg \in [Symbol -> Nat] /\ peak \in [Symbol -> Nat]
        /\ price \in [Symbol -> Nat]
    <2>1. StartingKrw \in Nat /\ 0 \in 0 .. MaxOrders
      BY RoundConstants
    <2>2. price \in [Symbol -> Nat]
      BY <1>1, RoundConstants
    <2>3. QED
      BY <1>1, <2>1, <2>2, EmptyLists
  <1>3. Account(TRUE) \in AccountType
    BY <1>2 DEF Account, AccountType
  <1>4. /\ phase = "rest" /\ view = Account(TRUE) /\ todo = <<>> /\ found = <<>> /\ rest = {}
        /\ asset = [qty |-> 0, avg |-> 0] /\ trade = NoTrade
    BY <1>1 DEF AtRest
  <1>5. RoundTypeOK
    BY <1>1, <1>2, <1>4, EmptyLists DEF RoundTypeOK, Phase, SymbolList
  <1>6. RunKept
    BY <1>1, <1>3, <1>4, EmptyLists DEF RunKept
  <1>7. QED
    BY <1>5, <1>6 DEF RoundInv

\* What a step that ends the run has to keep.
LEMMA EndTyped ==
    ASSUME RoundInv, EndRun, price' = price, cash' \in Nat, held' \in [Symbol -> Nat],
           avg' \in [Symbol -> Nat], peak' \in [Symbol -> Nat],
           scheduler' \in {scheduler, NoScheduler}, placed' \in 0 .. MaxOrders
    PROVE  RoundInv'
  <1>1. price \in Price /\ price \in [Symbol -> Nat]
    BY AccountTyped DEF RoundInv, RunKept
  <1>2. /\ phase' = "rest"
        /\ view' = [cash |-> cash', held |-> held', avg |-> avg', price |-> price, ticker |-> TRUE]
        /\ todo' = <<>> /\ found' = <<>> /\ rest' = {}
        /\ asset' = [qty |-> 0, avg |-> 0] /\ trade' = NoTrade
    BY DEF EndRun
  <1>3. view' \in AccountType
    BY <1>1, <1>2 DEF AccountType
  <1>4. /\ scheduler = NoScheduler \/ scheduler \in SchedulerType
    BY DEF RoundInv, RunKept
  <1>5. RunKept'
    BY <1>1, <1>2, <1>3, <1>4, EmptyLists DEF RunKept
  <1>6. \/ scheduler' = NoScheduler
        \/ scheduler' \in [all : Seq(Symbol), count : Nat]
             /\ scheduler'.count \in 1 .. Len(scheduler'.all)
    BY <1>4 DEF SchedulerType
  <1>7. RoundTypeOK'
    BY <1>2, <1>6, EmptyLists DEF RoundTypeOK, Phase, SymbolList
  <1>8. QED
    BY <1>5, <1>7 DEF RoundInv

\* A run that starts evaluates at least one symbol of its list.
LEMMA ScanTyped ==
    ASSUME RoundInv, phase = "rest", NEW ticker \in BOOLEAN, NEW isSelected \in BOOLEAN,
           NEW seq \in SymbolList \ {<<>>}, ScanSymbols(Account(ticker), seq, isSelected)
    PROVE  /\ RoundInv'
           /\ scheduler' \in SchedulerType
           /\ todo' = PrioritySymbols(scheduler')
  <1> DEFINE count == IF isSelected THEN Len(seq) ELSE Smaller(Len(seq), Larger(1, TopN))
             sched == Scheduled(seq, count)
  <1>1. /\ scheduler' = sched /\ todo' = PrioritySymbols(sched) /\ view' = Account(ticker)
        /\ phase' = "scan"
        /\ UNCHANGED <<cash, held, avg, price, dynamic, peak, asset, found, rest, trade, placed>>
    BY DEF ScanSymbols
  <1>2. seq \in Seq(Symbol) /\ IsInjective(seq) /\ Len(seq) \in Nat \ {0}
    BY DEF SymbolList
  <1>3. count \in 1 .. Len(seq)
    BY <1>2, RoundConstants DEF Smaller, Larger
  <1>4. sched \in {scheduler, [all |-> seq, count |-> count]} /\ sched \in SchedulerType
    <2>1. [all |-> seq, count |-> count] \in SchedulerType
      <3> HIDE DEF count
      <3>1. count \in Nat
        BY <1>2, <1>3
      <3>2. QED
        BY <1>2, <1>3, <3>1 DEF SchedulerType
    <2>2. scheduler = NoScheduler \/ scheduler \in SchedulerType
      BY DEF RoundInv, RunKept
    <2> HIDE DEF count
    <2>3. QED
      BY <2>1, <2>2 DEF Scheduled
  <1> HIDE DEF sched, count
  <1>5. PrioritySymbols(sched) \in SymbolList \ {<<>>}
    <2>1. /\ sched.all \in SymbolList /\ sched.count \in Nat \ {0}
          /\ sched.count <= Len(sched.all) /\ Len(sched.all) \in Nat /\ sched.all # <<>>
      <3>1. /\ sched.all \in Seq(Symbol) /\ IsInjective(sched.all)
            /\ sched.count \in 1 .. Len(sched.all)
        BY <1>4 DEF SchedulerType
      <3>2. Len(sched.all) \in Nat /\ sched.count \in Nat \ {0} /\ sched.count <= Len(sched.all)
        BY <3>1
      <3>3. sched.all # <<>>
        BY <3>2
      <3>4. QED
        BY <3>1, <3>2, <3>3 DEF SymbolList
    <2>2. PrioritySymbols(sched) = FirstOf(sched.all, sched.count)
      BY <2>1, SmallerNat DEF PrioritySymbols, FirstOf
    <2>3. FirstOf(sched.all, sched.count) \in SymbolList /\ Len(FirstOf(sched.all, sched.count)) > 0
      BY <2>1, FirstOfList
    <2>4. QED
      BY <2>2, <2>3
  <1>6. RunKept'
    <2>1. price' \in Price /\ asset' \in AssetType
      BY <1>1 DEF RoundInv, RunKept
    <2>2. view' \in AccountType
      BY <1>1, AccountTyped
    <2>3. QED
      BY <1>1, <1>4, <1>5, <2>1, <2>2 DEF RunKept
  <1>7. RoundTypeOK'
    <2>1. /\ sched \in [all : Seq(Symbol), count : Nat] /\ sched.count \in 1 .. Len(sched.all)
          /\ PrioritySymbols(sched) \in Seq(Symbol)
      BY <1>4, <1>5 DEF SchedulerType, SymbolList
    <2>2. trade = NoTrade
      BY DEF RoundInv, RoundTypeOK
    <2>3. QED
      BY <1>1, <2>1, <2>2 DEF RoundInv, RoundTypeOK, Phase
  <1>8. QED
    BY <1>1, <1>4, <1>6, <1>7 DEF RoundInv

\* Each start of a run is one.
LEMMA StartScans ==
    ASSUME RoundInv, StartConfigured \/ StartSelected \/ StartFallback
    PROVE  /\ phase = "rest"
           /\ \E ticker \in BOOLEAN, isSelected \in BOOLEAN, seq \in SymbolList \ {<<>>} :
                 ScanSymbols(Account(ticker), seq, isSelected)
  <1>1. CASE StartConfigured
    BY <1>1, SymbolsTyped DEF StartConfigured
  <1>2. CASE StartSelected
    <2>1. PICK ticker \in BOOLEAN, verdicts \in Verdict :
             \E chosen \in SelectedSymbols(verdicts) \ {<<>>} :
             \E seq \in WithHeld(chosen, Account(ticker)) :
                ScanSymbols(Account(ticker), seq, TRUE)
      BY <1>2 DEF StartSelected
    <2>2. PICK chosen \in SelectedSymbols(verdicts) \ {<<>>} :
             \E seq \in WithHeld(chosen, Account(ticker)) :
                ScanSymbols(Account(ticker), seq, TRUE)
      BY <2>1
    <2>3. PICK seq \in WithHeld(chosen, Account(ticker)) :
             ScanSymbols(Account(ticker), seq, TRUE)
      BY <2>2
    <2>4. seq \in SymbolList \ {<<>>}
      BY SelectedTyped, WithHeldTyped
    <2>5. QED
      BY <1>2, <2>3, <2>4 DEF StartSelected
  <1>3. CASE StartFallback
    <2>1. PICK ticker \in BOOLEAN, verdicts \in Verdict :
             \E ranked \in FallbackSymbols(verdicts) :
             \E seq \in WithHeld(Slice(IF ranked = <<>> THEN Symbols ELSE ranked), Account(ticker)) :
                ScanSymbols(Account(ticker), seq, FALSE)
      BY <1>3 DEF StartFallback
    <2>2. PICK ranked \in FallbackSymbols(verdicts) :
             \E seq \in WithHeld(Slice(IF ranked = <<>> THEN Symbols ELSE ranked), Account(ticker)) :
                ScanSymbols(Account(ticker), seq, FALSE)
      BY <2>1
    <2> DEFINE list == IF ranked = <<>> THEN Symbols ELSE ranked
    <2>3. PICK seq \in WithHeld(Slice(list), Account(ticker)) :
             ScanSymbols(Account(ticker), seq, FALSE)
      BY <2>2
    <2>4. list \in SymbolList \ {<<>>}
      BY FallbackTyped, SymbolsTyped
    <2> HIDE DEF list
    <2>5. seq \in SymbolList \ {<<>>}
      BY <2>4, SliceTyped, WithHeldTyped
    <2>6. QED
      BY <1>3, <2>3, <2>5 DEF StartFallback
  <1>4. QED
    BY <1>1, <1>2, <1>3

\* The first symbol of a list, and the others.
LEMMA ListSplit ==
    ASSUME NEW seq \in SymbolList \ {<<>>}
    PROVE  /\ Head(seq) \in Symbol /\ Tail(seq) \in SymbolList
           /\ Len(seq) \in Nat \ {0}
           /\ Len(seq) = 1 <=> Tail(seq) = <<>>
           /\ Head(seq) \notin Range(Tail(seq))
           /\ Range(seq) = {Head(seq)} \cup Range(Tail(seq))
  <1>1. seq \in Seq(Symbol) /\ IsInjective(seq) /\ Len(seq) \in Nat \ {0}
    BY DEF SymbolList
  <1>2. /\ Head(seq) = seq[1] /\ seq[1] \in Symbol
        /\ Tail(seq) \in Seq(Symbol) /\ Len(Tail(seq)) = Len(seq) - 1
        /\ \A i \in 1 .. Len(seq) - 1 : Tail(seq)[i] = seq[i + 1]
    BY <1>1
  <1>3. DOMAIN seq = 1 .. Len(seq) /\ DOMAIN Tail(seq) = 1 .. Len(seq) - 1
    BY <1>1, <1>2
  <1>4. IsInjective(Tail(seq))
    <2> SUFFICES ASSUME NEW i \in DOMAIN Tail(seq), NEW j \in DOMAIN Tail(seq),
                        Tail(seq)[i] = Tail(seq)[j]
                 PROVE  i = j
      BY DEF IsInjective
    <2>1. i + 1 \in DOMAIN seq /\ j + 1 \in DOMAIN seq /\ seq[i + 1] = seq[j + 1]
      BY <1>1, <1>2, <1>3
    <2>2. i + 1 = j + 1
      BY <1>1, <2>1 DEF IsInjective
    <2>3. i \in Int /\ j \in Int
      BY <1>1, <1>3
    <2>4. QED
      BY <2>2, <2>3
  <1>5. Head(seq) \notin Range(Tail(seq))
    <2> SUFFICES ASSUME NEW i \in DOMAIN Tail(seq), Tail(seq)[i] = Head(seq) PROVE FALSE
      BY DEF Range
    <2>1. i + 1 \in DOMAIN seq /\ 1 \in DOMAIN seq /\ seq[i + 1] = seq[1]
      BY <1>1, <1>2, <1>3
    <2>2. i + 1 = 1 /\ i \in 1 .. Len(seq) - 1
      BY <1>1, <1>3, <2>1 DEF IsInjective
    <2>3. QED
      BY <1>1, <2>2
  <1>6. Range(seq) = {Head(seq)} \cup Range(Tail(seq))
    <2>1. ASSUME NEW i \in DOMAIN seq PROVE seq[i] \in {Head(seq)} \cup Range(Tail(seq))
      <3>1. CASE i = 1
        BY <1>2, <3>1
      <3>2. CASE i # 1
        <4>1. i - 1 \in DOMAIN Tail(seq) /\ Tail(seq)[i - 1] = seq[i]
          BY <1>1, <1>2, <1>3, <3>2
        <4>2. QED
          BY <4>1 DEF Range
      <3>3. QED
        BY <3>1, <3>2
    <2>2. ASSUME NEW i \in DOMAIN Tail(seq) PROVE Tail(seq)[i] \in Range(seq)
      <3>1. i + 1 \in DOMAIN seq /\ Tail(seq)[i] = seq[i + 1]
        BY <1>1, <1>2, <1>3
      <3>2. QED
        BY <3>1 DEF Range
    <2>3. Head(seq) \in Range(seq)
      BY <1>1, <1>2, <1>3 DEF Range
    <2>4. QED
      BY <2>1, <2>2, <2>3 DEF Range
  <1>7. Len(seq) = 1 <=> Tail(seq) = <<>>
    <2>1. \A q \in Seq(Symbol) : Len(q) = 0 <=> q = <<>>
      OBVIOUS
    <2>2. Len(Tail(seq)) = 0 <=> Tail(seq) = <<>>
      BY <1>2, <2>1
    <2>3. QED
      BY <1>1, <1>2, <2>2
  <1>8. QED
    BY <1>1, <1>2, <1>4, <1>5, <1>6, <1>7 DEF SymbolList

\* The symbol that is evaluated, and the candidates made of its reviews.
LEMMA CollectedTyped ==
    ASSUME RoundInv, phase = "evaluate", NEW opinion \in Opinion
    PROVE  LET s == Head(todo)
           IN  /\ s \in Symbol
               /\ Collected(opinion) \in Seq(CandidateType)
               /\ DOMAIN Collected(opinion) # {}
               /\ \A i \in DOMAIN Collected(opinion) :
                     LET c == Collected(opinion)[i]
                     IN  /\ c.symbol = s /\ c.price = price[s] /\ c.qty = asset.qty
                         /\ c.override.reason = "stop_loss" =>
                              Stopped(asset.qty, asset.avg, price[s])
                                /\ StopsOut(c, s, asset.qty, price[s])
                         /\ Stopped(asset.qty, asset.avg, price[s]) =>
                              StopsOut(c, s, asset.qty, price[s])
  <1> DEFINE s == Head(todo)
             C(i) == Candidate(s, Strategies[i], opinion.review[Strategies[i]], asset, price[s], peak[s])
             Facts(c) == /\ c \in CandidateType
                         /\ c.symbol = s /\ c.price = price[s] /\ c.qty = asset.qty
                         /\ c.override.reason = "stop_loss" =>
                              Stopped(asset.qty, asset.avg, price[s])
                                /\ StopsOut(c, s, asset.qty, price[s])
                         /\ Stopped(asset.qty, asset.avg, price[s]) =>
                              StopsOut(c, s, asset.qty, price[s])
  <1>1. s \in Symbol
    BY ListSplit DEF RoundInv, RunKept
  <1>2. price[s] \in Nat \ {0} /\ peak[s] \in Nat /\ asset \in AssetType
    BY <1>1, AccountTyped DEF RoundInv, RunKept
  <1>3. DOMAIN Strategies = 1 .. Len(Strategies) /\ Len(Strategies) \in Nat \ {0}
    BY RoundConstants
  <1> HIDE DEF s
  <1>4. ASSUME NEW i \in DOMAIN Strategies PROVE Facts(C(i))
    <2>1. Strategies[i] \in Range(Strategies)
      BY DEF Range
    <2>2. opinion.review[Strategies[i]] \in ReviewType
      BY <2>1, RoundConstants DEF ReviewType
    <2>3. QED
      BY <1>1, <1>2, <2>1, <2>2, CandidateTyped
  <1>5. Collected(opinion) = [i \in DOMAIN Strategies |-> C(i)]
    BY DEF Collected, s
  <1> HIDE DEF C
  <1>6. \A i \in DOMAIN Collected(opinion) : Facts(Collected(opinion)[i])
    <2> HIDE DEF Facts
    <2> QED BY <1>4, <1>5
  <1>7. DOMAIN Collected(opinion) = 1 .. Len(Strategies)
    BY <1>3, <1>5
  <1>8. Collected(opinion) \in Seq(CandidateType)
    <2>1. \A i \in DOMAIN Strategies : C(i) \in CandidateType
      BY <1>4
    <2>2. QED
      BY <1>3, <1>5, <2>1
  <1>9. DOMAIN Collected(opinion) # {}
    BY <1>3, <1>7
  <1>10. QED
    BY <1>1, <1>6, <1>8, <1>9 DEF s

\* A run appends at most one of them to what it has found, and one if any can
\* be chosen.
LEMMA FoundGrows ==
    ASSUME RoundInv, NEW opinion \in Opinion, Collect(opinion)
    PROVE  /\ found' \in Seq(CandidateType)
           /\ Len(found) \in Nat /\ DOMAIN found = 1 .. Len(found)
           /\ \/ /\ found' = found
                 /\ \A i \in DOMAIN Collected(opinion) :
                       ~Selectable(Collected(opinion)[i], RegimeRead)
              \/ \E i \in DOMAIN Collected(opinion) :
                    /\ DOMAIN found' = 1 .. Len(found) + 1
                    /\ \A j \in 1 .. Len(found) : found'[j] = found[j]
                    /\ found'[Len(found) + 1] = Collected(opinion)[i]
                    /\ Selectable(Collected(opinion)[i], RegimeRead)
  <1> DEFINE candidates == Collected(opinion)
             chosen == Choose(candidates, RegimeRead)
  <1>1. found' = found \o chosen /\ phase = "evaluate"
    BY DEF Collect
  <1>2. found \in Seq(CandidateType) /\ Len(found) \in Nat /\ DOMAIN found = 1 .. Len(found)
    BY DEF RoundInv, RoundTypeOK
  <1>3. candidates \in Seq(CandidateType)
    BY <1>1, CollectedTyped
  <1> HIDE DEF candidates
  <1>4. CASE /\ chosen = <<>>
             /\ \A i \in DOMAIN candidates : ~Selectable(candidates[i], RegimeRead)
    <2>1. found' = found
      BY <1>1, <1>2, <1>4
    <2>2. QED
      BY <1>2, <1>4, <2>1 DEF candidates
  <1>5. CASE \E i \in DOMAIN candidates :
                chosen = <<candidates[i]>> /\ Selectable(candidates[i], RegimeRead)
    <2>1. PICK i \in DOMAIN candidates :
                chosen = <<candidates[i]>> /\ Selectable(candidates[i], RegimeRead)
      BY <1>5
    <2> DEFINE c == candidates[i]
    <2>2. c \in CandidateType
      BY <1>3
    <2> HIDE DEF c, chosen
    <2>3. chosen = <<c>>
      BY <2>1 DEF c
    <2>4. /\ found' \in Seq(CandidateType) /\ DOMAIN found' = 1 .. Len(found) + 1
          /\ \A j \in 1 .. Len(found) : found'[j] = found[j]
          /\ found'[Len(found) + 1] = c
      BY <1>1, <1>2, <2>2, <2>3
    <2>5. QED
      BY <1>2, <2>1, <2>4 DEF candidates, c
  <1>6. QED
    BY <1>3, <1>4, <1>5, ChooseOne

\* Reading the balance of a symbol keeps the run well formed.
LEMMA FetchTyped ==
    ASSUME RoundInv, FetchAsset
    PROVE  RoundInv'
  <1>1. /\ phase = "scan" /\ asset' = [qty |-> held[Head(todo)], avg |-> avg[Head(todo)]]
        /\ phase' = "evaluate"
        /\ UNCHANGED <<cash, held, avg, price, dynamic, peak, scheduler, view, selected, todo,
                       found, rest, trade, placed>>
    BY DEF FetchAsset
  <1>2. Head(todo) \in Symbol /\ todo # <<>>
    BY <1>1, ListSplit DEF RoundInv, RunKept
  <1>3. asset' \in AssetType
    BY <1>1, <1>2, AccountTyped DEF AssetType
  <1>4. QED
    BY <1>1, <1>2, <1>3 DEF RoundInv, RunKept, RoundTypeOK, Phase

\* What an armed cycle submits is an order.
LEMMA CycleOrder ==
    ASSUME RoundInv, NEW side \in {"buy", "sell"}, NEW qty \in CycleQty, CycleTrade(side, qty)
    PROVE  LET t == [symbol |-> Head(todo), side |-> side, price |-> price[Head(todo)], qty |-> qty]
           IN  /\ Head(todo) \in Symbol /\ t \in TradeType /\ t.symbol = Head(todo)
               /\ Preview(t).allowed /\ Execute(t, Preview(t))
  <1> DEFINE t == [symbol |-> Head(todo), side |-> side, price |-> price[Head(todo)], qty |-> qty]
  <1>1. Head(todo) \in Symbol
    BY ListSplit DEF RoundInv, RunKept, CycleTrade
  <1>2. price[Head(todo)] \in Nat \ {0} /\ qty \in Nat
    BY <1>1, AccountTyped, RoundConstants
  <1>3. t \in TradeType
    BY <1>1, <1>2 DEF TradeType
  <1>4. Preview(t).allowed /\ Execute(t, Preview(t))
    BY DEF CycleTrade
  <1>5. QED
    BY <1>1, <1>3, <1>4

\* An order of the trading cycle keeps the run well formed.
LEMMA CycleTyped ==
    ASSUME RoundInv, NEW side \in {"buy", "sell"}, NEW qty \in CycleQty, CycleTrade(side, qty)
    PROVE  RoundInv'
  <1>1. /\ cash' \in Nat /\ held' \in [Symbol -> Nat] /\ avg' \in [Symbol -> Nat]
        /\ price' = price /\ placed' \in 0 .. MaxOrders
    BY CycleOrder, ExecuteTyped
  <1>2. /\ phase = "evaluate"
        /\ UNCHANGED <<dynamic, peak, scheduler, phase, view, selected, todo, asset, found,
                       rest, trade>>
    BY DEF CycleTrade
  <1>3. QED
    BY <1>1, <1>2 DEF RoundInv, RunKept, RoundTypeOK

\* Evaluating a symbol keeps the run well formed, and touches at most the peak of
\* that symbol.
LEMMA CollectTyped ==
    ASSUME RoundInv, NEW opinion \in Opinion, Collect(opinion)
    PROVE  /\ RoundInv'
           /\ Head(todo) \in Symbol
           /\ peak' = peak \/ peak' = [peak EXCEPT ![Head(todo)] =
                                          NextPeak(peak[Head(todo)], price[Head(todo)])]
  <1> DEFINE s == Head(todo)
  <1>1. /\ phase = "evaluate" /\ peak' = WithPeak(s) /\ todo' = Tail(todo)
        /\ phase' = (IF Len(todo) = 1 THEN "decide" ELSE "scan")
        /\ asset' = [qty |-> 0, avg |-> 0]
        /\ UNCHANGED <<cash, held, avg, price, dynamic, scheduler, view, selected, rest,
                       trade, placed>>
    BY DEF Collect
  <1>2. /\ s \in Symbol /\ Tail(todo) \in SymbolList
        /\ Len(todo) = 1 <=> Tail(todo) = <<>>
    BY <1>1, ListSplit DEF RoundInv, RunKept
  <1>3. peak \in [Symbol -> Nat] /\ peak[s] \in Nat /\ price[s] \in Nat
    BY <1>2, AccountTyped
  <1>4. peak' = peak \/ peak' = [peak EXCEPT ![s] = NextPeak(peak[s], price[s])]
    BY <1>1 DEF WithPeak
  <1>5. NextPeak(peak[s], price[s]) \in Nat
    BY <1>3 DEF NextPeak, Larger
  <1>6. peak' \in [Symbol -> Nat]
    BY <1>3, <1>4, <1>5
  <1>7. /\ found' \in Seq(CandidateType) /\ DOMAIN found \subseteq DOMAIN found'
    <2>1. Len(found) \in Nat /\ 1 .. Len(found) \subseteq 1 .. Len(found) + 1
      BY FoundGrows
    <2>2. QED
      BY <2>1, FoundGrows
  <1> HIDE DEF s
  <1>8. RunKept'
    BY <1>1, <1>2, EmptyLists DEF RoundInv, RunKept
  <1>9. RoundTypeOK'
    <2>1. trade = NoTrade /\ rest \subseteq DOMAIN found
      BY <1>1 DEF RoundInv, RoundTypeOK
    <2>2. todo' \in Seq(Symbol)
      BY <1>1, <1>2 DEF SymbolList
    <2>3. QED
      BY <1>1, <1>6, <1>7, <2>1, <2>2 DEF RoundInv, RoundTypeOK, Phase
  <1>10. QED
    BY <1>2, <1>4, <1>8, <1>9 DEF RoundInv, s

\* A candidate that is bought makes an order, sized within the room of the account.
LEMMA BuyTradeTyped ==
    ASSUME NEW account \in AccountType, NEW c \in CandidateType
    PROVE  LET target == BuyTarget(account, c.symbol, c.target)
           IN  /\ target \in Nat
               /\ BuyQty(account, c) = (target * Scale) \div c.price
               /\ [symbol |-> c.symbol, side |-> "buy", price |-> c.price,
                   qty |-> BuyQty(account, c)] \in TradeType
  <1> DEFINE target == BuyTarget(account, c.symbol, c.target)
  <1>1. c.symbol \in Symbol /\ c.target \in Nat /\ c.price \in Nat \ {0}
    BY DEF CandidateType
  <1>2. target \in Nat
    BY <1>1, TargetInRoom
  <1>3. BuyQty(account, c) = (target * Scale) \div c.price
    BY DEF BuyQty
  <1> HIDE DEF target
  <1>4. BuyQty(account, c) \in Nat
    BY <1>1, <1>2, <1>3, QuantityForTarget
  <1>5. QED
    BY <1>1, <1>2, <1>3, <1>4 DEF TradeType, target

\* So does one that is sold.
LEMMA SellTradeTyped ==
    ASSUME NEW c \in CandidateType
    PROVE  SellTrade(c) \in TradeType
  <1>1. c.symbol \in Symbol /\ c.price \in Nat \ {0} /\ SellQty(c) \in Nat
    BY SellQtyTyped DEF CandidateType
  <1>2. QED
    BY <1>1 DEF SellTrade, TradeType

\* The candidates that the decision chooses from, and what it chooses.
LEMMA ChoicesTyped ==
    ASSUME RoundInv
    PROVE  /\ found \in Seq(CandidateType)
           /\ \A i \in DOMAIN found : found[i] \in CandidateType
           /\ ExecutableBuys \subseteq DOMAIN found /\ Sells \subseteq DOMAIN found
           /\ \A I \in SUBSET DOMAIN found : I # {} => BestBuyOf(I) \in I
           /\ Sells # {} =>
                 \E best \in Sells : /\ BestSell = found[best]
                                     /\ \A i \in Sells : ~SellBefore(found[i], BestSell)
  <1>1. found \in Seq(CandidateType)
    BY DEF RoundInv, RoundTypeOK
  <1>2. \A i \in DOMAIN found : found[i] \in CandidateType
    BY <1>1
  <1>3. ExecutableBuys \subseteq DOMAIN found /\ Sells \subseteq DOMAIN found
    BY DEF ExecutableBuys, Buys, Sells
  <1>4. \A I \in SUBSET DOMAIN found : I # {} => BestBuyOf(I) \in I
    BY <1>1, BestByScore DEF BestBuyOf
  <1>5. ASSUME Sells # {}
        PROVE  \E best \in Sells : /\ BestSell = found[best]
                                   /\ \A i \in Sells : ~SellBefore(found[i], BestSell)
    <2> DEFINE best == Foremost(found, Sells, SellBefore)
    <2>1. best \in Sells /\ \A i \in Sells : ~SellBefore(found[i], found[best])
      BY <1>1, <1>3, <1>5, BestToSell
    <2>2. BestSell = found[best]
      BY DEF BestSell
    <2> HIDE DEF best
    <2>3. QED
      BY <2>1, <2>2
  <1>6. QED
    BY <1>1, <1>2, <1>3, <1>4, <1>5

\* A step that tries an order keeps the types.
LEMMA TryTyped ==
    ASSUME RoundInv, phase \in {"decide", "preview"}, NEW t \in TradeType,
           NEW fallbacks \in SUBSET DOMAIN found, Try(t, fallbacks)
    PROVE  RoundInv'
  <1>1. /\ trade' = t /\ rest' = fallbacks /\ phase' = "preview"
        /\ UNCHANGED <<cash, held, avg, price, dynamic, peak, scheduler, view, selected, todo,
                       asset, found, placed>>
    BY DEF Try
  <1>2. todo = <<>>
    BY DEF RoundInv, RunKept
  <1>3. RunKept'
    BY <1>1, <1>2 DEF RoundInv, RunKept
  <1>4. RoundTypeOK'
    BY <1>1 DEF RoundInv, RoundTypeOK, Phase
  <1>5. QED
    BY <1>3, <1>4 DEF RoundInv

\* What each step that tries an order tries.
LEMMA Tries ==
    ASSUME RoundInv, DecideSell \/ DecideBuyOverSell \/ DecideBuy \/ NextBuy
    PROVE  /\ phase \in {"decide", "preview"}
           /\ \/ /\ phase = "decide" /\ Sells # {} /\ ~BuyOutranksSell
                 /\ BestSell \in CandidateType /\ Try(SellTrade(BestSell), {})
              \/ \E i \in DOMAIN found, others \in SUBSET DOMAIN found :
                    /\ found[i] \in CandidateType /\ Try(BuyTrade(found[i]), others)
                    /\ \/ /\ phase = "decide" /\ (Sells = {} \/ BuyOutranksSell)
                          /\ i \in ExecutableBuys /\ others \subseteq ExecutableBuys
                       \/ phase = "preview" /\ i \in rest /\ others \subseteq rest
  <1>1. rest \subseteq DOMAIN found
    BY DEF RoundInv, RoundTypeOK
  <1>2. CASE DecideSell
    <2>1. phase = "decide" /\ Sells # {} /\ ~BuyOutranksSell /\ Try(SellTrade(BestSell), {})
      BY <1>2 DEF DecideSell
    <2>2. BestSell \in CandidateType
      BY <2>1, ChoicesTyped
    <2>3. QED
      BY <2>1, <2>2
  <1>3. CASE DecideBuyOverSell
    <2> DEFINE i == BestBuyOf(ExecutableBuys)
    <2>1. phase = "decide" /\ BuyOutranksSell /\ Try(BuyTrade(found[i]), {})
      BY <1>3 DEF DecideBuyOverSell
    <2>2. ExecutableBuys # {}
      BY <2>1 DEF BuyOutranksSell
    <2>3. i \in ExecutableBuys /\ i \in DOMAIN found /\ found[i] \in CandidateType
      BY <2>2, ChoicesTyped
    <2> HIDE DEF i
    <2>4. {} \in SUBSET DOMAIN found /\ {} \subseteq ExecutableBuys
      OBVIOUS
    <2>5. QED
      BY <2>1, <2>3, <2>4
  <1>4. CASE DecideBuy
    <2> DEFINE i == BestBuyOf(ExecutableBuys)
               others == ExecutableBuys \ {i}
    <2>1. phase = "decide" /\ Sells = {} /\ ExecutableBuys # {} /\ Try(BuyTrade(found[i]), others)
      BY <1>4 DEF DecideBuy, TryBuysOf
    <2>2. i \in ExecutableBuys /\ i \in DOMAIN found /\ found[i] \in CandidateType
      BY <2>1, ChoicesTyped
    <2>3. others \in SUBSET DOMAIN found /\ others \subseteq ExecutableBuys
      BY ChoicesTyped
    <2> HIDE DEF i, others
    <2>4. QED
      BY <2>1, <2>2, <2>3
  <1>5. CASE NextBuy
    <2> DEFINE i == BestBuyOf(rest)
               others == rest \ {i}
    <2>1. phase = "preview" /\ rest # {} /\ Try(BuyTrade(found[i]), others)
      BY <1>5 DEF NextBuy, TryBuysOf
    <2>2. i \in rest /\ i \in DOMAIN found /\ found[i] \in CandidateType
      BY <1>1, <2>1, ChoicesTyped
    <2>3. others \in SUBSET DOMAIN found /\ others \subseteq rest
      BY <1>1
    <2> HIDE DEF i, others
    <2>4. QED
      BY <2>1, <2>2, <2>3
  <1>6. QED
    BY <1>2, <1>3, <1>4, <1>5

\* All of them keep the types.
LEMMA TriesTyped ==
    ASSUME RoundInv, DecideSell \/ DecideBuyOverSell \/ DecideBuy \/ NextBuy
    PROVE  RoundInv'
  <1>1. phase \in {"decide", "preview"}
    BY Tries
  <1>2. CASE BestSell \in CandidateType /\ Try(SellTrade(BestSell), {})
    <2>1. SellTrade(BestSell) \in TradeType /\ {} \in SUBSET DOMAIN found
      BY <1>2, SellTradeTyped
    <2>2. QED
      BY <1>1, <1>2, <2>1, TryTyped
  <1>3. CASE \E i \in DOMAIN found, others \in SUBSET DOMAIN found :
                found[i] \in CandidateType /\ Try(BuyTrade(found[i]), others)
    <2>1. PICK i \in DOMAIN found, others \in SUBSET DOMAIN found :
                found[i] \in CandidateType /\ Try(BuyTrade(found[i]), others)
      BY <1>3
    <2>2. view \in AccountType
      BY DEF RoundInv, RunKept
    <2>3. BuyTrade(found[i]) \in TradeType
      BY <2>1, <2>2, BuyTradeTyped DEF BuyTrade
    <2>4. QED
      BY <1>1, <2>1, <2>3, TryTyped
  <1>4. QED
    BY <1>2, <1>3, Tries

\* A preview changes nothing but what the run knows of it.
LEMMA PreviewTyped ==
    ASSUME RoundInv, PreviewAllowed
    PROVE  RoundInv'
  <1>1. /\ phase = "preview" /\ Preview(trade).allowed /\ phase' = "create"
        /\ UNCHANGED <<cash, held, avg, price, dynamic, peak, scheduler, view, selected, todo,
                       asset, found, rest, trade, placed>>
    BY DEF PreviewAllowed
  <1>2. Preview(trade)' = Preview(trade)
    BY <1>1 DEF Preview
  <1>3. RunKept'
    BY <1>1, <1>2 DEF RoundInv, RunKept
  <1>4. RoundTypeOK'
    BY <1>1 DEF RoundInv, RoundTypeOK, Phase
  <1>5. QED
    BY <1>3, <1>4 DEF RoundInv

\* An order is created as it was allowed, and ends the run.
LEMMA CreateTyped ==
    ASSUME RoundInv, Create
    PROVE  RoundInv'
  <1>1. /\ phase = "create" /\ Execute(trade, Preview(trade)) /\ EndRun
        /\ UNCHANGED <<dynamic, peak, scheduler>>
    BY DEF Create
  <1>2. trade \in TradeType /\ Preview(trade).allowed
    BY <1>1 DEF RoundInv, RoundTypeOK, RunKept
  <1>3. /\ cash' \in Nat /\ held' \in [Symbol -> Nat] /\ avg' \in [Symbol -> Nat]
        /\ price' = price /\ placed' \in 0 .. MaxOrders
    BY <1>1, <1>2, ExecuteTyped
  <1>4. peak' \in [Symbol -> Nat]
    BY <1>1, AccountTyped
  <1>5. QED
    BY <1>1, <1>3, <1>4, EndTyped

\* So do the other steps that end a run, which order nothing.
LEMMA OtherEndTyped ==
    ASSUME RoundInv, DecideNothing \/ PreviewBlocked \/ RunFails \/ Restart
    PROVE  RoundInv'
  <1>1. /\ EndRun /\ UNCHANGED <<cash, held, avg, price, dynamic, placed>>
        /\ \/ peak' = peak /\ scheduler' = scheduler
           \/ peak' = [s \in Symbol |-> 0] /\ scheduler' = NoScheduler
    BY DEF DecideNothing, PreviewBlocked, RunFails, Restart
  <1>2. /\ cash' \in Nat /\ held' \in [Symbol -> Nat] /\ avg' \in [Symbol -> Nat]
        /\ peak' \in [Symbol -> Nat]
    BY <1>1, AccountTyped, EmptyLists
  <1>3. placed' \in 0 .. MaxOrders
    BY <1>1 DEF RoundInv, RoundTypeOK
  <1>4. QED
    BY <1>1, <1>2, <1>3, EndTyped

\* The market moves between two runs.
LEMMA MarketTyped ==
    ASSUME RoundInv, MarketMoves
    PROVE  RoundInv'
  <1>1. /\ phase = "rest" /\ price' \in Price
        /\ view' = [view EXCEPT !.price = price']
        /\ UNCHANGED <<cash, held, avg, dynamic, peak, scheduler, phase, selected, todo, asset,
                       found, rest, trade, placed>>
    BY DEF MarketMoves
  <1>2. price' \in [Symbol -> Nat]
    BY <1>1, RoundConstants
  <1>3. view' \in AccountType
    <2>1. view \in AccountType
      BY DEF RoundInv, RunKept
    <2>2. QED
      BY <1>1, <1>2, <2>1 DEF AccountType
  <1>4. RunKept'
    BY <1>1, <1>3 DEF RoundInv, RunKept
  <1>5. RoundTypeOK'
    BY <1>1 DEF RoundInv, RoundTypeOK
  <1>6. QED
    BY <1>4, <1>5 DEF RoundInv

\* The steps of a run by what they do.
LEMMA RoundSteps ==
    ASSUME [RoundNext]_vars
    PROVE  \/ StartConfigured \/ StartSelected \/ StartFallback
           \/ FetchAsset
           \/ \E side \in {"buy", "sell"}, qty \in CycleQty : CycleTrade(side, qty)
           \/ \E opinion \in Opinion : Collect(opinion)
           \/ DecideSell \/ DecideBuyOverSell \/ DecideBuy \/ NextBuy
           \/ PreviewAllowed
           \/ Create
           \/ DecideNothing \/ PreviewBlocked \/ RunFails \/ Restart
           \/ MarketMoves
           \/ UNCHANGED vars
  BY DEF RoundNext

\* Every step keeps the types.
LEMMA RoundInvNext ==
    ASSUME RoundInv, [RoundNext]_vars
    PROVE  RoundInv'
  <1>1. CASE StartConfigured \/ StartSelected \/ StartFallback
    BY <1>1, StartScans, ScanTyped
  <1>2. CASE FetchAsset
    BY <1>2, FetchTyped
  <1>3. CASE \E side \in {"buy", "sell"}, qty \in CycleQty : CycleTrade(side, qty)
    BY <1>3, CycleTyped
  <1>4. CASE \E opinion \in Opinion : Collect(opinion)
    BY <1>4, CollectTyped
  <1>5. CASE DecideSell \/ DecideBuyOverSell \/ DecideBuy \/ NextBuy
    BY <1>5, TriesTyped
  <1>6. CASE PreviewAllowed
    BY <1>6, PreviewTyped
  <1>7. CASE Create
    BY <1>7, CreateTyped
  <1>8. CASE DecideNothing \/ PreviewBlocked \/ RunFails \/ Restart
    BY <1>8, OtherEndTyped
  <1>9. CASE MarketMoves
    BY <1>9, MarketTyped
  <1>10. CASE UNCHANGED vars
    <2>1. Preview(trade)' = Preview(trade)
      BY <1>10 DEF vars, Preview
    <2>2. QED
      BY <1>10, <2>1 DEF vars, RoundInv, RoundTypeOK, RunKept
  <1>11. QED
    BY <1>1, <1>2, <1>3, <1>4, <1>5, <1>6, <1>7, <1>8, <1>9, <1>10, RoundSteps

\* The invariant of the specification.
LEMMA RoundInvariant == RoundSpec => []RoundInv
  <1>1. RoundInit => RoundInv
    BY RoundInvInit
  <1>2. RoundInv /\ [RoundNext]_vars => RoundInv'
    BY RoundInvNext
  <1>3. QED
    BY <1>1, <1>2, PTL DEF RoundSpec

\* Everything a run keeps has its type, whatever is ordered and wherever the
\* run stops.
THEOREM RoundTyped == RoundSpec => []RoundTypeOK
  <1>1. RoundInv => RoundTypeOK
    BY DEF RoundInv
  <1>2. QED
    BY <1>1, RoundInvariant, PTL
-----------------------------------------------------------------------------
(***************************************************************************)
(* Peaks and previews.                                                     *)
(***************************************************************************)

\* The peak of a symbol rises with its evaluation and is lost with the process
\* only.
LEMMA PeakSteps ==
    ASSUME RoundInv, [RoundNext]_vars
    PROVE  peak' = [s \in Symbol |-> 0] \/ \A s \in Symbol : peak'[s] >= peak[s]
  <1>1. peak \in [Symbol -> Nat]
    BY DEF RoundInv, RoundTypeOK
  <1>2. CASE \E opinion \in Opinion : Collect(opinion)
    <2> DEFINE s == Head(todo)
               next == NextPeak(peak[s], price[s])
    <2>1. /\ s \in Symbol
          /\ peak' = peak \/ peak' = [peak EXCEPT ![s] = next]
      BY <1>2, CollectTyped
    <2>2. peak[s] \in Nat /\ price[s] \in Nat
      BY <1>1, <2>1, AccountTyped
    <2>3. next >= peak[s]
      <3>1. \A a, b \in Nat : NextPeak(a, b) >= a
        BY DEF NextPeak, Larger
      <3> HIDE DEF s
      <3>2. QED
        BY <2>2, <3>1
    <2> HIDE DEF s, next
    <2>4. \A x \in Symbol : peak'[x] >= peak[x]
      BY <1>1, <2>1, <2>3
    <2>5. QED
      BY <2>4
  <1>3. CASE Restart
    BY <1>3 DEF Restart
  <1>4. CASE peak' = peak
    BY <1>1, <1>4
  <1>5. QED
    <2>1. \/ \E opinion \in Opinion : Collect(opinion)
          \/ Restart
          \/ peak' = peak
      <3>1. CASE StartConfigured \/ StartSelected \/ StartFallback
        BY <3>1 DEF StartConfigured, StartSelected, StartFallback, ScanSymbols
      <3>2. CASE DecideSell \/ DecideBuyOverSell \/ DecideBuy \/ NextBuy
        BY <3>2 DEF DecideSell, DecideBuyOverSell, DecideBuy, NextBuy, TryBuysOf, Try
      <3>3. CASE FetchAsset \/ PreviewAllowed \/ Create \/ DecideNothing \/ PreviewBlocked
                   \/ RunFails \/ MarketMoves \/ UNCHANGED vars
        BY <3>3 DEF FetchAsset, PreviewAllowed, Create, DecideNothing, PreviewBlocked, RunFails,
                    MarketMoves, vars
      <3>4. CASE \E side \in {"buy", "sell"}, qty \in CycleQty : CycleTrade(side, qty)
        BY <3>4 DEF CycleTrade
      <3>5. QED
        BY <3>1, <3>2, <3>3, <3>4, RoundSteps
    <2>2. QED
      BY <1>2, <1>3, <1>4, <2>1

\* The price that a trailing stop is measured from never falls while the process
\* lives.
THEOREM RoundPeaksOnlyRise == RoundSpec => PeaksOnlyRise
  <1>1. RoundInv /\ [RoundNext]_vars
          => [peak' = [s \in Symbol |-> 0] \/ \A s \in Symbol : peak'[s] >= peak[s]]_vars
    BY PeakSteps
  <1>2. QED
    BY <1>1, RoundInvariant, PTL DEF RoundSpec, PeaksOnlyRise

\* An order that is submitted is one the exchange accepts, when the slippage of
\* a minimum order is at least half the smallest amount: a lower slippage could
\* be rounded away.
THEOREM RoundExchangeNeverRejects ==
    ASSUME BasisPoints <= 2 * (MinNotional * SlipBps)
    PROVE  RoundSpec => []ExchangeNeverRejects
  <1>1. ASSUME RoundInv, phase = "create", trade.side = "buy"
        PROVE  LET notional == Preview(trade).notional
               IN  notional >= MinNotional /\ notional + Share(notional, FeeBps) <= cash
    <2>1. trade \in TradeType /\ Preview(trade).allowed /\ cash \in Nat
      BY <1>1 DEF RoundInv, RoundTypeOK, RunKept
    <2>2. Preview(trade) = PreviewBuy(trade, cash)
      BY <1>1 DEF Preview
    <2>3. QED
      BY <2>1, <2>2, PreviewBuyAllowed
  <1>2. ASSUME RoundInv, phase = "create", trade.side # "buy"
        PROVE  LET qty == Preview(trade).qty
               IN  qty <= held[trade.symbol] /\ AtLeastMin(qty, trade.price)
    <2>1. trade \in TradeType /\ Preview(trade).allowed /\ held \in [Symbol -> Nat]
      BY <1>2 DEF RoundInv, RoundTypeOK, RunKept
    <2>2. held[trade.symbol] \in Nat
      BY <2>1 DEF TradeType
    <2>3. Preview(trade) = PreviewSell(trade, held[trade.symbol])
      BY <1>2 DEF Preview
    <2>4. QED
      BY <2>1, <2>2, <2>3, PreviewSellWithin, PreviewSellWorthy
  <1>3. RoundInv => ExchangeNeverRejects
    BY <1>1, <1>2 DEF ExchangeNeverRejects
  <1>4. QED
    BY <1>3, RoundInvariant, PTL
-----------------------------------------------------------------------------
(***************************************************************************)
(* Buys stay within their room.                                            *)
(***************************************************************************)

\* A buy that leaves the account, as the run has read it, within its limits.
FitsRoom(t, account) ==
    \E target \in Nat :
        /\ Meaningful <= target /\ Amount(t.qty, t.price) <= target
        /\ Exposure(account) + target <= Share(account.cash + Exposure(account), TotalBps)
        /\ AssetValue(account, t.symbol) + target
             <= Share(account.cash + Exposure(account), SymbolBps)

\* Only such buys are tried, and the ones that are left are such buys.
RoomKept ==
    /\ phase \in {"preview", "create"} /\ trade.side = "buy" => FitsRoom(trade, view)
    /\ phase = "preview" => rest \subseteq ExecutableBuys

\* An executable buy makes one.
LEMMA ExecutableFits ==
    ASSUME MinNotional <= Meaningful, NEW account \in AccountType, NEW c \in CandidateType,
           BuyExecutable(account, c), NEW t,
           t = [symbol |-> c.symbol, side |-> "buy", price |-> c.price, qty |-> BuyQty(account, c)]
    PROVE  FitsRoom(t, account)
  <1> DEFINE target == BuyTarget(account, c.symbol, c.target)
             exposure == Exposure(account)
             value == AssetValue(account, c.symbol)
             equity == account.cash + exposure
  <1>1. c.symbol \in Symbol /\ c.target \in Nat /\ c.price \in Nat \ {0}
    BY DEF CandidateType
  <1>2. target \in Nat /\ BuyQty(account, c) = (target * Scale) \div c.price
    BY BuyTradeTyped
  <1>3. target > 0 => /\ exposure + target <= Share(equity, TotalBps)
                      /\ value + target <= Share(equity, SymbolBps)
    BY <1>1, TargetInRoom
  <1>4. Meaningful <= target
    BY SizingConstants, <1>2 DEF BuyExecutable
  <1> HIDE DEF target
  <1>5. target > 0
    BY <1>2, <1>4, MoneyConstants, SizingConstants
  <1>6. Amount(t.qty, t.price) <= target
    BY <1>1, <1>2, QuantityForTarget
  <1>7. t.symbol = c.symbol
    OBVIOUS
  <1>8. QED
    BY <1>2, <1>3, <1>4, <1>5, <1>6, <1>7 DEF FitsRoom

\* The steps by what they leave of a trade in hand.
LEMMA TradeSteps ==
    ASSUME RoundInv, [RoundNext]_vars
    PROVE  \/ phase' \notin {"preview", "create"}
           \/ DecideSell \/ DecideBuyOverSell \/ DecideBuy \/ NextBuy
           \/ /\ phase = "preview" \/ phase' = phase
              /\ UNCHANGED <<trade, view, found, rest, scheduler, price, held, avg, cash>>
  <1>1. CASE StartConfigured \/ StartSelected \/ StartFallback
    BY <1>1 DEF StartConfigured, StartSelected, StartFallback, ScanSymbols
  <1>2. CASE FetchAsset
    BY <1>2 DEF FetchAsset
  <1>3. CASE \E side \in {"buy", "sell"}, qty \in CycleQty : CycleTrade(side, qty)
    BY <1>3 DEF CycleTrade
  <1>4. CASE \E opinion \in Opinion : Collect(opinion)
    BY <1>4 DEF Collect
  <1>5. CASE PreviewAllowed
    BY <1>5 DEF PreviewAllowed
  <1>6. CASE Create \/ DecideNothing \/ PreviewBlocked \/ RunFails \/ Restart
    BY <1>6 DEF Create, DecideNothing, PreviewBlocked, RunFails, Restart, EndRun
  <1>7. CASE MarketMoves
    BY <1>7 DEF MarketMoves
  <1>8. CASE UNCHANGED vars
    BY <1>8 DEF vars
  <1>9. QED
    BY <1>1, <1>2, <1>3, <1>4, <1>5, <1>6, <1>7, <1>8, RoundSteps

\* Every step keeps it.
LEMMA RoomNext ==
    ASSUME MinNotional <= Meaningful, RoundInv, RoomKept, [RoundNext]_vars
    PROVE  RoomKept'
  <1>1. CASE phase' \notin {"preview", "create"}
    BY <1>1 DEF RoomKept
  <1>2. CASE DecideSell \/ DecideBuyOverSell \/ DecideBuy \/ NextBuy
    <2>1. view \in AccountType /\ {} \subseteq ExecutableBuys
      BY DEF RoundInv, RunKept
    <2>2. CASE Try(SellTrade(BestSell), {})
      <3>1. trade'.side = "sell" /\ rest' = {}
        BY <2>2 DEF Try, SellTrade
      <3>2. QED
        BY <3>1 DEF RoomKept
    <2>3. CASE \E i \in ExecutableBuys, others \in SUBSET ExecutableBuys :
                  found[i] \in CandidateType /\ Try(BuyTrade(found[i]), others)
      <3>1. PICK i \in ExecutableBuys, others \in SUBSET ExecutableBuys :
                  found[i] \in CandidateType /\ Try(BuyTrade(found[i]), others)
        BY <2>3
      <3>2. /\ trade' = BuyTrade(found[i]) /\ rest' = others
            /\ UNCHANGED <<view, found>>
        BY <3>1 DEF Try
      <3>3. BuyExecutable(view, found[i])
        BY DEF ExecutableBuys
      <3>4. FitsRoom(BuyTrade(found[i]), view)
        BY <2>1, <3>1, <3>3, ExecutableFits DEF BuyTrade
      <3>5. ExecutableBuys' = ExecutableBuys
        BY <3>2 DEF ExecutableBuys, Buys
      <3>6. FitsRoom(trade, view)'
        BY <3>2, <3>4
      <3>7. QED
        BY <3>2, <3>5, <3>6 DEF RoomKept
    <2>4. phase = "preview" => rest \subseteq ExecutableBuys
      BY DEF RoomKept
    <2>5. QED
      BY <1>2, <2>2, <2>3, <2>4, Tries
  <1>3. CASE /\ phase = "preview" \/ phase' = phase
             /\ UNCHANGED <<trade, view, found, rest, scheduler, price, held, avg, cash>>
    <2>1. ExecutableBuys' = ExecutableBuys
      BY <1>3 DEF ExecutableBuys, Buys
    <2>2. FitsRoom(trade, view)' = FitsRoom(trade, view)
      BY <1>3
    <2>3. CASE phase' \in {"preview", "create"}
      <3>1. phase \in {"preview", "create"}
        BY <1>3, <2>3
      <3>2. phase' = "preview" => phase = "preview"
        BY <1>3
      <3>3. QED
        BY <1>3, <2>1, <2>2, <3>1, <3>2 DEF RoomKept
    <2>4. QED
      BY <2>3 DEF RoomKept
  <1>4. QED
    BY <1>1, <1>2, <1>3, TradeSteps

\* What fits the room is bought within it.
LEMMA FitsIsWithin ==
    ASSUME MinNotional <= Meaningful, RoundInv, RoomKept
    PROVE  BuysStayInRoom
  <1> DEFINE exposure == Exposure(view)
             value == AssetValue(view, trade.symbol)
             equity == view.cash + exposure
             total == Share(equity, TotalBps)
             limit == Share(equity, SymbolBps)
             notional == Preview(trade).notional
  <1> SUFFICES ASSUME phase = "create", trade.side = "buy"
               PROVE  exposure + notional <= total /\ value + notional <= limit
    BY DEF BuysStayInRoom
  <1>1. trade \in TradeType /\ cash \in Nat /\ view \in AccountType
    BY DEF RoundInv, RoundTypeOK, RunKept
  <1>2. PICK target \in Nat :
           /\ Meaningful <= target /\ Amount(trade.qty, trade.price) <= target
           /\ exposure + target <= total /\ value + target <= limit
    BY DEF RoomKept, FitsRoom
  <1>3. exposure \in Nat /\ value \in Nat /\ equity \in Nat
    <2>1. trade.symbol \in Symbol /\ view.cash \in Nat
      BY <1>1 DEF TradeType, AccountType
    <2>2. QED
      BY <1>1, <2>1, ExposureNat
  <1>4. total \in Nat /\ limit \in Nat
    BY <1>3, ShareNat, SizingConstants
  <1>5. notional \in Nat /\ notional <= Larger(MinNotional, Amount(trade.qty, trade.price))
    <2>1. Preview(trade) = PreviewBuy(trade, cash)
      BY DEF Preview
    <2>2. QED
      BY <1>1, <2>1, PreviewBuyAllowed
  <1>6. Larger(MinNotional, Amount(trade.qty, trade.price)) <= target
    <2>1. Amount(trade.qty, trade.price) \in Nat /\ MinNotional \in Nat /\ Meaningful \in Nat
      BY <1>1, AmountNat, MoneyConstants, SizingConstants DEF TradeType
    <2>2. QED
      BY <1>2, <2>1 DEF Larger
  <1>7. Larger(MinNotional, Amount(trade.qty, trade.price)) \in Nat
    <2>1. Amount(trade.qty, trade.price) \in Nat /\ MinNotional \in Nat
      BY <1>1, AmountNat, MoneyConstants DEF TradeType
    <2>2. QED
      BY <2>1 DEF Larger
  <1> HIDE DEF exposure, value, equity, total, limit, notional
  <1>8. notional <= target
    BY <1>5, <1>6, <1>7
  <1>9. QED
    BY <1>2, <1>3, <1>4, <1>5, <1>8

\* A buy keeps the account and its symbol within their limits, also after it is
\* raised to the minimum and rounded, when no order is meaningful that is less
\* than the exchange's minimum.
THEOREM RoundBuysStayInRoom ==
    ASSUME MinNotional <= Meaningful
    PROVE  RoundSpec => []BuysStayInRoom
  <1>1. RoundInit => RoomKept
    BY DEF RoundInit, AtRest, RoomKept
  <1>2. RoundInv /\ RoomKept /\ [RoundNext]_vars => RoomKept'
    BY RoomNext
  <1>3. RoundInv /\ RoomKept => BuysStayInRoom
    BY FitsIsWithin
  <1>4. QED
    BY <1>1, <1>2, <1>3, RoundInvariant, PTL DEF RoundSpec
-----------------------------------------------------------------------------
(***************************************************************************)
(* Stop-losses come first.                                                 *)
(***************************************************************************)

\* A position at its stop-loss in the account as the run has read it, and an
\* order that sells all of it.
Ill(s) == Stopped(view.held[s], view.avg[s], price[s])
SellsIll(t) == t.side = "sell" /\ Ill(t.symbol) /\ t.qty = view.held[t.symbol]

\* The symbols that this run evaluates.
Priorities == Range(PrioritySymbols(scheduler))

\* A symbol that is still to be evaluated is held as the run has read it, but
\* for the one that armed cycles may be trading.
Unread ==
    /\ phase \in {"scan", "evaluate"} =>
          \A s \in Range(todo) : \/ phase = "evaluate" /\ s = Head(todo)
                                 \/ held[s] = view.held[s] /\ avg[s] = view.avg[s]
    /\ phase = "evaluate" =>
          asset = [qty |-> view.held[Head(todo)], avg |-> view.avg[Head(todo)]]

\* Every position at its stop-loss is still to be evaluated or among what was
\* found, and a stop-loss was found only for such a position.
IllFound ==
    /\ \A s \in Priorities :
          Ill(s) => \/ s \in Range(todo)
                    \/ \E i \in DOMAIN found : StopsOut(found[i], s, view.held[s], price[s])
    /\ \A i \in DOMAIN found :
          found[i].override.reason = "stop_loss" =>
              /\ Ill(found[i].symbol)
              /\ StopsOut(found[i], found[i].symbol, view.held[found[i].symbol],
                          price[found[i].symbol])

\* Once one was found, what is tried sells one, and nothing else will be tried.
IllTried ==
    /\ phase \in {"preview", "create"} /\ (\E s \in Priorities : Ill(s)) => SellsIll(trade)
    /\ phase = "preview" /\ (\E s \in Priorities : Ill(s)) => rest = {}

StopKept ==
    /\ Unread /\ IllTried
    /\ IF phase = "rest" THEN found = <<>> ELSE IllFound

\* A run starts with all of its symbols to be evaluated.
LEMMA StartStops ==
    ASSUME RoundInv, StopKept, StartConfigured \/ StartSelected \/ StartFallback
    PROVE  StopKept'
  <1>1. PICK ticker \in BOOLEAN, isSelected \in BOOLEAN, seq \in SymbolList \ {<<>>} :
           ScanSymbols(Account(ticker), seq, isSelected)
    BY StartScans
  <1>2. phase = "rest"
    BY StartScans
  <1>3. todo' = PrioritySymbols(scheduler')
    BY <1>1, <1>2, ScanTyped
  <1>4. /\ view' = Account(ticker) /\ phase' = "scan"
        /\ UNCHANGED <<held, avg, found>>
    BY <1>1 DEF ScanSymbols
  <1>5. found = <<>>
    BY <1>2 DEF StopKept
  <1>6. view'.held = held' /\ view'.avg = avg'
    BY <1>4 DEF Account
  <1>7. Unread' /\ IllTried'
    BY <1>4, <1>6 DEF Unread, IllTried
  <1>8. DOMAIN found' = {}
    BY <1>4, <1>5
  <1>9. IllFound'
    BY <1>3, <1>8 DEF IllFound, Priorities
  <1>10. QED
    BY <1>4, <1>7, <1>9 DEF StopKept

\* The balance of the next symbol is what the run has read.
LEMMA FetchStops ==
    ASSUME RoundInv, StopKept, FetchAsset
    PROVE  StopKept'
  <1>1. /\ phase = "scan" /\ asset' = [qty |-> held[Head(todo)], avg |-> avg[Head(todo)]]
        /\ phase' = "evaluate"
        /\ UNCHANGED <<held, avg, price, scheduler, view, todo, found, rest, trade>>
    BY DEF FetchAsset
  <1>2. Head(todo) \in Range(todo)
    BY <1>1, ListSplit DEF RoundInv, RunKept
  <1>3. Unread'
    BY <1>1, <1>2 DEF StopKept, Unread
  <1>4. IllFound'
    <2>1. IllFound
      BY <1>1 DEF StopKept
    <2>2. UNCHANGED <<found, view, price, todo, scheduler>>
      BY <1>1
    <2>3. QED
      BY <2>1, <2>2 DEF IllFound, Priorities, Ill
  <1>5. QED
    BY <1>1, <1>3, <1>4 DEF StopKept, IllTried

\* An armed cycle leaves the other symbols alone.
LEMMA CycleStops ==
    ASSUME RoundInv, StopKept, NEW side \in {"buy", "sell"}, NEW qty \in CycleQty,
           CycleTrade(side, qty)
    PROVE  StopKept'
  <1>1. /\ phase = "evaluate"
        /\ UNCHANGED <<scheduler, phase, view, todo, asset, found, rest, trade>>
    BY DEF CycleTrade
  <1>2. /\ \A x \in Symbol \ {Head(todo)} : held'[x] = held[x] /\ avg'[x] = avg[x]
        /\ price' = price
    BY CycleOrder, ExecuteTyped
  <1>3. Range(todo) \subseteq Symbol
    BY DEF RoundInv, RunKept, SymbolList, Range
  <1>4. Unread'
    BY <1>1, <1>2, <1>3 DEF StopKept, Unread
  <1>5. IllFound'
    <2>1. IllFound
      BY <1>1 DEF StopKept
    <2>2. UNCHANGED <<found, view, price, todo, scheduler>>
      BY <1>1, <1>2
    <2>3. QED
      BY <2>1, <2>2 DEF IllFound, Priorities, Ill
  <1>6. QED
    BY <1>1, <1>4, <1>5 DEF StopKept, IllTried

\* A symbol at its stop-loss is found when it is evaluated.
LEMMA CollectStops ==
    ASSUME RoundInv, StopKept, NEW opinion \in Opinion, Collect(opinion)
    PROVE  StopKept'
  <1> DEFINE s == Head(todo)
             n == Len(found)
  <1>1. /\ phase = "evaluate" /\ todo' = Tail(todo) /\ phase' \in {"decide", "scan"}
        /\ UNCHANGED <<held, avg, price, scheduler, view, rest, trade>>
    BY DEF Collect
  <1>2. todo \in SymbolList \ {<<>>}
    BY <1>1 DEF RoundInv, RunKept
  <1>3. /\ s \in Symbol /\ s \notin Range(Tail(todo))
        /\ Range(todo) = {s} \cup Range(Tail(todo))
    BY <1>2, ListSplit
  <1>4. asset.qty = view.held[s] /\ asset.avg = view.avg[s]
    BY <1>1 DEF StopKept, Unread
  <1>5. /\ n \in Nat /\ DOMAIN found = 1 .. n
        /\ \/ /\ found' = found
              /\ \A i \in DOMAIN Collected(opinion) :
                    ~Selectable(Collected(opinion)[i], RegimeRead)
           \/ \E i \in DOMAIN Collected(opinion) :
                 /\ DOMAIN found' = 1 .. n + 1
                 /\ \A j \in 1 .. n : found'[j] = found[j]
                 /\ found'[n + 1] = Collected(opinion)[i]
    BY FoundGrows
  <1>6. /\ DOMAIN Collected(opinion) # {}
        /\ \A i \in DOMAIN Collected(opinion) :
              LET c == Collected(opinion)[i]
              IN  /\ c.symbol = s
                  /\ c.override.reason = "stop_loss" =>
                       Stopped(asset.qty, asset.avg, price[s]) /\ StopsOut(c, s, asset.qty, price[s])
                  /\ Stopped(asset.qty, asset.avg, price[s]) => StopsOut(c, s, asset.qty, price[s])
    BY <1>1, CollectedTyped
  <1>7. \A c, at, q : StopsOut(c, s, q, at) => Selectable(c, RegimeRead)
    BY DEF StopsOut, Selectable
  <1> HIDE DEF s, n
  <1>8. Unread'
    <2>1. \A x \in Range(todo') : x \in Range(todo) /\ x # s
      BY <1>1, <1>3
    <2>2. \A x \in Range(todo') : held[x] = view.held[x] /\ avg[x] = view.avg[x]
      BY <1>1, <2>1 DEF StopKept, Unread, s
    <2>3. QED
      BY <1>1, <2>2 DEF Unread
  <1>9. IllFound
    BY <1>1 DEF StopKept
  <1>10. Ill(s) <=> Stopped(asset.qty, asset.avg, price[s])
    BY <1>4 DEF Ill
  <1>11. \A i \in DOMAIN found : i \in DOMAIN found' /\ found'[i] = found[i]
    BY <1>5
  <1>12. Ill(s) => \E i \in DOMAIN found' : StopsOut(found'[i], s, view.held[s], price[s])
    <2> SUFFICES ASSUME Ill(s)
                 PROVE  \E i \in DOMAIN found' : StopsOut(found'[i], s, view.held[s], price[s])
      OBVIOUS
    <2>1. \A i \in DOMAIN Collected(opinion) :
             /\ StopsOut(Collected(opinion)[i], s, view.held[s], price[s])
             /\ Selectable(Collected(opinion)[i], RegimeRead)
      BY <1>4, <1>6, <1>7, <1>10
    <2>2. PICK i \in DOMAIN Collected(opinion) :
             DOMAIN found' = 1 .. n + 1 /\ found'[n + 1] = Collected(opinion)[i]
      BY <1>5, <1>6, <2>1
    <2>3. n + 1 \in DOMAIN found'
      BY <1>5, <2>2
    <2>4. QED
      BY <2>1, <2>2, <2>3
  <1>13. ASSUME NEW i \in DOMAIN found', found'[i].override.reason = "stop_loss"
         PROVE  LET x == found'[i].symbol
                IN  Ill(x) /\ StopsOut(found'[i], x, view.held[x], price[x])
    <2>1. CASE i \in DOMAIN found
      BY <1>9, <1>11, <1>13, <2>1 DEF IllFound
    <2>2. CASE i \notin DOMAIN found
      <3>1. PICK j \in DOMAIN Collected(opinion) :
               DOMAIN found' = 1 .. n + 1 /\ found'[n + 1] = Collected(opinion)[j]
        BY <1>5, <2>2
      <3>2. i = n + 1
        BY <1>5, <2>2, <3>1
      <3>3. found'[i] = Collected(opinion)[j]
        BY <3>1, <3>2
      <3>4. QED
        BY <1>4, <1>6, <1>10, <1>13, <3>3
    <2>3. QED
      BY <2>1, <2>2
  <1>14. \A x : Ill(x)' <=> Ill(x)
    BY <1>1 DEF Ill
  <1>15. IllFound'
    <2>1. ASSUME NEW x \in Priorities, Ill(x)
          PROVE  \/ x \in Range(todo')
                 \/ \E i \in DOMAIN found' : StopsOut(found'[i], x, view.held[x], price[x])
      <3>1. CASE x = s
        BY <1>12, <2>1, <3>1
      <3>2. CASE x # s
        BY <1>1, <1>3, <1>9, <1>11, <2>1, <3>2 DEF IllFound
      <3>3. QED
        BY <3>1, <3>2
    <2>2. Priorities' = Priorities
      BY <1>1 DEF Priorities
    <2>3. QED
      BY <1>1, <1>13, <1>14, <2>1, <2>2 DEF IllFound
  <1>16. QED
    BY <1>1, <1>8, <1>15 DEF StopKept, IllTried

\* Of the candidates to sell one at its stop-loss is the first.
LEMMA IllIsSold ==
    ASSUME RoundInv, IllFound, todo = <<>>, NEW s \in Priorities, Ill(s)
    PROVE  /\ Sells # {} /\ ~BuyOutranksSell
           /\ SellsIll(SellTrade(BestSell))
  <1>1. Range(todo) = {}
    BY DEF Range
  <1>2. PICK i \in DOMAIN found : StopsOut(found[i], s, view.held[s], price[s])
    BY <1>1 DEF IllFound
  <1>3. /\ found[i].action = "sell" /\ found[i].override.reason = "stop_loss"
        /\ found[i].qty = view.held[s] /\ found[i].price = price[s]
    BY <1>2 DEF StopsOut
  <1>4. AtLeastMin(found[i].qty, found[i].price)
    BY <1>3 DEF Ill, Stopped, Exitable
  <1>5. i \in Sells
    BY <1>3, <1>4 DEF Sells
  <1>6. PICK best \in Sells :
           BestSell = found[best] /\ \A j \in Sells : ~SellBefore(found[j], BestSell)
    BY <1>5, ChoicesTyped
  <1>7. best \in DOMAIN found /\ BestSell \in CandidateType /\ found[i] \in CandidateType
    BY <1>6, ChoicesTyped
  <1>8. BestSell.override.reason = "stop_loss"
    <2>1. ~(Priority(found[i]) > Priority(BestSell))
      BY <1>5, <1>6 DEF SellBefore
    <2>2. Priority(found[i]) = 300
      BY <1>3 DEF Priority
    <2>3. Priority(BestSell) = 300
      BY <1>7, <2>1, <2>2, ScoreNat
    <2>4. BestSell.override.reason \in {"none", "stop_loss", "take_profit_trailing_stop"}
      BY <1>7 DEF CandidateType, Override
    <2>5. QED
      BY <2>3, <2>4 DEF Priority
  <1> DEFINE x == BestSell.symbol
  <1>9. Ill(x) /\ StopsOut(BestSell, x, view.held[x], price[x])
    BY <1>6, <1>7, <1>8 DEF IllFound
  <1>10. SellQty(BestSell) = view.held[x]
    BY <1>7, <1>9, SellQtyTyped DEF StopsOut
  <1>11. /\ SellTrade(BestSell).side = "sell" /\ SellTrade(BestSell).symbol = x
         /\ SellTrade(BestSell).qty = view.held[x]
    BY <1>10 DEF SellTrade
  <1>12. QED
    BY <1>5, <1>8, <1>9, <1>11 DEF BuyOutranksSell, SellsIll

\* So it is what is tried, and nothing is left to be tried.
LEMMA TryStops ==
    ASSUME RoundInv, StopKept, DecideSell \/ DecideBuyOverSell \/ DecideBuy \/ NextBuy
    PROVE  StopKept'
  <1>1. phase \in {"decide", "preview"} /\ todo = <<>>
    BY Tries DEF RoundInv, RunKept
  <1>2. IllFound /\ IllTried
    BY <1>1 DEF StopKept
  <1>3. PICK t, fallbacks : Try(t, fallbacks)
    BY Tries
  <1>4. /\ trade' = t /\ rest' = fallbacks /\ phase' = "preview"
        /\ UNCHANGED <<held, avg, price, scheduler, view, todo, found>>
    BY <1>3 DEF Try
  <1>5. /\ Priorities' = Priorities /\ \A s : Ill(s)' <=> Ill(s)
        /\ IllFound' /\ Unread'
    BY <1>2, <1>4 DEF IllFound, Priorities, Ill, Unread
  <1>6. ASSUME NEW s \in Priorities, Ill(s)
        PROVE  SellsIll(trade') /\ rest' = {}
    <2>1. Sells # {} /\ ~BuyOutranksSell /\ SellsIll(SellTrade(BestSell))
      BY <1>1, <1>2, <1>6, IllIsSold
    <2>2. phase = "preview" => rest = {}
      BY <1>2, <1>6 DEF IllTried
    <2>3. Try(SellTrade(BestSell), {})
      BY <2>1, <2>2, Tries
    <2>4. trade' = SellTrade(BestSell) /\ rest' = {}
      BY <2>3 DEF Try
    <2>5. QED
      BY <2>1, <2>4
  <1>7. IllTried'
    BY <1>4, <1>5, <1>6 DEF IllTried, SellsIll, Ill
  <1>8. QED
    BY <1>4, <1>5, <1>7 DEF StopKept

\* The steps that are left: they end the run, or change nothing of all this.
LEMMA OtherSteps ==
    ASSUME RoundInv, PreviewAllowed \/ Create \/ DecideNothing \/ PreviewBlocked \/ RunFails
                       \/ Restart \/ MarketMoves \/ UNCHANGED vars
    PROVE  \/ phase' = "rest" /\ (found' = <<>> \/ (phase = "rest" /\ found' = found))
           \/ /\ phase' = phase \/ (phase = "preview" /\ phase' = "create")
              /\ UNCHANGED <<held, avg, price, scheduler, view, todo, asset, found, rest, trade>>
  <1>1. CASE PreviewAllowed
    BY <1>1 DEF PreviewAllowed
  <1>2. CASE Create \/ DecideNothing \/ PreviewBlocked \/ RunFails \/ Restart
    BY <1>2 DEF Create, DecideNothing, PreviewBlocked, RunFails, Restart, EndRun
  <1>3. CASE MarketMoves
    BY <1>3 DEF MarketMoves
  <1>4. CASE UNCHANGED vars
    BY <1>4 DEF vars
  <1>5. QED
    BY <1>1, <1>2, <1>3, <1>4

\* They keep it.
LEMMA OtherStops ==
    ASSUME RoundInv, StopKept,
           PreviewAllowed \/ Create \/ DecideNothing \/ PreviewBlocked \/ RunFails
             \/ Restart \/ MarketMoves \/ UNCHANGED vars
    PROVE  StopKept'
  <1>1. CASE phase' = "rest" /\ (found' = <<>> \/ (phase = "rest" /\ found' = found))
    <2>1. found' = <<>>
      BY <1>1 DEF StopKept
    <2>2. QED
      BY <1>1, <2>1 DEF StopKept, Unread, IllTried
  <1>2. CASE /\ phase' = phase \/ (phase = "preview" /\ phase' = "create")
             /\ UNCHANGED <<held, avg, price, scheduler, view, todo, asset, found, rest, trade>>
    <2>1. /\ Priorities' = Priorities /\ \A s : Ill(s)' <=> Ill(s)
          /\ SellsIll(trade)' <=> SellsIll(trade)
      BY <1>2 DEF Priorities, Ill, SellsIll
    <2>2. IllFound' <=> IllFound
      BY <1>2, <2>1 DEF IllFound
    <2>3. Unread'
      BY <1>2 DEF StopKept, Unread
    <2>4. IllTried'
      BY <1>2, <2>1 DEF StopKept, IllTried
    <2>5. QED
      BY <1>2, <2>2, <2>3, <2>4 DEF StopKept
  <1>3. QED
    BY <1>1, <1>2, OtherSteps

\* Every step keeps it.
LEMMA StopNext ==
    ASSUME RoundInv, StopKept, [RoundNext]_vars
    PROVE  StopKept'
  <1>1. CASE StartConfigured \/ StartSelected \/ StartFallback
    BY <1>1, StartStops
  <1>2. CASE FetchAsset
    BY <1>2, FetchStops
  <1>3. CASE \E side \in {"buy", "sell"}, qty \in CycleQty : CycleTrade(side, qty)
    BY <1>3, CycleStops
  <1>4. CASE \E opinion \in Opinion : Collect(opinion)
    BY <1>4, CollectStops
  <1>5. CASE DecideSell \/ DecideBuyOverSell \/ DecideBuy \/ NextBuy
    BY <1>5, TryStops
  <1>6. CASE PreviewAllowed \/ Create \/ DecideNothing \/ PreviewBlocked \/ RunFails
               \/ Restart \/ MarketMoves \/ UNCHANGED vars
    BY <1>6, OtherStops
  <1>7. QED
    BY <1>1, <1>2, <1>3, <1>4, <1>5, <1>6, RoundSteps

\* A position at its stop-loss is sold, and whole, before a run does anything
\* else: whatever its strategies say, and whatever else could be traded.
THEOREM RoundStopLossFirst == RoundSpec => []StopLossFirst
  <1>1. RoundInit => StopKept
    BY DEF RoundInit, AtRest, StopKept, Unread, IllTried
  <1>2. RoundInv /\ StopKept /\ [RoundNext]_vars => StopKept'
    BY StopNext
  <1>3. ASSUME StopKept PROVE StopLossFirst
    <2> SUFFICES ASSUME phase \in {"preview", "create"}, Undisturbed,
                        NEW s \in Priorities, InLoss(s)
                 PROVE  /\ trade.side = "sell" /\ InLoss(trade.symbol)
                        /\ trade.qty = held[trade.symbol]
      BY DEF StopLossFirst, Priorities
    <2>1. \A x : InLoss(x) <=> Ill(x)
      BY DEF Undisturbed, InLoss, Ill, Stopped
    <2>2. SellsIll(trade)
      BY <1>3, <2>1 DEF StopKept, IllTried
    <2>3. QED
      BY <2>1, <2>2 DEF SellsIll, Undisturbed
  <1>4. QED
    BY <1>1, <1>2, <1>3, RoundInvariant, PTL DEF RoundSpec
=============================================================================
