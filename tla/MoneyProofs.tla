----------------------------- MODULE MoneyProofs -----------------------------
(***************************************************************************)
(* What rounding keeps: the arithmetic lemmas of the other proof modules.  *)
(***************************************************************************)
EXTENDS Money, OrderingsProofs

\* The quotient is the largest multiple that does not exceed the dividend.
LEMMA DivBounds ==
    ASSUME NEW a \in Int, NEW b \in Nat \ {0}
    PROVE  /\ a \div b \in Int
           /\ b * (a \div b) <= a
           /\ a < b * (a \div b) + b
  OBVIOUS

\* It is not negative when the dividend is not.
LEMMA DivNat ==
    ASSUME NEW a \in Nat, NEW b \in Nat \ {0}
    PROVE  a \div b \in Nat
  OBVIOUS

\* It does not decrease with the dividend.
LEMMA DivMonotone ==
    ASSUME NEW a \in Int, NEW c \in Int, a <= c, NEW b \in Nat \ {0}
    PROVE  a \div b <= c \div b
  <1> DEFINE p == a \div b
             q == c \div b
  <1>1. p \in Int /\ q \in Int /\ b * p <= a /\ c < b * q + b
    BY DivBounds
  <1> HIDE DEF p, q
  <1>2. SUFFICES ASSUME p >= q + 1 PROVE FALSE
    BY <1>1
  <1>3. b * p >= b * (q + 1)
    BY <1>1, <1>2
  <1>4. b * (q + 1) = b * q + b
    BY <1>1
  <1>5. QED
    BY <1>1, <1>3, <1>4
\* Products of natural numbers keep an order, and give it back.
LEMMA ProductMonotone ==
    ASSUME NEW a \in Int, NEW b \in Int, a <= b, NEW k \in Nat
    PROVE  a * k <= b * k
  OBVIOUS

\* A positive factor can be cancelled.
LEMMA ProductCancel ==
    ASSUME NEW a \in Int, NEW b \in Int, NEW k \in Nat \ {0}, a * k <= b * k
    PROVE  a <= b
  OBVIOUS
-----------------------------------------------------------------------------
(***************************************************************************)
(* Rounding to the nearest.                                                *)
(***************************************************************************)

\* round() is half a divisor off at most.
LEMMA RoundDivBounds ==
    ASSUME NEW n \in Int, NEW d \in Nat \ {0}
    PROVE  /\ RoundDiv(n, d) \in Int
           /\ 2 * (d * RoundDiv(n, d)) <= 2 * n + d
           /\ 2 * n < 2 * (d * RoundDiv(n, d)) + d
  <1> DEFINE r == (2 * n + d) \div (2 * d)
  <1>0. 2 * n + d \in Int /\ 2 * d \in Nat \ {0}
    OBVIOUS
  <1>1. /\ r \in Int
        /\ (2 * d) * r <= 2 * n + d
        /\ 2 * n + d < (2 * d) * r + 2 * d
    BY <1>0, DivBounds
  <1> HIDE DEF r
  <1>2. (2 * d) * r = 2 * (d * r)
    BY <1>1
  <1>3. r = RoundDiv(n, d)
    BY DEF RoundDiv, r
  <1>4. d * r \in Int
    BY <1>1
  <1>5. QED
    BY <1>1, <1>2, <1>3, <1>4

\* What is not negative stays so.
LEMMA RoundDivNat ==
    ASSUME NEW n \in Nat, NEW d \in Nat \ {0}
    PROVE  RoundDiv(n, d) \in Nat
  BY DEF RoundDiv

\* A larger number is not rounded to a smaller one.
LEMMA RoundDivMonotone ==
    ASSUME NEW n \in Int, NEW m \in Int, n <= m, NEW d \in Nat \ {0}
    PROVE  RoundDiv(n, d) <= RoundDiv(m, d)
  <1>1. 2 * n + d <= 2 * m + d /\ 2 * d \in Nat \ {0}
    OBVIOUS
  <1>2. QED
    BY <1>1, DivMonotone DEF RoundDiv

\* A multiple is not rounded.
LEMMA RoundDivExact ==
    ASSUME NEW k \in Int, NEW d \in Nat \ {0}
    PROVE  RoundDiv(k * d, d) = k
  <1> DEFINE r == RoundDiv(k * d, d)
  <1>1. /\ r \in Int
        /\ 2 * (d * r) <= 2 * (k * d) + d
        /\ 2 * (k * d) < 2 * (d * r) + d
    BY RoundDivBounds
  <1> HIDE DEF r
  <1>2. CASE r >= k + 1
    <2>1. d * r >= d * (k + 1) /\ d * (k + 1) = k * d + d
      BY <1>1, <1>2
    <2>2. QED
      BY <1>1, <2>1
  <1>3. CASE r + 1 <= k
    <2>1. d * k >= d * (r + 1) /\ d * (r + 1) = d * r + d /\ d * k = k * d
      BY <1>1, <1>3
    <2>2. QED
      BY <1>1, <2>1
  <1>4. r = k
    BY <1>1, <1>2, <1>3
  <1>5. QED
    BY <1>4 DEF r
-----------------------------------------------------------------------------
(***************************************************************************)
(* Shares and amounts.                                                     *)
(***************************************************************************)

\* A share of an amount is an amount.
LEMMA ShareNat ==
    ASSUME NEW n \in Nat, NEW bps \in Nat
    PROVE  Share(n, bps) \in Nat
  <1>1. n * bps \in Nat
    OBVIOUS
  <1>2. QED
    BY <1>1, RoundDivNat DEF Share, BasisPoints

\* The whole of an amount is that amount.
LEMMA ShareWhole ==
    ASSUME NEW n \in Nat
    PROVE  Share(n, BasisPoints) = n
  BY RoundDivExact DEF Share, BasisPoints

\* A larger share is not a smaller amount.
LEMMA ShareMonotone ==
    ASSUME NEW n \in Nat, NEW bps \in Nat, NEW more \in Nat, bps <= more
    PROVE  Share(n, bps) <= Share(n, more)
  <1>1. n * bps \in Int /\ n * more \in Int
    OBVIOUS
  <1>2. BasisPoints \in Nat \ {0}
    BY DEF BasisPoints
  <1>3. QED
    BY <1>1, <1>2, RoundDivMonotone DEF Share

\* A share of at most the whole does not exceed it, and one of at least the
\* whole is not below it.
LEMMA ShareWithin ==
    ASSUME NEW n \in Nat, NEW bps \in Nat
    PROVE  /\ bps <= BasisPoints => Share(n, bps) <= n
           /\ bps >= BasisPoints => Share(n, bps) >= n
  BY ShareWhole, ShareMonotone DEF BasisPoints

\* The constants, one by one.
LEMMA MoneyConstants ==
    /\ Scale \in Nat \ {0} /\ MinNotional \in Nat \ {0} /\ BasisPoints = 10000
    /\ SlipBps \in Nat /\ SlipBps < BasisPoints /\ BasisPoints - SlipBps \in Nat \ {0}
    /\ FeeBps \in Nat /\ FeeBps <= BasisPoints
  BY MoneyAssumption DEF BasisPoints

\* What a quantity is worth is an amount.
LEMMA AmountNat ==
    ASSUME NEW qty \in Nat, NEW price \in Nat
    PROVE  Cost(qty, price) \in Nat /\ Amount(qty, price) \in Nat
  <1>1. Cost(qty, price) \in Nat
    BY DEF Cost
  <1>2. QED
    BY <1>1, RoundDivNat, MoneyConstants DEF Amount

\* An amount is half of the smallest amount off its cost at most.
LEMMA AmountBounds ==
    ASSUME NEW qty \in Nat, NEW price \in Nat
    PROVE  /\ 2 * (Amount(qty, price) * Scale) <= 2 * Cost(qty, price) + Scale
           /\ 2 * Cost(qty, price) < 2 * (Amount(qty, price) * Scale) + Scale
  <1>1. Cost(qty, price) \in Nat /\ Scale \in Nat \ {0} /\ Amount(qty, price) \in Nat
    BY AmountNat, MoneyConstants
  <1> DEFINE c == Cost(qty, price)
             r == RoundDiv(c, Scale)
  <1>2. r = Amount(qty, price)
    BY DEF Amount
  <1>3. /\ r \in Int
        /\ 2 * (Scale * r) <= 2 * c + Scale
        /\ 2 * c < 2 * (Scale * r) + Scale
    BY <1>1, RoundDivBounds
  <1> HIDE DEF c, r
  <1>4. Scale * r = r * Scale
    BY <1>1, <1>3
  <1>5. QED
    BY <1>2, <1>3, <1>4 DEF c

\* Nothing is worth nothing.
LEMMA AmountOfNothing ==
    ASSUME NEW price \in Nat
    PROVE  Amount(0, price) = 0
  <1>1. Cost(0, price) = 0 * Scale /\ Scale \in Nat \ {0}
    BY MoneyConstants DEF Cost
  <1>2. QED
    BY <1>1, RoundDivExact DEF Amount

\* The smaller of two quantities is one of them.
LEMMA SmallerNat ==
    ASSUME NEW a \in Nat, NEW b \in Nat
    PROVE  /\ Smaller(a, b) \in Nat /\ Smaller(a, b) <= a /\ Smaller(a, b) <= b
           /\ a <= b => Smaller(a, b) = a
           /\ b <= a => Smaller(a, b) = b
  BY DEF Smaller
=============================================================================
