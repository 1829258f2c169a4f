-------------------------- MODULE OrderingsProofs ---------------------------
(***************************************************************************)
(* Induction, greatest elements, recursive functions and sums over sets:   *)
(* the general lemmas of the other proof modules.                          *)
(***************************************************************************)
EXTENDS Orderings, FiniteSetTheorems, WellFoundedInduction, TLAPS

\* A set of natural numbers has a least one.
LEMMA LeastNat ==
    ASSUME NEW T, T \subseteq Nat, T # {}
    PROVE  \E m \in T : \A n \in T : m <= n
  <1> DEFINE R == OpToRel(<, Nat)
  <1>1. IsWellFoundedOn(R, Nat)
    BY NatLessThanWellFounded
  <1>2. \A m, n \in Nat : m < n => <<m, n>> \in R
    BY DEF OpToRel
  <1> HIDE DEF R
  <1>3. PICK m \in T : \A n \in T : <<n, m>> \notin R
    BY ONLY <1>1, T \subseteq Nat, T # {}, WFMin, Zenon
  <1>4. \A n \in T : m \in Nat /\ n \in Nat /\ ~(n < m)
    BY <1>2, <1>3
  <1>5. QED
    BY <1>4

\* A set of natural numbers that has a bound has a greatest one.
LEMMA GreatestNat ==
    ASSUME NEW T, NEW N \in Nat, T \subseteq 0 .. N, T # {}
    PROVE  \E m \in T : \A n \in T : m >= n
  <1> DEFINE Rest == {N - n : n \in T}
  <1>1. Rest \subseteq Nat /\ Rest # {}
    <2>1. \A n \in T : n \in 0 .. N
      OBVIOUS
    <2>2. \A n \in T : N - n \in Nat
      BY <2>1
    <2>3. QED
      BY <2>2
  <1> HIDE DEF Rest
  <1>2. PICK r \in Rest : \A s \in Rest : r <= s
    BY <1>1, LeastNat
  <1>3. PICK m \in T : r = N - m
    BY DEF Rest
  <1>4. ASSUME NEW n \in T PROVE m >= n
    <2>1. N - n \in Rest
      BY DEF Rest
    <2>2. N - m <= N - n /\ m \in 0 .. N /\ n \in 0 .. N
      BY <1>2, <1>3, <2>1
    <2>3. QED
      BY <2>2
  <1>5. QED
    BY <1>4

\* Induction, for the numbers in a set.
LEMMA NatInductionOnSet ==
    ASSUME NEW S, 0 \in S, \A n \in Nat : n \in S => n + 1 \in S
    PROVE  Nat \subseteq S
  <1> SUFFICES ASSUME Nat \ S # {} PROVE FALSE
    OBVIOUS
  <1>1. PICK m \in Nat \ S : \A n \in Nat \ S : m <= n
    <2>1. Nat \ S \subseteq Nat /\ Nat \ S # {}
      OBVIOUS
    <2>2. QED
      BY ONLY <2>1, LeastNat
  <1>2. m \in Nat /\ m # 0 /\ m \notin S
    BY <1>1
  <1>3. m - 1 \in Nat /\ m - 1 \in S
    BY <1>1, <1>2
  <1>4. (m - 1) + 1 \in S /\ (m - 1) + 1 = m
    BY <1>3, <1>2
  <1>5. QED
    BY <1>4, <1>2

\* A strict order has a minimal element in every finite set.
LEMMA MinimalElement ==
    ASSUME NEW I, IsFiniteSet(I), I # {}, NEW R,
           \A i \in I : <<i, i>> \notin R,
           \A i, j, k \in I : <<i, j>> \in R /\ <<j, k>> \in R => <<i, k>> \in R
    PROVE  \E i \in I : \A j \in I : <<j, i>> \notin R
  <1> DEFINE Below(i) == {j \in I : <<j, i>> \in R}
             Ranks == {Cardinality(Below(i)) : i \in I}
  <1>1. \A i \in I : Below(i) \in SUBSET I
    OBVIOUS
  <1>2. ASSUME NEW i \in I, NEW j \in I, <<j, i>> \in R
        PROVE  Below(j) \in SUBSET Below(i) /\ Below(j) # Below(i)
    <2>1. Below(j) \in SUBSET Below(i)
      BY <1>2
    <2>2. j \in Below(i) /\ j \notin Below(j)
      BY <1>2
    <2>3. QED
      BY <2>1, <2>2
  <1> HIDE DEF Below
  <1>3. \A i \in I : IsFiniteSet(Below(i)) /\ Cardinality(Below(i)) \in Nat
    BY <1>1, FS_Subset, FS_CardinalityType
  <1>4. Ranks \subseteq Nat /\ Ranks # {}
    BY <1>3
  <1>5. PICK r \in Ranks : \A n \in Ranks : r <= n
    <2> HIDE DEF Ranks
    <2> QED BY <1>4, LeastNat
  <1>6. PICK i \in I : r = Cardinality(Below(i))
    BY <1>5
  <1>7. \A j \in I : Cardinality(Below(i)) <= Cardinality(Below(j))
    BY <1>5, <1>6
  <1>8. SUFFICES ASSUME NEW j \in I, <<j, i>> \in R PROVE FALSE
    OBVIOUS
  <1>9. /\ Cardinality(Below(j)) <= Cardinality(Below(i))
        /\ Cardinality(Below(j)) = Cardinality(Below(i)) => Below(i) = Below(j)
    BY <1>2, <1>3, <1>8, FS_Subset
  <1>10. QED
    BY <1>2, <1>3, <1>7, <1>8, <1>9

-----------------------------------------------------------------------------
(***************************************************************************)
(* Recursive functions on an initial segment.  A definition                *)
(* f[n \in 0 .. N] == ... f[n - 1] ... chooses a function that satisfies   *)
(* its equation: that there is one, and its type, are proved here.         *)
(***************************************************************************)

\* The values of f start at init and go from one to the next by a turn.
GoesBy(f, N, T, init, Turn) ==
    /\ f \in [0 .. N -> T]
    /\ f[0] = init
    /\ \A n \in 1 .. N : f[n] = Turn[n][f[n - 1]]

\* There is such a function.
LEMMA FoldExists ==
    ASSUME NEW N \in Nat, NEW T, NEW init \in T, NEW Turn \in [1 .. N -> [T -> T]]
    PROVE  \E f : GoesBy(f, N, T, init, Turn)
  <1> DEFINE IsFold(f, m) == /\ f \in [0 .. m -> T]
                             /\ f[0] = init
                             /\ \A n \in 1 .. m : f[n] = Turn[n][f[n - 1]]
             Folded == {m \in Nat : m <= N => \E f : IsFold(f, m)}
  <1>1. IsFold([n \in 0 .. 0 |-> init], 0)
    OBVIOUS
  <1>2. ASSUME NEW m \in Nat, m + 1 <= N, NEW f, IsFold(f, m)
        PROVE  \E longer : IsFold(longer, m + 1)
    <2> DEFINE last == Turn[m + 1][f[m]]
               longer == [n \in 0 .. m + 1 |-> IF n = m + 1 THEN last ELSE f[n]]
    <2>1. f[m] \in T /\ last \in T
      BY <1>2
    <2>2. longer \in [0 .. m + 1 -> T]
      BY <1>2, <2>1
    <2>3. longer[0] = init
      BY <1>2
    <2>4. ASSUME NEW n \in 1 .. m + 1 PROVE longer[n] = Turn[n][longer[n - 1]]
      <3>1. n = m + 1 => longer[n] = last /\ longer[n - 1] = f[m]
        OBVIOUS
      <3>2. n # m + 1 => n \in 1 .. m /\ longer[n] = f[n] /\ longer[n - 1] = f[n - 1]
        OBVIOUS
      <3>3. QED
        BY <1>2, <3>1, <3>2
    <2> HIDE DEF longer
    <2>5. IsFold(longer, m + 1)
      BY <2>2, <2>3, <2>4
    <2>6. QED
      BY <2>5
  <1> HIDE DEF IsFold
  <1>3. 0 \in Folded /\ \A m \in Nat : m \in Folded => m + 1 \in Folded
    BY <1>1, <1>2
  <1>4. Nat \subseteq Folded
    <2> HIDE DEF Folded
    <2> QED BY <1>3, NatInductionOnSet
  <1>5. PICK f : IsFold(f, N)
    BY <1>4
  <1>6. QED
    BY <1>5 DEF IsFold, GoesBy

\* The function of the partial sums of a sequence of amounts exists.
LEMMA SumExists ==
    ASSUME NEW N \in Nat, NEW V \in [1 .. N -> Nat]
    PROVE  \E sum : sum = [n \in 0 .. N |-> IF n = 0 THEN 0 ELSE sum[n - 1] + V[n]]
  <1> DEFINE Plus == [n \in 1 .. N |-> [a \in Nat |-> a + V[n]]]
  <1>1. Plus \in [1 .. N -> [Nat -> Nat]]
    OBVIOUS
  <1>2. \A a \in Nat, n \in 1 .. N : Plus[n][a] = a + V[n]
    OBVIOUS
  <1> HIDE DEF Plus
  <1>3. PICK f : GoesBy(f, N, Nat, 0, Plus)
    BY <1>1, FoldExists
  <1>4. \A n \in 1 .. N : f[n] = f[n - 1] + V[n]
    <2> SUFFICES ASSUME NEW n \in 1 .. N PROVE f[n] = f[n - 1] + V[n]
      OBVIOUS
    <2>1. n - 1 \in 0 .. N
      OBVIOUS
    <2>2. f[n - 1] \in Nat /\ f[n] = Plus[n][f[n - 1]]
      BY <1>3, <2>1 DEF GoesBy
    <2>3. QED
      BY <1>2, <2>2
  <1>5. f = [n \in 0 .. N |-> IF n = 0 THEN 0 ELSE f[n - 1] + V[n]]
    BY <1>3, <1>4 DEF GoesBy
  <1>6. QED
    BY <1>5

\* The sum of amounts is an amount, and so is each partial sum.
LEMMA SumNat ==
    ASSUME NEW N \in Nat, NEW V \in [1 .. N -> Nat], NEW sum,
           sum[0] = 0, \A n \in 1 .. N : sum[n] = sum[n - 1] + V[n]
    PROVE  \A n \in 0 .. N : sum[n] \in Nat
  <1> DEFINE Good == {m \in Nat : m <= N => sum[m] \in Nat}
  <1>1. 0 \in Good
    OBVIOUS
  <1>2. ASSUME NEW m \in Nat, m \in Good PROVE m + 1 \in Good
    <2> SUFFICES ASSUME m + 1 <= N PROVE sum[m + 1] \in Nat
      OBVIOUS
    <2>1. sum[m + 1] = sum[m] + V[m + 1]
      OBVIOUS
    <2>2. sum[m] \in Nat /\ V[m + 1] \in Nat
      BY <1>2
    <2>3. QED
      BY <2>1, <2>2
  <1>3. Nat \subseteq Good
    <2> HIDE DEF Good
    <2> QED BY <1>1, <1>2, NatInductionOnSet
  <1>4. QED
    BY <1>3
-----------------------------------------------------------------------------
(***************************************************************************)
(* Finite sets: their greatest element, and sums over them.  A fold over a *)
(* set takes one chosen element after the other.                           *)
(***************************************************************************)

\* A finite set of natural numbers has a greatest one.
LEMMA GreatestOfFinite ==
    ASSUME NEW T, T \subseteq Nat, T # {}, IsFiniteSet(T)
    PROVE  \E m \in T : \A n \in T : m >= n
  <1> DEFINE R == {p \in T \X T : p[1] > p[2]}
  <1>1. \A i, j \in T : <<i, j>> \in R <=> i > j
    OBVIOUS
  <1> HIDE DEF R
  <1>2. /\ \A i \in T : <<i, i>> \notin R
        /\ \A i, j, k \in T : <<i, j>> \in R /\ <<j, k>> \in R => <<i, k>> \in R
    <2>1. \A i, j, k \in T : ~(i > i) /\ (i > j /\ j > k => i > k)
      OBVIOUS
    <2>2. QED
      BY <1>1, <2>1
  <1>3. PICK m \in T : \A n \in T : <<n, m>> \notin R
    BY <1>2, MinimalElement
  <1>4. \A n \in T : m \in Nat /\ n \in Nat /\ ~(n > m)
    BY <1>1, <1>3
  <1>5. QED
    BY <1>4

\* The element that a fold takes first.
Chosen(T) == CHOOSE x \in T : TRUE

\* What holds of the empty set, and of a set when it holds of the rest, holds
\* of every subset of a finite set.
LEMMA SubsetInduction ==
    ASSUME NEW S, IsFiniteSet(S), NEW Good, {} \in Good,
           \A T \in SUBSET S : T # {} /\ T \ {Chosen(T)} \in Good => T \in Good
    PROVE  SUBSET S \subseteq Good
  <1> DEFINE Sizes == {n \in Nat : \A T \in SUBSET S : Cardinality(T) = n => T \in Good}
  <1>1. \A T \in SUBSET S : IsFiniteSet(T) /\ Cardinality(T) \in Nat
    BY FS_Subset, FS_CardinalityType
  <1>2. 0 \in Sizes
    <2>1. \A T \in SUBSET S : Cardinality(T) = 0 => T = {}
      BY <1>1, FS_EmptySet
    <2>2. QED
      BY <2>1
  <1>3. ASSUME NEW n \in Nat, n \in Sizes PROVE n + 1 \in Sizes
    <2> SUFFICES ASSUME NEW T \in SUBSET S, Cardinality(T) = n + 1 PROVE T \in Good
      OBVIOUS
    <2>1. T # {}
      <3>1. Cardinality({}) = 0 /\ n + 1 # 0
        BY FS_EmptySet
      <3>2. QED
        BY <3>1
    <2>2. Chosen(T) \in T
      BY <2>1 DEF Chosen
    <2>3. Cardinality(T \ {Chosen(T)}) = n
      BY <1>1, <2>2, FS_RemoveElement
    <2>4. T \ {Chosen(T)} \in Good
      BY <1>3, <2>3
    <2>5. QED
      BY <2>1, <2>4
  <1>4. Nat \subseteq Sizes
    <2> HIDE DEF Sizes
    <2> QED BY <1>2, <1>3, NatInductionOnSet
  <1>5. QED
    BY <1>1, <1>4

\* One round of adding up the weights of the subsets of S.
AddOne(g, w, S) ==
    [T \in SUBSET S |-> IF T = {} THEN 0 ELSE w[Chosen(T)] + g[T \ {Chosen(T)}]]

\* f gives every subset of S the sum of its weights.
IsSum(f, w, S) == f = AddOne(f, w, S)

\* A sum satisfies its equation set by set.
LEMMA SumEquations ==
    ASSUME NEW S, NEW w, NEW f, NEW g, f = AddOne(g, w, S)
    PROVE  /\ f[{}] = 0
           /\ \A T \in SUBSET S :
                T # {} => /\ Chosen(T) \in T /\ T \ {Chosen(T)} \in SUBSET S
                          /\ f[T] = w[Chosen(T)] + g[T \ {Chosen(T)}]
  <1>1. \A T \in SUBSET S : T # {} => Chosen(T) \in T /\ T \ {Chosen(T)} \in SUBSET S
    BY DEF Chosen
  <1>2. {} \in SUBSET S
    OBVIOUS
  <1>3. f = [T \in SUBSET S |-> IF T = {} THEN 0 ELSE w[Chosen(T)] + g[T \ {Chosen(T)}]]
    BY DEF AddOne
  <1>4. QED
    BY <1>1, <1>2, <1>3

\* There is such a function.
LEMMA SetSumExists ==
    ASSUME NEW S, IsFiniteSet(S), NEW w \in [S -> Int]
    PROVE  \E f : IsSum(f, w, S)
  <1> DEFINE Sums == [SUBSET S -> Int]
             N == Cardinality(S) + 1
             zero == [T \in SUBSET S |-> 0]
             Turn == [n \in 1 .. N |-> [g \in Sums |-> AddOne(g, w, S)]]
  <1>1. Cardinality(S) \in Nat /\ N \in Nat /\ N >= 1 /\ N = Cardinality(S) + 1
    BY FS_CardinalityType
  <1>2. \A g \in Sums : AddOne(g, w, S) \in Sums
    <2> SUFFICES ASSUME NEW g \in Sums PROVE AddOne(g, w, S) \in Sums
      OBVIOUS
    <2>1. \A T \in SUBSET S : T # {} => w[Chosen(T)] \in Int /\ g[T \ {Chosen(T)}] \in Int
      <3>1. \A T \in SUBSET S : T # {} => Chosen(T) \in S /\ T \ {Chosen(T)} \in SUBSET S
        BY DEF Chosen
      <3>2. QED
        BY <3>1
    <2>2. \A T \in SUBSET S :
            (IF T = {} THEN 0 ELSE w[Chosen(T)] + g[T \ {Chosen(T)}]) \in Int
      BY <2>1
    <2>3. QED
      BY <2>2 DEF AddOne
  <1>3. Turn \in [1 .. N -> [Sums -> Sums]]
    BY <1>2
  <1>4. zero \in Sums
    OBVIOUS
  <1>5. \A n \in 1 .. N, g \in Sums : Turn[n][g] = AddOne(g, w, S)
    OBVIOUS
  <1> HIDE DEF Turn, zero, N, Sums
  <1>6. PICK f : GoesBy(f, N, Sums, zero, Turn)
    BY <1>1, <1>3, <1>4, FoldExists
  <1>7. \A n \in Nat : n < N => f[n] \in Sums /\ f[n + 1] = AddOne(f[n], w, S)
    <2> SUFFICES ASSUME NEW n \in Nat, n < N
                 PROVE  f[n] \in Sums /\ f[n + 1] = AddOne(f[n], w, S)
      OBVIOUS
    <2>1. n \in 0 .. N /\ n + 1 \in 1 .. N /\ (n + 1) - 1 = n
      BY <1>1
    <2>2. f[n] \in Sums /\ f[n + 1] = Turn[n + 1][f[n]]
      BY <1>6, <2>1 DEF GoesBy
    <2>3. QED
      BY <1>5, <2>1, <2>2
  \* After n rounds the sums of sets of up to n elements no longer change.
  <1> DEFINE Settled(n) == \A T \in SUBSET S : Cardinality(T) <= n => f[n + 1][T] = f[n][T]
             Good == {n \in Nat : n <= Cardinality(S) => Settled(n)}
  <1>8. \A T \in SUBSET S : IsFiniteSet(T) /\ Cardinality(T) \in 0 .. Cardinality(S)
    BY <1>1, FS_Subset, FS_CardinalityType
  <1>9. Settled(0)
    <2>1. \A T \in SUBSET S : Cardinality(T) <= 0 => T = {}
      BY <1>8, FS_EmptySet
    <2>2. f[0] = zero /\ f[0 + 1] = AddOne(f[0], w, S)
      BY <1>1, <1>6, <1>7 DEF GoesBy
    <2>3. zero[{}] = 0
      BY DEF zero
    <2>4. f[0 + 1][{}] = 0
      BY <2>2, SumEquations
    <2>5. QED
      BY <2>1, <2>2, <2>3, <2>4
  <1>10. ASSUME NEW n \in Nat, n + 1 <= Cardinality(S), Settled(n)
         PROVE  Settled(n + 1)
    <2> SUFFICES ASSUME NEW T \in SUBSET S, Cardinality(T) <= n + 1
                 PROVE  f[n + 2][T] = f[n + 1][T]
      OBVIOUS
    <2>1. f[n + 1] = AddOne(f[n], w, S) /\ f[n + 2] = AddOne(f[n + 1], w, S)
      <3>1. n < N /\ n + 1 < N /\ (n + 1) + 1 = n + 2 /\ n + 1 \in Nat
        BY <1>1, <1>10
      <3>2. f[(n + 1) + 1] = AddOne(f[n + 1], w, S) /\ f[n + 1] = AddOne(f[n], w, S)
        BY <1>7, <3>1
      <3>3. QED
        BY <3>1, <3>2
    <2>2. CASE T = {}
      BY <2>1, <2>2, SumEquations
    <2>3. CASE T # {}
      <3>1. /\ Chosen(T) \in T /\ T \ {Chosen(T)} \in SUBSET S
            /\ f[n + 2][T] = w[Chosen(T)] + f[n + 1][T \ {Chosen(T)}]
            /\ f[n + 1][T] = w[Chosen(T)] + f[n][T \ {Chosen(T)}]
        BY <2>1, <2>3, SumEquations
      <3>2. Cardinality(T \ {Chosen(T)}) <= n
        <4>1. Cardinality(T \ {Chosen(T)}) = Cardinality(T) - 1
          BY <1>8, <3>1, FS_RemoveElement
        <4>2. QED
          BY <1>8, <4>1
      <3>3. QED
        BY <1>10, <3>1, <3>2
    <2>4. QED
      BY <2>2, <2>3
  <1>11. Nat \subseteq Good
    <2>1. 0 \in Good
      BY <1>9
    <2>2. ASSUME NEW n \in Nat, n \in Good PROVE n + 1 \in Good
      <3>1. n + 1 <= Cardinality(S) => n <= Cardinality(S)
        BY <1>1
      <3> HIDE DEF Settled
      <3>2. n + 1 <= Cardinality(S) => Settled(n + 1)
        BY <1>10, <2>2, <3>1
      <3>3. QED
        BY <3>2
    <2> HIDE DEF Good
    <2>3. QED
      BY <2>1, <2>2, NatInductionOnSet
  <1>12. \A T \in SUBSET S : f[N][T] = f[N - 1][T]
    <2>1. Cardinality(S) \in Good /\ N - 1 = Cardinality(S) /\ N = Cardinality(S) + 1
      BY <1>1, <1>11
    <2>2. QED
      BY <1>8, <2>1
  <1>13. f[N] = f[N - 1]
    <2>1. N \in 0 .. N /\ N - 1 \in 0 .. N
      BY <1>1
    <2>2. f[N] \in [SUBSET S -> Int] /\ f[N - 1] \in [SUBSET S -> Int]
      BY <1>6, <2>1 DEF GoesBy, Sums
    <2>3. QED
      BY <1>12, <2>2
  <1>14. f[N] = AddOne(f[N - 1], w, S)
    <2>1. N - 1 \in Nat /\ N - 1 < N /\ (N - 1) + 1 = N
      BY <1>1
    <2>2. QED
      BY <1>7, <2>1
  <1>15. QED
    BY <1>13, <1>14 DEF IsSum

\* A sum is the weight of the chosen element and the sum of the rest.
LEMMA SumOfChosen ==
    ASSUME NEW S, NEW w, NEW f, IsSum(f, w, S)
    PROVE  /\ f[{}] = 0
           /\ \A T \in SUBSET S :
                T # {} => /\ Chosen(T) \in T /\ T \ {Chosen(T)} \in SUBSET S
                          /\ f[T] = w[Chosen(T)] + f[T \ {Chosen(T)}]
  <1>1. f = AddOne(f, w, S)
    BY DEF IsSum
  <1>2. QED
    BY ONLY <1>1, SumEquations

\* Changing the weight of one element changes a sum by as much.
LEMMA SetSumChange ==
    ASSUME NEW S, IsFiniteSet(S), NEW w \in [S -> Int], NEW v \in [S -> Int], NEW s,
           \A x \in S \ {s} : v[x] = w[x],
           NEW f, IsSum(f, w, S), NEW g, IsSum(g, v, S)
    PROVE  /\ f[S] \in Int /\ g[S] \in Int
           /\ s \in S => g[S] = f[S] + (v[s] - w[s])
           /\ s \notin S => g[S] = f[S]
  <1> DEFINE Good == {T \in SUBSET S :
                        /\ f[T] \in Int /\ g[T] \in Int
                        /\ s \in T => g[T] = f[T] + (v[s] - w[s])
                        /\ s \notin T => g[T] = f[T]}
  <1>1. {} \in Good
    BY SumOfChosen
  <1>2. ASSUME NEW T \in SUBSET S, T # {}, T \ {Chosen(T)} \in Good PROVE T \in Good
    <2> DEFINE c == Chosen(T)
               R == T \ {c}
    <2>1. /\ c \in T /\ R \in SUBSET S
          /\ f[T] = w[c] + f[R] /\ g[T] = v[c] + g[R]
      BY <1>2, SumOfChosen
    <2>2. c \in S /\ w[c] \in Int /\ v[c] \in Int
      BY <2>1
    <2>3. /\ f[R] \in Int /\ g[R] \in Int
          /\ s \in R => g[R] = f[R] + (v[s] - w[s])
          /\ s \notin R => g[R] = f[R]
      BY <1>2
    <2>4. s = c => s \in T /\ s \notin R
      BY <2>1
    <2>5. s # c => (s \in T <=> s \in R) /\ v[c] = w[c]
      BY <2>2
    <2> HIDE DEF c, R
    <2>6. f[T] \in Int /\ g[T] \in Int
      BY <2>1, <2>2, <2>3
    <2>7. s \in T => g[T] = f[T] + (v[s] - w[s])
      <3>1. CASE s = c
        BY <2>1, <2>2, <2>3, <2>4, <3>1
      <3>2. CASE s # c
        <4> SUFFICES ASSUME s \in T PROVE g[T] = f[T] + (v[s] - w[s])
          OBVIOUS
        <4>1. v[s] \in Int /\ w[s] \in Int
          OBVIOUS
        <4>2. QED
          BY <2>1, <2>2, <2>3, <2>5, <3>2, <4>1
      <3>3. QED
        BY <3>1, <3>2
    <2>8. s \notin T => g[T] = f[T]
      BY <2>1, <2>2, <2>3, <2>4, <2>5
    <2>9. QED
      BY <2>6, <2>7, <2>8
  <1> HIDE DEF Good
  <1>3. SUBSET S \subseteq Good
    BY <1>1, <1>2, SubsetInduction
  <1>4. S \in Good
    BY <1>3
  <1>5. QED
    BY <1>4 DEF Good

\* The sum of nothing but zeros.
LEMMA SetSumZero ==
    ASSUME NEW S, IsFiniteSet(S), NEW w, \A x \in S : w[x] = 0, NEW f, IsSum(f, w, S)
    PROVE  f[S] = 0
  <1> DEFINE Good == {T \in SUBSET S : f[T] = 0}
  <1>1. {} \in Good
    BY SumOfChosen
  <1>2. ASSUME NEW T \in SUBSET S, T # {}, T \ {Chosen(T)} \in Good PROVE T \in Good
    BY <1>2, SumOfChosen
  <1> HIDE DEF Good
  <1>3. SUBSET S \subseteq Good
    BY <1>1, <1>2, SubsetInduction
  <1>4. S \in Good
    BY <1>3
  <1>5. QED
    BY <1>4 DEF Good
=============================================================================
