------------------------------ MODULE Induction ------------------------------
(***************************************************************************)
(* Induction over numbers, finite sets and folds.                          *)
(*                                                                         *)
(* What holds of the base of a fold over a sequence, and is kept by each   *)
(* step, holds of its result.  The step and the claim are operators, so    *)
(* the theorem is used through an instance of this module.  Their first    *)
(* argument holds whatever else they speak of.                             *)
(***************************************************************************)
EXTENDS Integers, FiniteSetTheorems, WellFoundedInduction, TLAPS

CONSTANTS
    Step(_, _, _),   \* context, result so far, next element
    Holds(_, _, _)   \* context, number of elements folded, result so far

(* Induction up to a bound, over a set.                                    *)
LEMMA Upwards ==
  ASSUME NEW S, NEW m \in Nat, 0 \in S, \A i \in 0..(m - 1) : i \in S => i + 1 \in S
  PROVE  \A i \in 0..m : i \in S
<1>. DEFINE R == OpToRel(<, Nat)
            T == {n \in 0..m : n \notin S}
<1>1. IsWellFoundedOn(R, Nat)
  BY NatLessThanWellFounded, Zenon
<1>2. \A j, n \in Nat : j < n => << j, n >> \in R
  BY Zenon DEF OpToRel
<1>. HIDE DEF R
<1>3. SUFFICES ASSUME T # {} PROVE FALSE
  OBVIOUS
<1>4. T \in SUBSET Nat
  OBVIOUS
<1>5. PICK n \in T : \A j \in T : ~(<< j, n >> \in R)
  <2>. HIDE DEF T
  <2>. QED BY <1>1, <1>3, <1>4, WFMin
<1>6. n # 0 /\ n - 1 \in 0..(m - 1) /\ n - 1 + 1 = n
  OBVIOUS
<1>7. n - 1 \in T
  BY <1>6
<1>. QED BY <1>2, <1>5, <1>6, <1>7, n - 1 < n, n - 1 \in Nat, n \in Nat

-----------------------------------------------------------------------------
(* Finite sets listed in an order                                          *)

\* A strict total order, as a set of pairs.
Orders(S, R) ==
    /\ \A x, y \in S : x # y <=> << x, y >> \in R \/ << y, x >> \in R
    /\ \A x, y, z \in S : << x, y >> \in R /\ << y, z >> \in R => << x, z >> \in R

\* The elements of S one after the other, each once.
Lists(S, R, seq) ==
    /\ seq \in [1..Cardinality(S) -> S]
    /\ \A i, j \in 1..Cardinality(S) : i < j => << seq[i], seq[j] >> \in R

HasLast(S, R) == \E m \in S : \A x \in S \ {m} : << x, m >> \in R

(* A finite set has a last element.                                        *)
LEMMA LastExists ==
  ASSUME NEW S, IsFiniteSet(S), NEW R, Orders(S, R), S # {}
  PROVE  HasLast(S, R)
<1>. DEFINE T == {n \in 0..Cardinality(S) : \A X \in SUBSET S : Cardinality(X) = n /\ X # {} =>
                      \E m \in X : \A x \in X \ {m} : << x, m >> \in R}
<1>1. Cardinality(S) \in Nat
  BY FS_CardinalityType
<1>2. 0 \in T
  <2>1. \A X \in SUBSET S : Cardinality(X) = 0 => X = {}
    BY FS_Subset, FS_EmptySet
  <2>. QED BY <1>1, <2>1
<1>3. ASSUME NEW n \in 0..(Cardinality(S) - 1), n \in T PROVE n + 1 \in T
  <2>1. SUFFICES ASSUME NEW X \in SUBSET S, Cardinality(X) = n + 1
                 PROVE  \E m \in X : \A x \in X \ {m} : << x, m >> \in R
    BY <1>1, n + 1 \in 0..Cardinality(S)
  <2>2. IsFiniteSet(X) /\ X # {}
    <3>1. Cardinality({}) = 0 /\ n + 1 # 0
      BY FS_EmptySet
    <3>. QED BY <2>1, <3>1, FS_Subset
  <2>3. PICK a \in X : TRUE
    BY <2>2
  <2>4. Cardinality(X \ {a}) = n /\ X \ {a} \in SUBSET S
    <3>1. Cardinality(X \ {a}) = Cardinality(X) - 1
      BY <2>2, <2>3, FS_RemoveElement, Zenon
    <3>2. n + 1 - 1 = n
      BY <1>1
    <3>. QED BY <2>1, <3>1, <3>2, X \ {a} \in SUBSET S
  <2>5. CASE X \ {a} = {}
    BY <2>3, <2>5
  <2>6. CASE X \ {a} # {}
    <3>1. PICK m \in X \ {a} : \A x \in (X \ {a}) \ {m} : << x, m >> \in R
      BY <1>3, <2>4, <2>6
    <3>2. a \in S /\ m \in S /\ a # m /\ X \subseteq S
      BY <2>3, <3>1
    <3>3. CASE << a, m >> \in R
      BY <3>1, <3>3
    <3>4. CASE << m, a >> \in R
      <4>1. \A x \in X \ {a} : << x, a >> \in R
        BY <3>1, <3>2, <3>4 DEF Orders
      <4>. QED BY <2>3, <4>1
    <3>. QED BY <3>2, <3>3, <3>4 DEF Orders
  <2>. QED BY <2>5, <2>6
<1>. HIDE DEF T
<1>4. Cardinality(S) \in T
  BY <1>1, <1>2, <1>3, Upwards
<1>. QED BY <1>4 DEF T, HasLast

(* A finite set can be listed in any order.                                *)
LEMMA ListExists ==
  ASSUME NEW S, IsFiniteSet(S), NEW R, Orders(S, R)
  PROVE  \E seq : Lists(S, R, seq)
<1>. DEFINE T == {n \in 0..Cardinality(S) : \A X \in SUBSET S : Cardinality(X) = n =>
                      \E seq : Lists(X, R, seq)}
<1>1. Cardinality(S) \in Nat
  BY FS_CardinalityType
<1>2. 0 \in T
  <2>1. ASSUME NEW X \in SUBSET S, Cardinality(X) = 0 PROVE \E seq : Lists(X, R, seq)
    <3>1. Lists(X, R, [i \in 1..0 |-> X])
      BY <2>1 DEF Lists
    <3>. QED BY <3>1
  <2>. QED BY <1>1, <2>1
<1>3. ASSUME NEW n \in 0..(Cardinality(S) - 1), n \in T PROVE n + 1 \in T
  <2>1. SUFFICES ASSUME NEW X \in SUBSET S, Cardinality(X) = n + 1
                 PROVE  \E seq : Lists(X, R, seq)
    BY <1>1, n + 1 \in 0..Cardinality(S)
  <2>2. IsFiniteSet(X) /\ X # {}
    <3>1. Cardinality({}) = 0 /\ n + 1 # 0
      BY FS_EmptySet
    <3>. QED BY <2>1, <3>1, FS_Subset
  <2>3. Orders(X, R)
    BY DEF Orders
  <2>4. PICK m \in X : \A x \in X \ {m} : << x, m >> \in R
    BY <2>2, <2>3, LastExists DEF HasLast
  <2>5. Cardinality(X \ {m}) = n /\ X \ {m} \in SUBSET S
    <3>1. Cardinality(X \ {m}) = Cardinality(X) - 1
      BY <2>2, <2>4, FS_RemoveElement, Zenon
    <3>2. n + 1 - 1 = n
      BY <1>1
    <3>. QED BY <2>1, <3>1, <3>2, X \ {m} \in SUBSET S
  <2>6. PICK f : Lists(X \ {m}, R, f)
    BY <1>3, <2>5
  <2>7. f \in [1..n -> X \ {m}] /\ \A i, j \in 1..n : i < j => << f[i], f[j] >> \in R
    BY <2>5, <2>6 DEF Lists
  <2>. DEFINE g == [i \in 1..(n + 1) |-> IF i = n + 1 THEN m ELSE f[i]]
  <2>8. g \in [1..(n + 1) -> X]
    BY <2>4, <2>7
  <2>9. \A i, j \in 1..(n + 1) : i < j => << g[i], g[j] >> \in R
    <3>. SUFFICES ASSUME NEW i \in 1..(n + 1), NEW j \in 1..(n + 1), i < j
                  PROVE  << g[i], g[j] >> \in R
      OBVIOUS
    <3>1. i \in 1..n /\ g[i] = f[i]
      OBVIOUS
    <3>2. CASE j = n + 1
      BY <3>1, <3>2, <2>4, <2>7
    <3>3. CASE j # n + 1
      BY <3>1, <3>3, <2>7
    <3>. QED BY <3>2, <3>3
  <2>. HIDE DEF g
  <2>10. Lists(X, R, g)
    BY <2>1, <2>8, <2>9 DEF Lists
  <2>. QED BY <2>10
<1>. HIDE DEF T
<1>4. Cardinality(S) \in T
  BY <1>1, <1>2, <1>3, Upwards
<1>. QED BY <1>4 DEF T

(* Such a list has all the elements, each once.                            *)
LEMMA ListsAll ==
  ASSUME NEW S, IsFiniteSet(S), NEW R, Orders(S, R), NEW seq, Lists(S, R, seq)
  PROVE  /\ Cardinality(S) \in Nat
         /\ seq \in [1..Cardinality(S) -> S]
         /\ \A x \in S : \E i \in 1..Cardinality(S) : seq[i] = x
         /\ \A i, j \in 1..Cardinality(S) : i # j => seq[i] # seq[j]
<1>. DEFINE n == Cardinality(S)
<1>1. n \in Nat
  BY FS_CardinalityType
<1>. HIDE DEF n
<1>2. seq \in [1..n -> S] /\ \A i, j \in 1..n : i < j => << seq[i], seq[j] >> \in R
  BY DEF Lists, n
<1>3. \A i, j \in 1..n : i # j => seq[i] # seq[j]
  <2>. SUFFICES ASSUME NEW i \in 1..n, NEW j \in 1..n, i # j PROVE seq[i] # seq[j]
    OBVIOUS
  <2>1. i < j \/ j < i
    BY <1>1
  <2>. QED BY <1>2, <2>1 DEF Orders
<1>4. seq \in Injection(1..n, S)
  BY <1>2, <1>3 DEF Injection, IsInjective
<1>5. Cardinality(1..n) = n
  BY <1>1, FS_Interval
<1>6. seq \in Surjection(1..n, S)
  BY <1>4, <1>5, FS_Injection DEF n
<1>7. \A x \in S : \E i \in 1..n : seq[i] = x
  BY <1>6 DEF Surjection
<1>. QED BY <1>1, <1>2, <1>3, <1>7 DEF n

(* There is one such list only.                                            *)
LEMMA OneList ==
  ASSUME NEW S, IsFiniteSet(S), NEW R, Orders(S, R),
         NEW f, Lists(S, R, f), NEW g, Lists(S, R, g)
  PROVE  f = g
<1>. DEFINE n == Cardinality(S)
            T == {m \in 0..n : \A i \in 1..m : f[i] = g[i]}
<1>1. n \in Nat
  BY FS_CardinalityType
<1>2. /\ f \in [1..n -> S] /\ \A x \in S : \E i \in 1..n : f[i] = x
      /\ g \in [1..n -> S] /\ \A x \in S : \E i \in 1..n : g[i] = x
  <2>. HIDE DEF n
  <2>1. ASSUME NEW q, Lists(S, R, q)
        PROVE  q \in [1..n -> S] /\ \A x \in S : \E i \in 1..n : q[i] = x
    BY <2>1, ListsAll DEF n
  <2>. QED BY <2>1
<1>3. \A i, j \in 1..n : i < j => << f[i], f[j] >> \in R /\ << g[i], g[j] >> \in R
  BY DEF Lists
<1>. HIDE DEF n
<1>7. \A i, j \in 1..n : i < j => f[i] # f[j] /\ g[i] # g[j]
  BY <1>2, <1>3 DEF Orders
<1>4. 0 \in T
  BY <1>1
<1>5. ASSUME NEW m \in 0..(n - 1), m \in T PROVE m + 1 \in T
  <2>1. m + 1 \in 1..n /\ m + 1 \in 0..n
    BY <1>1
  <2>2. SUFFICES f[m + 1] = g[m + 1]
    BY <1>5, <2>1
  <2>3. SUFFICES ASSUME f[m + 1] # g[m + 1] PROVE FALSE
    OBVIOUS
  <2>4. f[m + 1] \in S /\ g[m + 1] \in S
    BY <1>2, <2>1
  <2>5. PICK i \in 1..n : f[i] = g[m + 1]
    BY <1>2, <2>4
  <2>6. PICK j \in 1..n : g[j] = f[m + 1]
    BY <1>2, <2>4
  <2>7. m + 1 < i
    <3>1. i # m + 1
      BY <2>3, <2>5
    <3>2. ~(i \in 1..m)
      BY <1>1, <1>5, <1>7, <2>1, <2>5, <3>1
    <3>. QED BY <1>1, <3>1, <3>2
  <2>8. m + 1 < j
    <3>1. j # m + 1
      BY <2>3, <2>6
    <3>2. ~(j \in 1..m)
      BY <1>1, <1>5, <1>7, <2>1, <2>6, <3>1
    <3>. QED BY <1>1, <3>1, <3>2
  <2>9. << f[m + 1], g[m + 1] >> \in R /\ << g[m + 1], f[m + 1] >> \in R
    BY <1>3, <2>1, <2>5, <2>6, <2>7, <2>8
  <2>10. << f[m + 1], f[m + 1] >> \in R
    BY <2>4, <2>9 DEF Orders
  <2>. QED BY <2>4, <2>10 DEF Orders
<1>. HIDE DEF T
<1>6. n \in T
  BY <1>1, <1>4, <1>5, Upwards
<1>. QED BY <1>2, <1>6 DEF T

\* All the elements of S, each once, as a sequence.
Listing(S, seq) ==
    \E n \in Nat : /\ seq \in [1..n -> S]
                   /\ \A x \in S : \E i \in 1..n : seq[i] = x
                   /\ \A i, j \in 1..n : i # j => seq[i] # seq[j]

-----------------------------------------------------------------------------
(* The fold of SequencesExt, spelt out.                                    *)

Last(s) == CHOOSE x \in s : \A y \in s : x >= y

Folds(c, base, seq, S, iter) ==
    iter = [s \in SUBSET S |-> IF s = {} THEN base
                               ELSE Step(c, iter[s \ {Last(s)}], seq[Last(s)])]

Fold(c, base, seq) == (CHOOSE iter : Folds(c, base, seq, DOMAIN seq, iter))[DOMAIN seq]

LEMMA LastOf ==
  ASSUME NEW m \in Nat, NEW s \in SUBSET (1..(m + 1)), m + 1 \in s
  PROVE  Last(s) = m + 1
<1>1. \A y \in s : m + 1 >= y
  OBVIOUS
<1>2. \A x \in s : (\A y \in s : x >= y) => x = m + 1
  OBVIOUS
<1>. QED BY <1>1, <1>2 DEF Last

(* There is such a function, though nothing is known of Step.              *)
LEMMA FoldExists ==
  ASSUME NEW c, NEW base, NEW seq, NEW n \in Nat
  PROVE  \E iter : Folds(c, base, seq, 1..n, iter)
<1>. DEFINE T == {m \in 0..n : \E iter : Folds(c, base, seq, 1..m, iter)}
<1>1. 0 \in T
  <2>1. Folds(c, base, seq, 1..0, [s \in SUBSET (1..0) |-> base])
    BY 1..0 = {} DEF Folds
  <2>. QED BY <2>1
<1>2. ASSUME NEW m \in 0..(n - 1), m \in T PROVE m + 1 \in T
  <2>1. PICK f : Folds(c, base, seq, 1..m, f)
    BY <1>2
  <2>. DEFINE g == [s \in SUBSET (1..(m + 1)) |->
                      IF s = {} THEN base
                      ELSE IF m + 1 \in s THEN Step(c, f[s \ {m + 1}], seq[m + 1]) ELSE f[s]]
  <2>2. \A s \in SUBSET (1..(m + 1)) : m + 1 \notin s => s \in SUBSET (1..m)
    OBVIOUS
  <2>3. \A s \in SUBSET (1..m) : s \in SUBSET (1..(m + 1)) /\ m + 1 \notin s
    OBVIOUS
  <2>4. f[{}] = base
    BY <2>1 DEF Folds
  <2>5. \A s \in SUBSET (1..m) : g[s] = f[s]
    BY <2>3, <2>4
  <2>6. ASSUME NEW s \in SUBSET (1..(m + 1)), s # {}
        PROVE  g[s] = Step(c, g[s \ {Last(s)}], seq[Last(s)])
    <3>1. CASE m + 1 \in s
      <4>1. Last(s) = m + 1
        BY <3>1, LastOf, m \in Nat
      <4>2. s \ {m + 1} \in SUBSET (1..m)
        BY <2>2
      <4>. QED BY <2>5, <2>6, <3>1, <4>1, <4>2
    <3>2. CASE m + 1 \notin s
      <4>1. s \in SUBSET (1..m) /\ s \ {Last(s)} \in SUBSET (1..m)
        BY <2>2, <3>2
      <4>2. f[s] = Step(c, f[s \ {Last(s)}], seq[Last(s)])
        BY <2>1, <2>6, <4>1 DEF Folds
      <4>. QED BY <2>5, <4>1, <4>2
    <3>. QED BY <3>1, <3>2
  <2>7. g[{}] = base
    OBVIOUS
  <2>8. g = [s \in SUBSET (1..(m + 1)) |-> g[s]]
    OBVIOUS
  <2>. HIDE DEF g
  <2>9. Folds(c, base, seq, 1..(m + 1), g)
    BY <2>6, <2>7, <2>8 DEF Folds
  <2>. QED BY <2>9
<1>. HIDE DEF T
<1>3. n \in T
  BY <1>1, <1>2, Upwards
<1>. QED BY <1>3 DEF T

(* Induction over the fold of a sequence.                                  *)
THEOREM FoldHolds ==
  ASSUME NEW c, NEW base, NEW seq, NEW n \in Nat, DOMAIN seq = 1..n,
         Holds(c, 0, base),
         \A i \in 0..(n - 1) : \A r : Holds(c, i, r) => Holds(c, i + 1, Step(c, r, seq[i + 1]))
  PROVE  Holds(c, n, Fold(c, base, seq))
<1>. DEFINE f == CHOOSE iter : Folds(c, base, seq, 1..n, iter)
            T == {m \in 0..n : Holds(c, m, f[1..m])}
<1>1. Folds(c, base, seq, 1..n, f)
  BY FoldExists
<1>2. 0 \in T
  <2>1. f[{}] = base
    BY <1>1 DEF Folds
  <2>. QED BY <2>1, 1..0 = {}
<1>3. ASSUME NEW m \in 0..(n - 1), m \in T PROVE m + 1 \in T
  <2>1. /\ 1..(m + 1) \in SUBSET (1..n) /\ m + 1 \in 1..(m + 1)
        /\ (1..(m + 1)) \ {m + 1} = 1..m /\ m + 1 \in 0..n
    OBVIOUS
  <2>2. Last(1..(m + 1)) = m + 1
    BY <2>1, LastOf, m \in Nat
  <2>3. f[1..(m + 1)] = Step(c, f[1..m], seq[m + 1])
    BY <1>1, <2>1, <2>2 DEF Folds
  <2>. HIDE DEF f
  <2>. QED BY <1>3, <2>1, <2>3
<1>4. n \in T
  <2>. HIDE DEF T, f
  <2>1. \A i \in 0..n : i \in T
    BY <1>2, <1>3, Upwards, Zenon
  <2>. QED BY <2>1
<1>. QED BY <1>4 DEF Fold
=============================================================================
