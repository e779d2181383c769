----------------------------- MODULE FiniteLemmas -----------------------------
(***************************************************************************)
(* Finite sets and numbers, as the proofs about the modules need them:     *)
(* induction over the subsets of a finite set, sums, least and greatest    *)
(* elements, products and quotients.                                       *)
(***************************************************************************)
EXTENDS Integers, FiniteSets, FiniteSetTheorems, WellFoundedInduction, TLAPS

-----------------------------------------------------------------------------
\* MapThenSumSet adds up a function in the order in which CHOOSE picks.
Picked(T) == CHOOSE x \in T : TRUE

IsSum(sum, f, S) ==
    sum = [T \in SUBSET S |-> IF T = {} THEN 0 ELSE f[Picked(T)] + sum[T \ {Picked(T)}]]

\* What makes it a sum: it is 0 for the empty set, and any element can be
\* split off.
Adds(sum, f, S) ==
    /\ sum[{}] = 0
    /\ \A T \in SUBSET S : sum[T] \in Int
    /\ \A T \in SUBSET S : \A x \in T : sum[T] = f[x] + sum[T \ {x}]

(* A proper subset of a finite set has fewer elements.                     *)
LEMMA ProperSubsetSmaller ==
  ASSUME NEW T, IsFiniteSet(T), NEW U \in SUBSET T, U # T
  PROVE  Cardinality(U) < Cardinality(T) /\ Cardinality(U) \in Nat /\ Cardinality(T) \in Nat
<1>1. /\ IsFiniteSet(U) /\ Cardinality(U) <= Cardinality(T)
      /\ Cardinality(U) = Cardinality(T) => U = T
  BY FS_Subset
<1>2. Cardinality(U) \in Nat /\ Cardinality(T) \in Nat
  BY <1>1, FS_CardinalityType
<1>3. QED
  BY <1>1, <1>2

(* Induction over the subsets of a finite set by size, stated with the set *)
(* of those for which the claim holds.                                     *)
LEMMA SizeInduction ==
  ASSUME NEW S, IsFiniteSet(S), NEW Good \in SUBSET (SUBSET S),
         \A T \in SUBSET S :
            (\A U \in SUBSET S : Cardinality(U) < Cardinality(T) => U \in Good) => T \in Good
  PROVE  Good = SUBSET S
<1> DEFINE R == OpToRel(<, Nat)
           Bad == (SUBSET S) \ Good
           Sizes == { Cardinality(T) : T \in Bad }
<1> SUFFICES ASSUME Bad # {} PROVE FALSE
  OBVIOUS
<1>1. IsWellFoundedOn(R, Nat)
  BY NatLessThanWellFounded
<1>2. \A T \in SUBSET S : IsFiniteSet(T) /\ Cardinality(T) \in Nat
  BY FS_Subset, FS_CardinalityType
<1>3. Sizes \subseteq Nat /\ Sizes # {}
  BY <1>2
<1>4. \A m, n \in Nat : m < n => <<m, n>> \in R
  BY DEF OpToRel
<1> HIDE DEF R, Sizes
<1>5. PICK n \in Sizes : \A m \in Sizes : ~ (<<m, n>> \in R)
  BY <1>1, <1>3, WFMin
<1>6. PICK T \in Bad : n = Cardinality(T)
  BY DEF Sizes
<1>7. ASSUME NEW U \in SUBSET S, Cardinality(U) < Cardinality(T) PROVE U \in Good
  <2>1. Cardinality(U) \notin Sizes
    BY <1>2, <1>3, <1>4, <1>5, <1>6, <1>7
  <2>2. QED
    BY <2>1 DEF Sizes
<1>8. QED
  BY <1>7

(* Induction by adding one element at a time.                              *)
LEMMA SubsetInduction ==
  ASSUME NEW S, IsFiniteSet(S), NEW Good \in SUBSET (SUBSET S), {} \in Good,
         \A T \in Good : \A x \in S \ T : T \cup {x} \in Good
  PROVE  Good = SUBSET S
<1>1. ASSUME NEW T \in SUBSET S,
             \A U \in SUBSET S : Cardinality(U) < Cardinality(T) => U \in Good
      PROVE  T \in Good
  <2>1. CASE T = {}
    BY <2>1
  <2>2. CASE T # {}
    <3>1. PICK x \in T : TRUE
      BY <2>2
    <3>2. IsFiniteSet(T)
      BY FS_Subset
    <3>3. T \ {x} \subseteq T /\ T \ {x} # T
      OBVIOUS
    <3>4. Cardinality(T \ {x}) < Cardinality(T)
      BY <3>2, <3>3, ProperSubsetSmaller
    <3>5. T \ {x} \in Good
      BY <1>1, <3>4
    <3>6. (T \ {x}) \cup {x} = T /\ x \in S \ (T \ {x})
      BY <3>1
    <3>7. QED
      BY <3>5, <3>6
  <2>3. QED
    BY <2>1, <2>2
<1>2. QED
  BY <1>1, SizeInduction

(* The recursive definition of the fold has a solution: by induction one   *)
(* for the subsets up to a size.                                           *)
LEMMA SumExists ==
  ASSUME NEW S, IsFiniteSet(S), NEW f
  PROVE  \E sum : IsSum(sum, f, S)
<1> DEFINE Unfold(sum, U) == IF U = {} THEN 0 ELSE f[Picked(U)] + sum[U \ {Picked(U)}]
           UpTo(sum, n) == /\ sum = [U \in SUBSET S |-> sum[U]]
                           /\ \A U \in SUBSET S : Cardinality(U) <= n => sum[U] = Unfold(sum, U)
           Good == { T \in SUBSET S : \E sum : UpTo(sum, Cardinality(T)) }
<1>0. \A U \in SUBSET S : IsFiniteSet(U) /\ Cardinality(U) \in Nat
  BY FS_Subset, FS_CardinalityType
<1>1. \A U \in SUBSET S : U # {} => /\ U \ {Picked(U)} \in SUBSET S
                                    /\ Cardinality(U \ {Picked(U)}) = Cardinality(U) - 1
  <2> SUFFICES ASSUME NEW U \in SUBSET S, U # {}
               PROVE  Cardinality(U \ {Picked(U)}) = Cardinality(U) - 1
    OBVIOUS
  <2>1. Picked(U) \in U
    BY DEF Picked
  <2>2. QED
    BY <1>0, <2>1, FS_RemoveElement
<1>2. {} \in Good
  <2> DEFINE sum == [U \in SUBSET S |-> 0]
  <2>1. \A U \in SUBSET S : Cardinality(U) <= Cardinality({}) => U = {}
    BY <1>0, FS_EmptySet
  <2>2. UpTo(sum, Cardinality({}))
    BY <2>1
  <2>3. QED
    BY <2>2
<1>3. ASSUME NEW T \in Good, NEW x \in S \ T PROVE T \cup {x} \in Good
  <2>1. Cardinality(T \cup {x}) = Cardinality(T) + 1
    BY <1>0, FS_AddElement
  <2>2. PICK old : UpTo(old, Cardinality(T))
    OBVIOUS
  <2> DEFINE new == [U \in SUBSET S |-> Unfold(old, U)]
  <2>3. \A U \in SUBSET S : Cardinality(U) <= Cardinality(T) => new[U] = old[U]
    BY <2>2
  <2>4. ASSUME NEW U \in SUBSET S, Cardinality(U) <= Cardinality(T) + 1
        PROVE  new[U] = Unfold(new, U)
    <3>1. CASE U = {}
      BY <3>1
    <3>2. CASE U # {}
      <4>1. U \ {Picked(U)} \in SUBSET S /\ Cardinality(U \ {Picked(U)}) <= Cardinality(T)
        BY <1>0, <1>1, <2>4, <3>2
      <4>2. new[U \ {Picked(U)}] = old[U \ {Picked(U)}]
        BY <2>3, <4>1
      <4>3. new[U] = f[Picked(U)] + old[U \ {Picked(U)}]
        BY <3>2
      <4> HIDE DEF new
      <4>4. QED
        BY <3>2, <4>2, <4>3
    <3>3. QED
      BY <3>1, <3>2
  <2>5. new = [U \in SUBSET S |-> new[U]]
    OBVIOUS
  <2> HIDE DEF new, Unfold
  <2>6. UpTo(new, Cardinality(T \cup {x}))
    BY <2>1, <2>4, <2>5
  <2>7. T \cup {x} \in SUBSET S
    OBVIOUS
  <2> HIDE DEF UpTo
  <2>8. QED
    BY <2>6, <2>7
<1> HIDE DEF UpTo
<1>4. S \in Good
  <2>1. Good \in SUBSET (SUBSET S)
    OBVIOUS
  <2> HIDE DEF Good
  <2>2. Good = SUBSET S
    BY <1>2, <1>3, <2>1, SubsetInduction
  <2>3. QED
    BY <2>2
<1>5. PICK sum : UpTo(sum, Cardinality(S))
  BY <1>4
<1>6. \A U \in SUBSET S : Cardinality(U) <= Cardinality(S)
  BY FS_Subset
<1>7. IsSum(sum, f, S)
  BY <1>5, <1>6 DEF IsSum, UpTo
<1>8. QED
  BY <1>7

(* The order does not matter: any element can be split off.                *)
LEMMA SumSplit ==
  ASSUME NEW S, IsFiniteSet(S), NEW f, \A x \in S : f[x] \in Int,
         NEW sum, IsSum(sum, f, S)
  PROVE  Adds(sum, f, S)
<1>1. sum[{}] = 0
  BY DEF IsSum
<1>2. ASSUME NEW T \in SUBSET S, T # {}
      PROVE  Picked(T) \in T /\ sum[T] = f[Picked(T)] + sum[T \ {Picked(T)}]
  BY <1>2 DEF IsSum, Picked
<1>3. \A T \in SUBSET S : IsFiniteSet(T)
  BY FS_Subset
<1> DEFINE Splits(T) == sum[T] \in Int /\ \A x \in T : sum[T] = f[x] + sum[T \ {x}]
           Good == { T \in SUBSET S : Splits(T) }
<1>4. ASSUME NEW T \in SUBSET S,
             \A U \in SUBSET S : Cardinality(U) < Cardinality(T) => U \in Good
      PROVE  T \in Good
  <2> SUFFICES Splits(T)
    OBVIOUS
  <2>1. CASE T = {}
    BY <1>1, <2>1
  <2>2. CASE T # {}
    <3> DEFINE y == Picked(T)
    <3>1. y \in T /\ sum[T] = f[y] + sum[T \ {y}]
      BY <1>2, <2>2
    <3> HIDE DEF y
    <3>2. ASSUME NEW x \in T PROVE Splits(T \ {x})
      <4>1. T \ {x} \subseteq T /\ T \ {x} # T
        OBVIOUS
      <4>2. Cardinality(T \ {x}) < Cardinality(T)
        BY <1>3, <4>1, ProperSubsetSmaller
      <4>3. QED
        BY <1>4, <4>2
    <3> HIDE DEF Splits
    <3>3. sum[T] \in Int
      <4>1. f[y] \in Int /\ sum[T \ {y}] \in Int
        BY <3>1, <3>2 DEF Splits
      <4>2. QED
        BY <3>1, <4>1
    <3>4. ASSUME NEW x \in T, x # y PROVE sum[T] = f[x] + sum[T \ {x}]
      <4> DEFINE U == (T \ {y}) \ {x}
      <4>1. x \in T \ {y} /\ y \in T \ {x} /\ U = (T \ {x}) \ {y}
        BY <3>1, <3>4
      <4>2. sum[T \ {y}] = f[x] + sum[U]
        BY <3>1, <3>2, <4>1 DEF Splits
      <4>3. sum[T \ {x}] = f[y] + sum[U]
        BY <3>2, <4>1 DEF Splits
      <4>4. sum[U] \in Int
        <5>1. U \in SUBSET T /\ U # T /\ U \in SUBSET S
          BY <3>1
        <5> HIDE DEF U
        <5>2. Cardinality(U) < Cardinality(T)
          BY <1>3, <5>1, ProperSubsetSmaller
        <5>3. QED
          BY <1>4, <5>1, <5>2 DEF Splits
      <4> HIDE DEF U
      <4>5. f[x] \in Int /\ f[y] \in Int
        BY <3>1
      <4>6. QED
        BY <3>1, <4>2, <4>3, <4>4, <4>5
    <3>5. QED
      BY <3>1, <3>3, <3>4 DEF Splits
  <2>3. QED
    BY <2>1, <2>2
<1>5. Good = SUBSET S
  <2>1. Good \in SUBSET (SUBSET S)
    OBVIOUS
  <2> HIDE DEF Good
  <2>2. QED
    BY <1>4, <2>1, SizeInduction
<1>6. QED
  BY <1>1, <1>5 DEF Adds

(* If every summand of S has a counterpart in R, of its own and at least   *)
(* as large, and no summand of R is negative, the sum over R is at least   *)
(* the sum over S.                                                         *)
LEMMA SumDominated ==
  ASSUME NEW S, IsFiniteSet(S), NEW R, IsFiniteSet(R), NEW match \in Injection(S, R),
         NEW f, \A x \in S : f[x] \in Int, NEW g, \A y \in R : g[y] \in Nat,
         \A x \in S : f[x] <= g[match[x]],
         NEW low, Adds(low, f, S), NEW high, Adds(high, g, R)
  PROVE  low[S] <= high[R] /\ low[S] \in Int /\ high[R] \in Int
<1>1. /\ low[{}] = 0 /\ \A T \in SUBSET S : low[T] \in Int
      /\ \A T \in SUBSET S : \A x \in T : low[T] = f[x] + low[T \ {x}]
  BY DEF Adds
<1>2. /\ high[{}] = 0 /\ \A T \in SUBSET R : high[T] \in Int
      /\ \A T \in SUBSET R : \A y \in T : high[T] = g[y] + high[T \ {y}]
  BY DEF Adds
<1>3. /\ \A x \in S : match[x] \in R
      /\ \A x, z \in S : match[x] = match[z] => x = z
  BY DEF Injection, IsInjective
<1> DEFINE Matches(T) == { match[x] : x \in T }
           Good == { T \in SUBSET S : low[T] <= high[Matches(T)] }
<1>4. {} \in Good
  <2>1. Matches({}) = {}
    OBVIOUS
  <2> HIDE DEF Matches
  <2>2. low[{}] = 0 /\ high[Matches({})] = 0
    BY <1>1, <1>2, <2>1
  <2>3. QED
    BY <2>2
<1>5. ASSUME NEW T \in Good, NEW x \in S \ T PROVE T \cup {x} \in Good
  <2>1. /\ Matches(T \cup {x}) \in SUBSET R /\ Matches(T) \in SUBSET R
        /\ match[x] \in Matches(T \cup {x})
        /\ Matches(T \cup {x}) \ {match[x]} = Matches(T)
    BY <1>3
  <2>2. (T \cup {x}) \ {x} = T /\ T \cup {x} \in SUBSET S
    OBVIOUS
  <2>3. low[T] <= high[Matches(T)]
    OBVIOUS
  <2> HIDE DEF Matches
  <2>4. high[Matches(T \cup {x})] = g[match[x]] + high[Matches(T)]
    BY <1>2, <2>1
  <2>5. low[T \cup {x}] = f[x] + low[T]
    BY <1>1, <2>2
  <2>6. f[x] \in Int /\ g[match[x]] \in Int /\ f[x] <= g[match[x]]
    BY <1>3
  <2>7. low[T] \in Int /\ high[Matches(T)] \in Int
    BY <1>1, <1>2, <2>1
  <2>8. low[T \cup {x}] <= high[Matches(T \cup {x})]
    BY <2>3, <2>4, <2>5, <2>6, <2>7
  <2>9. QED
    BY <2>2, <2>8
<1>6. low[S] <= high[Matches(S)]
  <2>1. Good \in SUBSET (SUBSET S)
    OBVIOUS
  <2> HIDE DEF Good
  <2>2. Good = SUBSET S
    BY <1>4, <1>5, <2>1, SubsetInduction
  <2>3. QED
    BY <2>2 DEF Good
<1> DEFINE M == Matches(S)
           Larger == { T \in SUBSET R : high[M \cap T] <= high[T] }
<1>7. {} \in Larger
  <2>1. M \cap {} = {}
    OBVIOUS
  <2>2. QED
    BY <1>2, <2>1
<1> HIDE DEF M
<1>8. ASSUME NEW T \in Larger, NEW y \in R \ T PROVE T \cup {y} \in Larger
  <2>1. high[T \cup {y}] = g[y] + high[T]
    <3>1. (T \cup {y}) \ {y} = T /\ T \cup {y} \in SUBSET R
      OBVIOUS
    <3>2. QED
      BY <1>2, <3>1
  <2>2. high[T] \in Int /\ high[M \cap T] \in Int /\ g[y] \in Nat
    BY <1>2
  <2>3. high[M \cap T] <= high[T]
    OBVIOUS
  <2>4. CASE y \in M
    <3>1. /\ M \cap (T \cup {y}) \in SUBSET R /\ y \in M \cap (T \cup {y})
          /\ (M \cap (T \cup {y})) \ {y} = M \cap T
      BY <2>4
    <3>2. high[M \cap (T \cup {y})] = g[y] + high[M \cap T]
      BY <1>2, <3>1
    <3>3. high[M \cap (T \cup {y})] <= high[T \cup {y}]
      BY <2>1, <2>2, <2>3, <3>2
    <3>4. QED
      BY <3>3
  <2>5. CASE y \notin M
    <3>1. M \cap (T \cup {y}) = M \cap T
      BY <2>5
    <3>2. high[M \cap (T \cup {y})] <= high[T \cup {y}]
      <4>1. \A a, b \in Int, n \in Nat : a <= b => a <= n + b
        OBVIOUS
      <4>2. high[M \cap T] <= g[y] + high[T]
        BY <2>2, <2>3, <4>1
      <4>3. QED
        BY <2>1, <3>1, <4>2
    <3>3. QED
      BY <3>2
  <2>6. QED
    BY <2>4, <2>5
<1>9. high[M \cap R] <= high[R]
  <2>1. Larger \in SUBSET (SUBSET R)
    OBVIOUS
  <2> HIDE DEF Larger
  <2>2. Larger = SUBSET R
    BY <1>7, <1>8, <2>1, SubsetInduction
  <2>3. QED
    BY <2>2 DEF Larger
<1>10. M \cap R = M /\ M \in SUBSET R
  BY <1>3 DEF M
<1>11. low[S] \in Int /\ high[R] \in Int /\ high[M] \in Int
  BY <1>1, <1>2, <1>10
<1>12. low[S] <= high[M]
  BY <1>6 DEF M
<1>13. high[M] <= high[R]
  BY <1>9, <1>10
<1>14. QED
  BY <1>11, <1>12, <1>13

(* A factor of all summands is one of the sum.                             *)
LEMMA SumScaled ==
  ASSUME NEW S, IsFiniteSet(S), NEW k \in Int, NEW f, \A x \in S : f[x] \in Int,
         NEW g, \A x \in S : g[x] = k * f[x],
         NEW sum, Adds(sum, f, S), NEW scaled, Adds(scaled, g, S)
  PROVE  scaled[S] = k * sum[S]
<1>1. /\ sum[{}] = 0 /\ \A T \in SUBSET S : sum[T] \in Int
      /\ \A T \in SUBSET S : \A x \in T : sum[T] = f[x] + sum[T \ {x}]
  BY DEF Adds
<1>2. /\ scaled[{}] = 0
      /\ \A T \in SUBSET S : \A x \in T : scaled[T] = g[x] + scaled[T \ {x}]
  BY DEF Adds
<1> DEFINE Good == { T \in SUBSET S : scaled[T] = k * sum[T] }
<1>3. {} \in Good
  BY <1>1, <1>2
<1>4. ASSUME NEW T \in Good, NEW x \in S \ T PROVE T \cup {x} \in Good
  <2>1. (T \cup {x}) \ {x} = T /\ T \cup {x} \in SUBSET S
    OBVIOUS
  <2>2. sum[T \cup {x}] = f[x] + sum[T] /\ scaled[T \cup {x}] = g[x] + scaled[T]
    BY <1>1, <1>2, <2>1
  <2>3. \A a, b \in Int : k * (a + b) = k * a + k * b
    OBVIOUS
  <2>4. f[x] \in Int /\ sum[T] \in Int
    BY <1>1
  <2>5. g[x] = k * f[x] /\ scaled[T] = k * sum[T]
    OBVIOUS
  <2>6. k * sum[T \cup {x}] = k * f[x] + k * sum[T]
    BY <2>2, <2>3, <2>4
  <2>7. scaled[T \cup {x}] = k * sum[T \cup {x}]
    BY <2>2, <2>5, <2>6
  <2>8. QED
    BY <2>1, <2>7
<1>5. QED
  <2>1. Good \in SUBSET (SUBSET S)
    OBVIOUS
  <2> HIDE DEF Good
  <2>2. Good = SUBSET S
    BY <1>3, <1>4, <2>1, SubsetInduction
  <2>3. QED
    BY <2>2 DEF Good

(* Equal summands add up to a product.                                     *)
LEMMA SumConstant ==
  ASSUME NEW S, IsFiniteSet(S), NEW f, NEW sum, Adds(sum, f, S),
         NEW R \in SUBSET S, NEW c \in Int, \A x \in R : f[x] = c
  PROVE  sum[R] = c * Cardinality(R)
<1>1. /\ sum[{}] = 0
      /\ \A T \in SUBSET S : \A x \in T : sum[T] = f[x] + sum[T \ {x}]
  BY DEF Adds
<1>2. IsFiniteSet(R) /\ \A T \in SUBSET R : IsFiniteSet(T) /\ Cardinality(T) \in Nat
  <2>1. IsFiniteSet(R)
    BY FS_Subset
  <2>2. QED
    BY <2>1, FS_Subset, FS_CardinalityType
<1> DEFINE Good == { T \in SUBSET R : sum[T] = c * Cardinality(T) }
<1>3. {} \in Good
  <2>1. Cardinality({}) = 0 /\ c * 0 = 0
    BY FS_EmptySet
  <2>2. QED
    BY <1>1, <2>1
<1>4. ASSUME NEW T \in Good, NEW x \in R \ T PROVE T \cup {x} \in Good
  <2>1. (T \cup {x}) \ {x} = T /\ T \cup {x} \in SUBSET R /\ T \cup {x} \in SUBSET S
    OBVIOUS
  <2>2. sum[T \cup {x}] = c + c * Cardinality(T)
    <3>1. \A U \in SUBSET S : x \in U => sum[U] = f[x] + sum[U \ {x}]
      BY <1>1
    <3>2. sum[T \cup {x}] = f[x] + sum[T] /\ f[x] = c /\ sum[T] = c * Cardinality(T)
      BY <2>1, <3>1
    <3>3. QED
      BY <3>2
  <2>3. Cardinality(T \cup {x}) = Cardinality(T) + 1
    BY <1>2, FS_AddElement
  <2>4. \A n \in Nat : c + c * n = c * (n + 1)
    OBVIOUS
  <2>5. sum[T \cup {x}] = c * Cardinality(T \cup {x})
    BY <1>2, <2>2, <2>3, <2>4
  <2>6. QED
    BY <2>1, <2>5
<1>5. QED
  <2>1. Good \in SUBSET (SUBSET R)
    OBVIOUS
  <2> HIDE DEF Good
  <2>2. Good = SUBSET R
    BY <1>2, <1>3, <1>4, <2>1, SubsetInduction
  <2>3. QED
    BY <2>2 DEF Good

(* The sum over two disjoint sets.                                         *)
LEMMA SumApart ==
  ASSUME NEW S, IsFiniteSet(S), NEW f, \A x \in S : f[x] \in Int, NEW sum, Adds(sum, f, S),
         NEW R \in SUBSET S, NEW Q \in SUBSET S, R \cap Q = {}
  PROVE  sum[R \cup Q] = sum[R] + sum[Q]
<1>1. /\ sum[{}] = 0 /\ \A T \in SUBSET S : sum[T] \in Int
      /\ \A T \in SUBSET S : \A x \in T : sum[T] = f[x] + sum[T \ {x}]
  BY DEF Adds
<1>2. IsFiniteSet(Q)
  BY FS_Subset
<1> DEFINE Good == { T \in SUBSET Q : sum[R \cup T] = sum[R] + sum[T] }
<1>3. {} \in Good
  <2>1. R \cup {} = R
    OBVIOUS
  <2>2. QED
    BY <1>1, <2>1
<1>4. ASSUME NEW T \in Good, NEW x \in Q \ T PROVE T \cup {x} \in Good
  <2>1. /\ (T \cup {x}) \ {x} = T /\ T \cup {x} \in SUBSET S
        /\ (R \cup (T \cup {x})) \ {x} = R \cup T /\ R \cup (T \cup {x}) \in SUBSET S
        /\ R \cup T \in SUBSET S /\ T \in SUBSET S
    OBVIOUS
  <2>2. sum[T \cup {x}] = f[x] + sum[T] /\ sum[R \cup (T \cup {x})] = f[x] + sum[R \cup T]
    <3>1. \A U \in SUBSET S : x \in U => sum[U] = f[x] + sum[U \ {x}]
      BY <1>1
    <3>2. x \in R \cup (T \cup {x}) /\ x \in T \cup {x}
      OBVIOUS
    <3>3. QED
      BY <2>1, <3>1, <3>2
  <2>3. sum[R \cup T] = sum[R] + sum[T]
    OBVIOUS
  <2>4. sum[R] \in Int /\ sum[T] \in Int /\ f[x] \in Int
    BY <1>1, <2>1
  <2>5. sum[R \cup (T \cup {x})] = sum[R] + sum[T \cup {x}]
    BY <2>2, <2>3, <2>4
  <2>6. T \cup {x} \in SUBSET Q
    OBVIOUS
  <2> HIDE <2>1, <2>2, <2>3, <2>4
  <2>7. QED
    BY <2>5, <2>6
<1>5. QED
  <2>1. Good \in SUBSET (SUBSET Q)
    OBVIOUS
  <2> HIDE DEF Good
  <2>2. Good = SUBSET Q
    BY <1>2, <1>3, <1>4, <2>1, SubsetInduction
  <2>3. QED
    BY <2>2 DEF Good

(* A function below the sum of two others.                                 *)
LEMMA SumBelow ==
  ASSUME NEW S, IsFiniteSet(S),
         NEW f, NEW g, NEW h, \A x \in S : f[x] \in Int /\ g[x] \in Int /\ h[x] \in Int,
         \A x \in S : h[x] <= f[x] + g[x],
         NEW first, Adds(first, f, S), NEW second, Adds(second, g, S), NEW sum, Adds(sum, h, S)
  PROVE  sum[S] <= first[S] + second[S]
<1>1. /\ first[{}] = 0 /\ \A T \in SUBSET S : first[T] \in Int
      /\ \A T \in SUBSET S : \A x \in T : first[T] = f[x] + first[T \ {x}]
  BY DEF Adds
<1>2. /\ second[{}] = 0 /\ \A T \in SUBSET S : second[T] \in Int
      /\ \A T \in SUBSET S : \A x \in T : second[T] = g[x] + second[T \ {x}]
  BY DEF Adds
<1>3. /\ sum[{}] = 0 /\ \A T \in SUBSET S : sum[T] \in Int
      /\ \A T \in SUBSET S : \A x \in T : sum[T] = h[x] + sum[T \ {x}]
  BY DEF Adds
<1> DEFINE Good == { T \in SUBSET S : sum[T] <= first[T] + second[T] }
<1>4. {} \in Good
  BY <1>1, <1>2, <1>3
<1>5. ASSUME NEW T \in Good, NEW x \in S \ T PROVE T \cup {x} \in Good
  <2>1. (T \cup {x}) \ {x} = T /\ T \cup {x} \in SUBSET S /\ T \in SUBSET S
    OBVIOUS
  <2>2. /\ first[T \cup {x}] = f[x] + first[T] /\ second[T \cup {x}] = g[x] + second[T]
        /\ sum[T \cup {x}] = h[x] + sum[T]
    <3>1. /\ \A U \in SUBSET S : x \in U => first[U] = f[x] + first[U \ {x}]
          /\ \A U \in SUBSET S : x \in U => second[U] = g[x] + second[U \ {x}]
          /\ \A U \in SUBSET S : x \in U => sum[U] = h[x] + sum[U \ {x}]
      BY <1>1, <1>2, <1>3
    <3>2. QED
      BY <2>1, <3>1
  <2>3. first[T] \in Int /\ second[T] \in Int /\ sum[T] \in Int
    BY <1>1, <1>2, <1>3, <2>1
  <2>4. sum[T] <= first[T] + second[T] /\ h[x] <= f[x] + g[x]
    OBVIOUS
  <2>5. f[x] \in Int /\ g[x] \in Int /\ h[x] \in Int
    OBVIOUS
  <2>6. sum[T \cup {x}] <= first[T \cup {x}] + second[T \cup {x}]
    BY <2>2, <2>3, <2>4, <2>5
  <2>7. QED
    BY <2>1, <2>6
<1>6. QED
  <2>1. Good \in SUBSET (SUBSET S)
    OBVIOUS
  <2> HIDE DEF Good
  <2>2. Good = SUBSET S
    BY <1>4, <1>5, <2>1, SubsetInduction
  <2>3. QED
    BY <2>2 DEF Good

-----------------------------------------------------------------------------
(* Numbers: the least of naturals, the largest of a bounded set, the least *)
(* and the greatest of a finite one, products and quotients.               *)
(* A non-empty set of naturals has a least element.                        *)
LEMMA LeastNatural ==
  ASSUME NEW S \in SUBSET Nat, S # {}
  PROVE  \E m \in S : \A k \in S : m <= k
<1> DEFINE R == OpToRel(<, Nat)
<1>1. IsWellFoundedOn(R, Nat)
  BY NatLessThanWellFounded
<1>2. \A x, y \in Nat : x < y => <<x, y>> \in R
  BY DEF OpToRel
<1> HIDE DEF R
<1>3. PICK m \in S : \A k \in S : ~ (<<k, m>> \in R)
  BY <1>1, WFMin
<1>4. \A k \in S : ~ (k < m)
  BY <1>2, <1>3
<1>5. QED
  BY <1>4

(* A non-empty bounded one has a greatest element.                         *)
LEMMA Largest ==
  ASSUME NEW n \in Nat, NEW S \in SUBSET (0..n), S # {}
  PROVE  \E m \in S : \A k \in S : m >= k
<1> DEFINE T == { n - m : m \in S }
<1>1. T \subseteq Nat /\ T # {}
  <2>1. \A m \in S : n - m \in Nat
    OBVIOUS
  <2>2. PICK m \in S : TRUE
    OBVIOUS
  <2>3. QED
    BY <2>1, <2>2
<1> HIDE DEF T
<1>2. PICK x \in T : \A y \in T : x <= y
  BY <1>1, LeastNatural
<1>3. PICK m \in S : x = n - m
  BY DEF T
<1>4. \A k \in S : n - m <= n - k
  BY <1>2, <1>3 DEF T
<1>5. QED
  BY <1>4

(* A finite, non-empty set of integers has a least element.                *)
LEMMA Least ==
  ASSUME NEW S \in SUBSET Int, IsFiniteSet(S), S # {}
  PROVE  \E m \in S : \A k \in S : m <= k
<1> DEFINE R == OpToRel(<, Nat)
           Below(m) == { k \in S : k < m }
           T == { Cardinality(Below(m)) : m \in S }
<1>1. IsWellFoundedOn(R, Nat)
  BY NatLessThanWellFounded
<1>2. \A m \in S : IsFiniteSet(Below(m)) /\ Cardinality(Below(m)) \in Nat
  BY FS_Subset, FS_CardinalityType
<1>3. T \subseteq Nat /\ T # {}
  BY <1>2
<1>4. \A x, y \in Nat : x < y => <<x, y>> \in R
  BY DEF OpToRel
<1> HIDE DEF R
<1>5. PICK x \in T : \A y \in T : ~ (<<y, x>> \in R)
  BY <1>1, <1>3, WFMin
<1>6. PICK m \in S : x = Cardinality(Below(m))
  OBVIOUS
<1>7. ASSUME NEW k \in S, k < m PROVE FALSE
  <2>1. Below(k) \subseteq Below(m)
    <3>1. \A j \in Int : j < k => j < m
      BY <1>7
    <3>2. QED
      BY <3>1
  <2>2. k \in Below(m) /\ k \notin Below(k)
    BY <1>7
  <2> HIDE DEF Below
  <2>3. Cardinality(Below(k)) < Cardinality(Below(m))
    BY <1>2, <2>1, <2>2, FS_Subset
  <2>4. QED
    BY <1>2, <1>3, <1>4, <1>5, <1>6, <2>3
<1>8. QED
  BY <1>7

(* So it has a greatest one.                                               *)
LEMMA GreatestNumber ==
  ASSUME NEW S \in SUBSET Int, IsFiniteSet(S), S # {}
  PROVE  \E m \in S : \A k \in S : m >= k
<1> DEFINE N == { - k : k \in S }
           f == [k \in S |-> - k]
<1>1. f \in Surjection(S, N)
  BY DEF Surjection
<1>2. IsFiniteSet(N) /\ N \subseteq Int /\ N # {}
  <2>1. N \subseteq Int /\ N # {}
    <3>1. PICK k \in S : TRUE
      OBVIOUS
    <3>2. - k \in N
      OBVIOUS
    <3>3. N \subseteq Int
      OBVIOUS
    <3>4. QED
      BY <3>2, <3>3
  <2> HIDE DEF N, f
  <2>2. IsFiniteSet(N)
    BY <1>1, FS_Surjection
  <2>3. QED
    BY <2>1, <2>2
<1>3. PICK n \in N : \A k \in N : n <= k
  BY <1>2, Least
<1>4. PICK m \in S : n = - m
  OBVIOUS
<1>5. ASSUME NEW k \in S PROVE m >= k
  <2>1. - k \in N /\ m \in Int /\ k \in Int
    OBVIOUS
  <2>2. - m <= - k
    BY <1>3, <1>4, <2>1
  <2>3. QED
    BY <2>1, <2>2
<1>6. QED
  BY <1>5

(* A factor is monotone.                                                   *)
LEMMA ProductGrows ==
  ASSUME NEW a \in Nat, NEW b \in Nat, NEW k \in Nat, a <= b
  PROVE  a * k <= b * k /\ k * a <= k * b
<1>1. PICK d \in Nat : b = a + d
  <2>1. b - a \in Nat /\ b = a + (b - a)
    OBVIOUS
  <2>2. QED
    BY <2>1
<1>2. b * k = a * k + d * k /\ d * k \in Nat /\ a * k \in Nat
  BY <1>1
<1>3. a * k <= b * k
  BY <1>2
<1>4. k * a = a * k /\ k * b = b * k
  OBVIOUS
<1>5. QED
  BY <1>3, <1>4

(* A quotient is at least q when the dividend holds the divisor q times.   *)
LEMMA QuotientAtLeast ==
  ASSUME NEW a \in Int, NEW d \in Nat, d > 0, NEW q \in Nat, q * d <= a
  PROVE  a \div d >= q
<1> DEFINE p == a \div d
<1>1. a \in Nat
  <2>1. q * d \in Nat
    OBVIOUS
  <2>2. QED
    BY <2>1
<1>2. p \in Nat /\ a < p * d + d
  <2>1. p \in Nat /\ a % d \in 0..(d - 1) /\ a = p * d + (a % d)
    BY <1>1
  <2>2. p * d \in Nat
    BY <2>1
  <2> HIDE DEF p
  <2>3. QED
    BY <2>1, <2>2
<1> HIDE DEF p
<1>3. ASSUME p < q PROVE FALSE
  <2>1. p + 1 <= q /\ p + 1 \in Nat
    BY <1>2, <1>3
  <2>2. (p + 1) * d <= q * d
    BY <2>1, ProductGrows
  <2>3. (p + 1) * d = p * d + d
    BY <1>2
  <2>4. p * d \in Nat /\ q * d \in Nat
    BY <1>2
  <2>5. QED
    BY <1>1, <1>2, <2>2, <2>3, <2>4
<1>4. QED
  BY <1>2, <1>3 DEF p

=============================================================================
