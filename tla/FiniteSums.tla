----------------------------- MODULE FiniteSums -----------------------------
(***************************************************************************)
(* Least and greatest members of finite sets of numbers, and sums over     *)
(* finite sets as the folds of the community modules define them: what     *)
(* their values are, and what bounds them.  The library's induction        *)
(* theorems take an operator as a parameter, which no prover here can      *)
(* instantiate; LeastNatural, FoldInduction and PartInduction take a set   *)
(* in its place.                                                           *)
(***************************************************************************)
EXTENDS Integers, FiniteSetsExt, FiniteSetTheorems, WellFoundedInduction, TLAPS

-----------------------------------------------------------------------------
(* Extreme members of sets of numbers.                                     *)

\* The less-than relation of the naturals.
Less == OpToRel(<, Nat)

(* It is well-founded.                                                     *)
LEMMA LessWellFounded == IsWellFoundedOn(Less, Nat)
  BY NatLessThanWellFounded DEF Less

(* Pairs of it.                                                            *)
LEMMA LessPairs == \A x, y \in Nat : <<x, y>> \in Less <=> x < y
  BY DEF Less, OpToRel

(* A set of naturals with a member has a least one.                        *)
LEMMA LeastNatural ==
    ASSUME NEW T, T \subseteq Nat, T # {}
    PROVE  \E x \in T : \A y \in T : x <= y
<1>1. \E x \in T : \A y \in T : ~(<<y, x>> \in Less)
  BY LessWellFounded, WFMin, Zenon
<1>2. PICK x \in T : \A y \in T : ~(<<y, x>> \in Less)
  BY <1>1
<1>3. ASSUME NEW y \in T PROVE x <= y
  <2>1. x \in Nat /\ y \in Nat
    OBVIOUS
  <2>2. ~(y < x)
    BY <2>1, <1>2, LessPairs
  <2> QED
    BY <2>1, <2>2
<1> QED
  BY <1>3

(* The least member of a set of instants.                                  *)
LEMMA MinMember ==
    ASSUME NEW T, T \subseteq Nat, T # {}
    PROVE  Min(T) \in T /\ \A y \in T : Min(T) <= y
  BY LeastNatural DEF Min

(* The greatest member of a set of instants.                               *)
LEMMA MaxMember ==
    ASSUME NEW b \in Nat, NEW T, T \subseteq 0..b, T # {}
    PROVE  Max(T) \in T /\ \A y \in T : y <= Max(T)
<1> DEFINE U == {n \in Nat : b - n \in T}
<1>1. U # {} /\ U \subseteq Nat
  <2>1. PICK x \in T : TRUE
    OBVIOUS
  <2>2. x \in 0..b /\ b - x \in Nat /\ b - (b - x) = x
    BY <2>1
  <2> QED
    BY <2>1, <2>2
<1>2. PICK m \in U : \A n \in U : m <= n
  <2> HIDE DEF U
  <2> QED
    BY <1>1, LeastNatural
<1>3. ASSUME NEW y \in T PROVE y <= b - m
  <2>1. y \in 0..b /\ b - y \in Nat /\ b - (b - y) = y /\ m \in Nat
    OBVIOUS
  <2>2. b - y \in U
    BY <2>1
  <2>3. m <= b - y
    BY <1>2, <2>2
  <2> HIDE DEF U
  <2> QED
    BY <2>1, <2>3
<1>4. b - m \in T /\ \A y \in T : y <= b - m
  BY <1>2, <1>3
<1>5. \E x \in T : \A y \in T : x >= y
  <2>1. \A y \in T : y \in Int
    OBVIOUS
  <2>2. b - m \in Int
    BY <1>4
  <2>3. \A y \in T : b - m >= y
    BY <1>4, <2>1, <2>2
  <2> QED
    BY <1>4, <2>3
<1>6. Max(T) \in T /\ \A y \in T : Max(T) >= y
  BY <1>5 DEF Max
<1> QED
  BY <1>6
-----------------------------------------------------------------------------
(* Finite sums.                                                            *)

(* A product grows with its factor.                                        *)
LEMMA ProductMonotone == \A x, y \in Int, k \in Nat : x <= y => x * k <= y * k
<1> TAKE x, y \in Int, k \in Nat
<1> HAVE x <= y
<1>1. (y - x) * k >= 0
  BY SMT
<1>2. (y - x) * k = y * k - x * k
  BY SMT
<1> QED
  BY <1>1, <1>2

\* The member of a set that a fold takes first.
First(T) == CHOOSE x \in T : TRUE

(* What holds of no members, and of a set when it does of the set without  *)
(* its first, holds of every finite set.                                   *)
LEMMA FoldInduction ==
    ASSUME NEW S, IsFiniteSet(S), NEW P, {} \in P,
           \A T \in SUBSET S : T # {} /\ T \ {First(T)} \in P => T \in P
    PROVE  S \in P
<1> SUFFICES ASSUME S \notin P PROVE FALSE
  OBVIOUS
<1> DEFINE Bad == {T \in SUBSET S : T \notin P}
           Sizes == {Cardinality(T) : T \in Bad}
<1>1. \A T \in SUBSET S : IsFiniteSet(T) /\ Cardinality(T) \in Nat
  BY FS_Subset, FS_CardinalityType
<1>2. Sizes \subseteq Nat /\ Sizes # {}
  BY <1>1
<1>3. PICK n \in Sizes : \A m \in Sizes : n <= m
  <2> HIDE DEF Sizes
  <2> QED
    BY <1>2, LeastNatural
<1>4. PICK T \in Bad : n = Cardinality(T)
  BY <1>3
<1>5. T \in SUBSET S /\ T \notin P /\ T # {}
  BY <1>4
<1>6. First(T) \in T
  BY <1>5 DEF First
<1>7. T \ {First(T)} \in SUBSET S /\ Cardinality(T \ {First(T)}) = Cardinality(T) - 1
  BY <1>1, <1>5, <1>6, FS_RemoveElement
<1>8. T \ {First(T)} \in Bad
  BY <1>5, <1>7
<1>9. Cardinality(T) <= Cardinality(T \ {First(T)})
  BY <1>3, <1>4, <1>8
<1> QED
  BY <1>1, <1>5, <1>7, <1>9

\* g has the sums of f over the sets in A.
Adds(g, f, A) ==
    g = [T \in A |-> IF T = {} THEN 0 ELSE f[First(T)] + g[T \ {First(T)}]]

(* There are sums over all parts of a finite set.                          *)
LEMMA SumsExist ==
    ASSUME NEW S, IsFiniteSet(S), NEW f
    PROVE  \E g : Adds(g, f, SUBSET S)
<1> DEFINE Small(n) == {T \in SUBSET S : Cardinality(T) <= n}
           Missing == {n \in Nat : ~\E g : Adds(g, f, Small(n))}
<1>1. \A T \in SUBSET S : /\ IsFiniteSet(T) /\ Cardinality(T) \in Nat
                          /\ Cardinality(T) <= Cardinality(S)
  BY FS_Subset, FS_CardinalityType
<1>2. Missing = {}
  <2> SUFFICES ASSUME Missing # {} PROVE FALSE
    OBVIOUS
  <2>1. PICK n \in Missing : \A m \in Missing : n <= m
    <3>1. Missing \subseteq Nat
      OBVIOUS
    <3> HIDE DEF Missing
    <3> QED
      BY <3>1, LeastNatural
  <2>2. n \in Nat /\ ~\E g : Adds(g, f, Small(n))
    BY <2>1
  <2>3. CASE n = 0
    <3>1. \A T \in Small(0) : T = {}
      <4> SUFFICES ASSUME NEW T \in SUBSET S, Cardinality(T) <= 0 PROVE T = {}
        OBVIOUS
      <4>1. Cardinality(T) = 0 /\ IsFiniteSet(T)
        BY <1>1
      <4> QED
        BY <4>1, FS_EmptySet
    <3>2. Adds([T \in Small(0) |-> 0], f, Small(0))
      <4> HIDE DEF Small
      <4> QED
        BY <3>1 DEF Adds
    <3> QED
      BY <2>2, <2>3, <3>2
  <2>4. CASE n # 0
    <3>1. n - 1 \in Nat /\ ~(n <= n - 1)
      BY <2>2, <2>4
    <3>2. n - 1 \notin Missing
      BY <2>1, <3>1
    <3>3. PICK g : Adds(g, f, Small(n - 1))
      BY <3>1, <3>2
    <3> DEFINE h == [T \in Small(n) |->
                       IF T = {} THEN 0 ELSE f[First(T)] + g[T \ {First(T)}]]
    <3>4. \A T \in Small(n - 1) : T \in Small(n) /\ h[T] = g[T]
      <4>1. \A T \in Small(n - 1) : T \in Small(n)
        BY <1>1, <2>2
      <4>2. \A T \in Small(n - 1) :
              g[T] = IF T = {} THEN 0 ELSE f[First(T)] + g[T \ {First(T)}]
        <5> HIDE DEF Small
        <5> QED
          BY <3>3 DEF Adds
      <4> HIDE DEF Small
      <4> QED
        BY <4>1, <4>2
    <3>5. \A T \in Small(n) : T # {} => T \ {First(T)} \in Small(n - 1)
      <4> SUFFICES ASSUME NEW T \in Small(n), T # {}
                   PROVE  T \ {First(T)} \in Small(n - 1)
        OBVIOUS
      <4>1. T \in SUBSET S /\ Cardinality(T) <= n /\ First(T) \in T
        BY DEF First
      <4>2. Cardinality(T \ {First(T)}) = Cardinality(T) - 1 /\ Cardinality(T) \in Nat
        BY <1>1, <4>1, FS_RemoveElement
      <4>3. Cardinality(T \ {First(T)}) <= n - 1
        BY <2>2, <4>1, <4>2
      <4> QED
        BY <4>1, <4>3
    <3>6. Adds(h, f, Small(n))
      <4>1. \A T \in Small(n) : T # {} => h[T \ {First(T)}] = g[T \ {First(T)}]
        BY <3>4, <3>5
      <4> HIDE DEF Small
      <4>2. h = [T \in Small(n) |-> IF T = {} THEN 0 ELSE f[First(T)] + h[T \ {First(T)}]]
        BY <4>1
      <4> HIDE DEF h
      <4> QED
        BY <4>2 DEF Adds
    <3> QED
      BY <2>2, <3>6
  <2> QED
    BY <2>3, <2>4
<1>3. Cardinality(S) \in Nat
  BY FS_CardinalityType
<1>4. \E g : Adds(g, f, Small(Cardinality(S)))
  BY <1>2, <1>3
<1>5. Small(Cardinality(S)) = SUBSET S
  BY <1>1
<1> HIDE DEF Small
<1> QED
  BY <1>4, <1>5

\* The sums of f over the parts of its domain.
Sums(f) == CHOOSE g : Adds(g, f, SUBSET DOMAIN f)

(* The library's sum is the last of them.                                  *)
LEMMA SumIsLast == \A f : SumFunction(f) = Sums(f)[DOMAIN f]
  BY DEF SumFunction, SumFunctionOnSet, FoldFunctionOnSet, MapThenFoldSet, Sums, Adds, First

(* A sum over the empty set is zero, and one over any other is the value   *)
(* of the first member and the sum over the rest.                          *)
LEMMA SumsUnfold ==
    ASSUME NEW f, IsFiniteSet(DOMAIN f)
    PROVE  /\ Sums(f)[{}] = 0
           /\ \A T \in SUBSET DOMAIN f :
                T # {} => Sums(f)[T] = f[First(T)] + Sums(f)[T \ {First(T)}]
<1>1. Adds(Sums(f), f, SUBSET DOMAIN f)
  BY SumsExist DEF Sums
<1> DEFINE g == Sums(f)
<1>2. g = [T \in SUBSET DOMAIN f |-> IF T = {} THEN 0 ELSE f[First(T)] + g[T \ {First(T)}]]
  BY <1>1 DEF Adds
<1> HIDE DEF g
<1>3. {} \in SUBSET DOMAIN f
  OBVIOUS
<1>4. g[{}] = 0
  BY <1>2, <1>3
<1>5. \A T \in SUBSET DOMAIN f : T # {} => g[T] = f[First(T)] + g[T \ {First(T)}]
  BY <1>2
<1> QED
  BY <1>4, <1>5 DEF g

(* The sum of a function whose values are integers is one.                 *)
LEMMA SumType ==
    ASSUME NEW f, IsFiniteSet(DOMAIN f), \A s \in DOMAIN f : f[s] \in Int
    PROVE  /\ SumFunction(f) \in Int
           /\ \A T \in SUBSET DOMAIN f : Sums(f)[T] \in Int
<1> DEFINE P == {T \in SUBSET DOMAIN f : Sums(f)[T] \in Int}
<1>1. {} \in P
  BY SumsUnfold
<1>2. ASSUME NEW T \in SUBSET DOMAIN f, T # {}, T \ {First(T)} \in P PROVE T \in P
  <2>1. First(T) \in DOMAIN f
    BY <1>2 DEF First
  <2>2. Sums(f)[T] = f[First(T)] + Sums(f)[T \ {First(T)}]
    BY <1>2, SumsUnfold
  <2>3. f[First(T)] \in Int /\ Sums(f)[T \ {First(T)}] \in Int
    BY <1>2, <2>1
  <2> QED
    BY <2>2, <2>3
<1>3. \A U \in SUBSET DOMAIN f : U \in P
  <2> SUFFICES ASSUME NEW U \in SUBSET DOMAIN f PROVE U \in P
    OBVIOUS
  <2>1. IsFiniteSet(U)
    BY FS_Subset
  <2>2. \A T \in SUBSET U : T # {} /\ T \ {First(T)} \in P => T \in P
    BY <1>2
  <2> HIDE DEF P
  <2> QED
    BY <1>1, <2>1, <2>2, FoldInduction
<1> QED
  BY <1>3, SumIsLast

(* What bounds the values bounds the sum.                                  *)
LEMMA SumBound ==
    ASSUME NEW f, NEW g, DOMAIN g = DOMAIN f, IsFiniteSet(DOMAIN f),
           \A s \in DOMAIN f : f[s] \in Int /\ g[s] \in Int,
           NEW w \in Int, NEW k \in Int, NEW c \in Int,
           \A s \in DOMAIN f : w * f[s] <= k * g[s] + c
    PROVE  w * SumFunction(f) <= k * SumFunction(g) + c * Cardinality(DOMAIN f)
<1> DEFINE P == {T \in SUBSET DOMAIN f :
                   w * Sums(f)[T] <= k * Sums(g)[T] + c * Cardinality(T)}
<1>1. {} \in P
  <2>1. Sums(f)[{}] = 0 /\ Sums(g)[{}] = 0 /\ Cardinality({}) = 0
    BY SumsUnfold, FS_EmptySet
  <2> QED
    BY <2>1
<1>2. ASSUME NEW T \in SUBSET DOMAIN f, T # {}, T \ {First(T)} \in P PROVE T \in P
  <2> DEFINE x == First(T)
             R == T \ {x}
  <2>1. x \in T /\ x \in DOMAIN f
    BY <1>2 DEF First
  <2>2. /\ IsFiniteSet(T) /\ Cardinality(T) \in Nat /\ Cardinality(R) \in Nat
        /\ Cardinality(T) = Cardinality(R) + 1
    <3>1. IsFiniteSet(T)
      BY FS_Subset
    <3>2. IsFiniteSet(T \ {x}) /\ Cardinality(T \ {x}) = Cardinality(T) - 1
      BY <2>1, <3>1, FS_RemoveElement
    <3>3. Cardinality(T) \in Nat /\ Cardinality(T \ {x}) \in Nat
      BY <3>1, <3>2, FS_CardinalityType
    <3> QED
      BY <3>1, <3>2, <3>3
  <2>3. /\ Sums(f)[T] = f[x] + Sums(f)[R]
        /\ Sums(g)[T] = g[x] + Sums(g)[R]
    BY <1>2, SumsUnfold
  <2>4. Sums(f)[R] \in Int /\ Sums(g)[R] \in Int
    BY SumType
  <2>5. w * Sums(f)[R] <= k * Sums(g)[R] + c * Cardinality(R)
    BY <1>2
  <2>6. f[x] \in Int /\ g[x] \in Int /\ w * f[x] <= k * g[x] + c
    BY <2>1
  <2> HIDE DEF x, R
  <2>7. \A p, q, r, t, m \in Int :
          w * p <= k * q + c /\ w * r <= k * t + c * m
            => w * (p + r) <= k * (q + t) + c * (m + 1)
    <3> TAKE p, q, r, t, m \in Int
    <3>1. /\ w * (p + r) = w * p + w * r /\ k * (q + t) = k * q + k * t
          /\ c * (m + 1) = c * m + c
          /\ w * p \in Int /\ w * r \in Int /\ k * q \in Int /\ k * t \in Int /\ c * m \in Int
      BY SMT
    <3> QED
      BY <3>1
  <2>8. w * Sums(f)[T] <= k * Sums(g)[T] + c * Cardinality(T)
    BY <2>2, <2>3, <2>4, <2>5, <2>6, <2>7
  <2> QED
    BY <2>8
<1>3. \A T \in SUBSET DOMAIN f : T # {} /\ T \ {First(T)} \in P => T \in P
  BY <1>2
<1>4. DOMAIN f \in P
  <2> HIDE DEF P
  <2> QED
    BY <1>1, <1>3, FoldInduction
<1> QED
  BY <1>4, SumIsLast

(* What one value gains the sum gains.                                     *)
LEMMA SumRaised ==
    ASSUME NEW f, IsFiniteSet(DOMAIN f), \A s \in DOMAIN f : f[s] \in Int,
           NEW x \in DOMAIN f, NEW d \in Int
    PROVE  SumFunction([f EXCEPT ![x] = @ + d]) = SumFunction(f) + d
<1> DEFINE h == [f EXCEPT ![x] = @ + d]
           P == {T \in SUBSET DOMAIN f :
                   Sums(h)[T] = Sums(f)[T] + IF x \in T THEN d ELSE 0}
<1>0. DOMAIN h = DOMAIN f /\ \A s \in DOMAIN f : h[s] = f[s] + IF s = x THEN d ELSE 0
  OBVIOUS
<1> HIDE DEF h
<1>1. {} \in P
  BY <1>0, SumsUnfold
<1>2. ASSUME NEW T \in SUBSET DOMAIN f, T # {}, T \ {First(T)} \in P PROVE T \in P
  <2> DEFINE y == First(T)
             R == T \ {y}
  <2>1. y \in T /\ y \in DOMAIN f
    BY <1>2 DEF First
  <2>2. Sums(f)[T] = f[y] + Sums(f)[R] /\ Sums(h)[T] = h[y] + Sums(h)[R]
    BY <1>0, <1>2, SumsUnfold
  <2>3. Sums(f)[R] \in Int /\ f[y] \in Int
    BY <2>1, SumType
  <2>4. Sums(h)[R] = Sums(f)[R] + IF x \in R THEN d ELSE 0
    BY <1>2
  <2>5. CASE x = y
    <3>1. x \notin R /\ x \in T
      BY <2>1, <2>5
    <3> QED
      BY <1>0, <2>1, <2>2, <2>3, <2>4, <2>5, <3>1
  <2>6. CASE x # y
    <3>1. x \in R <=> x \in T
      BY <2>6
    <3> QED
      BY <1>0, <2>1, <2>2, <2>3, <2>4, <2>6, <3>1
  <2> QED
    BY <2>5, <2>6
<1>3. \A T \in SUBSET DOMAIN f : T # {} /\ T \ {First(T)} \in P => T \in P
  BY <1>2
<1>4. DOMAIN f \in P
  <2> HIDE DEF P
  <2> QED
    BY <1>1, <1>3, FoldInduction
<1>5. SumFunction(h) = SumFunction(f) + d
  BY <1>0, <1>4, SumIsLast
<1> QED
  BY <1>5 DEF h

(* The sum of no values is zero.                                           *)
LEMMA SumEmpty ==
    ASSUME NEW f, DOMAIN f = {} PROVE SumFunction(f) = 0
<1>1. IsFiniteSet(DOMAIN f)
  BY FS_EmptySet
<1> QED
  BY <1>1, SumsUnfold, SumIsLast

(* What holds of a set when it does of all its proper parts holds of every *)
(* finite set.                                                             *)
LEMMA PartInduction ==
    ASSUME NEW S, IsFiniteSet(S), NEW P,
           \A T \in SUBSET S : (\A U \in SUBSET T : U # T => U \in P) => T \in P
    PROVE  \A T \in SUBSET S : T \in P
<1> SUFFICES ASSUME NEW V \in SUBSET S, V \notin P PROVE FALSE
  OBVIOUS
<1> DEFINE Bad == {T \in SUBSET S : T \notin P}
           Sizes == {Cardinality(T) : T \in Bad}
<1>1. \A T \in SUBSET S : IsFiniteSet(T) /\ Cardinality(T) \in Nat
  BY FS_Subset, FS_CardinalityType
<1>2. Sizes \subseteq Nat /\ Sizes # {}
  BY <1>1
<1>3. PICK n \in Sizes : \A m \in Sizes : n <= m
  <2> HIDE DEF Sizes
  <2> QED
    BY <1>2, LeastNatural
<1>4. PICK T \in Bad : n = Cardinality(T)
  BY <1>3
<1>5. ASSUME NEW U \in SUBSET T, U # T PROVE U \in P
  <2>1. Cardinality(U) < Cardinality(T)
    <3>1. /\ IsFiniteSet(T) /\ Cardinality(U) <= Cardinality(T)
          /\ Cardinality(U) = Cardinality(T) => U = T
          /\ Cardinality(U) \in Nat /\ Cardinality(T) \in Nat
      BY <1>1, <1>4, <1>5, FS_Subset
    <3> QED
      BY <1>5, <3>1
  <2>2. U \notin Bad
    BY <1>1, <1>2, <1>3, <1>4, <2>1
  <2> QED
    BY <1>4, <2>2
<1> QED
  BY <1>4, <1>5

(* A sum may begin with any of its members.                                *)
LEMMA SumWithout ==
    ASSUME NEW f, IsFiniteSet(DOMAIN f), \A s \in DOMAIN f : f[s] \in Int
    PROVE  \A T \in SUBSET DOMAIN f : \A y \in T : Sums(f)[T] = f[y] + Sums(f)[T \ {y}]
<1> DEFINE P == {T \in SUBSET DOMAIN f : \A y \in T : Sums(f)[T] = f[y] + Sums(f)[T \ {y}]}
<1>0. \A T \in SUBSET DOMAIN f : Sums(f)[T] \in Int
  BY SumType
<1>1. ASSUME NEW T \in SUBSET DOMAIN f, \A U \in SUBSET T : U # T => U \in P
      PROVE  T \in P
  <2> SUFFICES ASSUME NEW y \in T PROVE Sums(f)[T] = f[y] + Sums(f)[T \ {y}]
    OBVIOUS
  <2> DEFINE x == First(T)
  <2>1. x \in T
    BY DEF First
  <2>2. Sums(f)[T] = f[x] + Sums(f)[T \ {x}]
    BY SumsUnfold
  <2>3. CASE x = y
    BY <2>2, <2>3
  <2>4. CASE x # y
    <3> HIDE DEF x
    <3> DEFINE R == (T \ {x}) \ {y}
    <3>1. T \ {x} \in P /\ T \ {y} \in P /\ y \in T \ {x} /\ x \in T \ {y}
      BY <1>1, <2>1, <2>4
    <3>2. R = (T \ {y}) \ {x} /\ R \in SUBSET DOMAIN f
      OBVIOUS
    <3> HIDE DEF R
    <3>3. Sums(f)[T \ {x}] = f[y] + Sums(f)[R]
      BY <3>1 DEF R
    <3>4. Sums(f)[T \ {y}] = f[x] + Sums(f)[R]
      BY <3>1, <3>2
    <3>5. f[x] \in Int /\ f[y] \in Int /\ Sums(f)[R] \in Int
      BY <1>0, <2>1, <3>2
    <3> QED
      BY <2>2, <3>3, <3>4, <3>5
  <2> QED
    BY <2>3, <2>4
<1>2. \A T \in SUBSET DOMAIN f : T \in P
  <2> HIDE DEF P
  <2> QED
    BY <1>1, PartInduction
<1> QED
  BY <1>2

(* Functions with the same values have the same sums.                      *)
LEMMA SumsAgree ==
    ASSUME NEW f, NEW g, IsFiniteSet(DOMAIN f), IsFiniteSet(DOMAIN g),
           DOMAIN f \subseteq DOMAIN g, \A s \in DOMAIN f : g[s] = f[s]
    PROVE  \A T \in SUBSET DOMAIN f : Sums(g)[T] = Sums(f)[T]
<1> DEFINE P == {T \in SUBSET DOMAIN f : Sums(g)[T] = Sums(f)[T]}
<1>1. ASSUME NEW T \in SUBSET DOMAIN f, \A U \in SUBSET T : U # T => U \in P
      PROVE  T \in P
  <2>1. CASE T = {}
    BY <2>1, SumsUnfold
  <2>2. CASE T # {}
    <3> DEFINE x == First(T)
    <3>1. x \in T
      BY <2>2 DEF First
    <3>2. Sums(f)[T] = f[x] + Sums(f)[T \ {x}] /\ Sums(g)[T] = g[x] + Sums(g)[T \ {x}]
      BY <2>2, SumsUnfold
    <3>3. T \ {x} \in P /\ f[x] = g[x]
      BY <1>1, <3>1
    <3> QED
      BY <3>2, <3>3
  <2> QED
    BY <2>1, <2>2
<1>2. \A T \in SUBSET DOMAIN f : T \in P
  <2> HIDE DEF P
  <2> QED
    BY <1>1, PartInduction
<1> QED
  BY <1>2

(* What one more value adds to a sum.                                      *)
LEMMA SumExtended ==
    ASSUME NEW f, NEW g, NEW x, IsFiniteSet(DOMAIN f), x \notin DOMAIN f,
           DOMAIN g = DOMAIN f \cup {x}, \A s \in DOMAIN f : g[s] = f[s],
           \A s \in DOMAIN g : g[s] \in Int
    PROVE  SumFunction(g) = SumFunction(f) + g[x]
<1>1. IsFiniteSet(DOMAIN g) /\ (DOMAIN g) \ {x} = DOMAIN f
  BY FS_AddElement
<1>2. Sums(g)[DOMAIN g] = g[x] + Sums(g)[DOMAIN f]
  BY <1>1, SumWithout
<1>3. Sums(g)[DOMAIN f] = Sums(f)[DOMAIN f]
  BY <1>1, SumsAgree
<1>4. Sums(g)[DOMAIN f] \in Int /\ g[x] \in Int
  BY <1>1, SumType
<1> QED
  BY <1>2, <1>3, <1>4, SumIsLast

(* The sum of naturals is one.                                             *)
LEMMA SumNat ==
    ASSUME NEW f, IsFiniteSet(DOMAIN f), \A s \in DOMAIN f : f[s] \in Nat
    PROVE  SumFunction(f) \in Nat
<1> DEFINE P == {T \in SUBSET DOMAIN f : Sums(f)[T] \in Nat}
<1>1. {} \in P
  BY SumsUnfold
<1>2. ASSUME NEW T \in SUBSET DOMAIN f, T # {}, T \ {First(T)} \in P PROVE T \in P
  <2>1. First(T) \in DOMAIN f
    BY <1>2 DEF First
  <2>2. Sums(f)[T] = f[First(T)] + Sums(f)[T \ {First(T)}]
    BY <1>2, SumsUnfold
  <2>3. f[First(T)] \in Nat /\ Sums(f)[T \ {First(T)}] \in Nat
    BY <1>2, <2>1
  <2> QED
    BY <2>2, <2>3
<1>3. \A T \in SUBSET DOMAIN f : T # {} /\ T \ {First(T)} \in P => T \in P
  BY <1>2
<1>4. DOMAIN f \in P
  <2> HIDE DEF P
  <2> QED
    BY <1>1, <1>3, FoldInduction
<1> QED
  BY <1>4, SumIsLast

(* The sum of two functions' sums is that of their values' sums.           *)
LEMMA SumAdded ==
    ASSUME NEW f, NEW g, DOMAIN g = DOMAIN f, IsFiniteSet(DOMAIN f),
           \A s \in DOMAIN f : f[s] \in Int /\ g[s] \in Int
    PROVE  SumFunction([s \in DOMAIN f |-> f[s] + g[s]]) = SumFunction(f) + SumFunction(g)
<1> DEFINE h == [s \in DOMAIN f |-> f[s] + g[s]]
           P == {T \in SUBSET DOMAIN f : Sums(h)[T] = Sums(f)[T] + Sums(g)[T]}
<1>0. DOMAIN h = DOMAIN f /\ \A s \in DOMAIN f : h[s] = f[s] + g[s]
  OBVIOUS
<1> HIDE DEF h
<1>1. {} \in P
  BY <1>0, SumsUnfold
<1>2. ASSUME NEW T \in SUBSET DOMAIN f, T # {}, T \ {First(T)} \in P PROVE T \in P
  <2> DEFINE x == First(T)
             R == T \ {x}
  <2>1. x \in DOMAIN f
    BY <1>2 DEF First
  <2>2. /\ Sums(f)[T] = f[x] + Sums(f)[R] /\ Sums(g)[T] = g[x] + Sums(g)[R]
        /\ Sums(h)[T] = h[x] + Sums(h)[R]
    BY <1>0, <1>2, SumsUnfold
  <2>3. Sums(f)[R] \in Int /\ Sums(g)[R] \in Int /\ f[x] \in Int /\ g[x] \in Int
    BY <2>1, SumType
  <2>4. Sums(h)[R] = Sums(f)[R] + Sums(g)[R]
    BY <1>2
  <2> QED
    BY <1>0, <2>1, <2>2, <2>3, <2>4
<1>3. \A T \in SUBSET DOMAIN f : T # {} /\ T \ {First(T)} \in P => T \in P
  BY <1>2
<1>4. DOMAIN f \in P
  <2> HIDE DEF P
  <2> QED
    BY <1>1, <1>3, FoldInduction
<1>5. SumFunction(h) = SumFunction(f) + SumFunction(g)
  BY <1>0, <1>4, SumIsLast
<1> QED
  BY <1>5 DEF h

\* Table w has m's columns for rows.
Turned(m, w, S, T) ==
    /\ m \in [S -> [T -> Int]] /\ w \in [T -> [S -> Int]]
    /\ \A x \in S : \A y \in T : w[y][x] = m[x][y]

\* What the rows of m sum to.
RowSums(rows, m, S) == rows \in [S -> Int] /\ \A x \in S : rows[x] = SumFunction(m[x])

(* The rows of a table have the same sum as its columns.                   *)
LEMMA SumSwapped ==
    ASSUME NEW S, IsFiniteSet(S), NEW T, IsFiniteSet(T), NEW m, NEW w, Turned(m, w, S, T),
           NEW rows, RowSums(rows, m, S), NEW columns, RowSums(columns, w, T)
    PROVE  SumFunction(rows) = SumFunction(columns)
<1> DEFINE Row(x) == m[x]
           Column(y) == w[y]
           Parts(A) == [y \in T |-> Sums(Column(y))[A]]
           P == {A \in SUBSET S : Sums(rows)[A] = SumFunction(Parts(A))}
<1>0. /\ DOMAIN rows = S
      /\ \A x \in S : /\ rows[x] = SumFunction(Row(x)) /\ DOMAIN Row(x) = T
                      /\ \A y \in T : Row(x)[y] = m[x][y] /\ Row(x)[y] \in Int
      /\ \A y \in T : /\ DOMAIN Column(y) = S
                      /\ \A x \in S : Column(y)[x] = m[x][y] /\ Column(y)[x] \in Int
  BY DEF Turned, RowSums
<1> HIDE DEF Row, Column
<1>1. {} \in P
  <2> DEFINE z == [y \in T |-> 0]
  <2>1. SumFunction(z) \in Int
    BY SumType
  <2>2. SumFunction(z) = SumFunction(z) + SumFunction(z)
    <3>1. [y \in DOMAIN z |-> z[y] + z[y]] = z
      OBVIOUS
    <3>2. DOMAIN z = T /\ \A y \in T : z[y] \in Int
      OBVIOUS
    <3> HIDE DEF z
    <3> QED
      BY <3>1, <3>2, SumAdded
  <2>4. Parts({}) = z
    BY <1>0, SumsUnfold
  <2>5. Sums(rows)[{}] = 0
    BY <1>0, SumsUnfold
  <2>6. SumFunction(z) = 0
    <3>1. \A n \in Int : n = n + n => n = 0
      OBVIOUS
    <3> HIDE DEF z
    <3> QED
      BY <2>1, <2>2, <3>1
  <2>7. Sums(rows)[{}] = SumFunction(Parts({}))
    <3> HIDE DEF z, Parts
    <3> QED
      BY <2>4, <2>5, <2>6
  <2> HIDE DEF Parts
  <2> QED
    BY <2>7
<1>2. ASSUME NEW A \in SUBSET S, A # {}, A \ {First(A)} \in P PROVE A \in P
  <2> DEFINE x == First(A)
             R == A \ {x}
  <2>1. x \in S
    BY <1>2 DEF First
  <2>2. Sums(rows)[A] = rows[x] + Sums(rows)[R]
    BY <1>0, <1>2, SumsUnfold
  <2>3. Sums(rows)[R] = SumFunction(Parts(R))
    BY <1>2
  <2>4. \A y \in T : /\ Sums(Column(y))[A] = m[x][y] + Sums(Column(y))[R]
                    /\ Sums(Column(y))[R] \in Int
    <3> SUFFICES ASSUME NEW y \in T
                 PROVE  /\ Sums(Column(y))[A] = Column(y)[x] + Sums(Column(y))[R]
                        /\ Sums(Column(y))[R] \in Int
      BY <1>0, <2>1
    <3>1. IsFiniteSet(DOMAIN Column(y)) /\ A \in SUBSET DOMAIN Column(y)
      BY <1>0
    <3> QED
      BY <1>0, <1>2, <3>1, SumsUnfold, SumType
  <2>5. SumFunction([y \in T |-> Row(x)[y] + Parts(R)[y]])
          = SumFunction(Row(x)) + SumFunction(Parts(R))
    <3> DEFINE r == Row(x)
               p == Parts(R)
    <3>1. DOMAIN r = T /\ DOMAIN p = T /\ \A y \in T : r[y] \in Int /\ p[y] \in Int
      BY <1>0, <2>1, <2>4
    <3> HIDE DEF r, p
    <3>2. SumFunction([y \in DOMAIN r |-> r[y] + p[y]]) = SumFunction(r) + SumFunction(p)
      BY <3>1, SumAdded
    <3> QED
      BY <3>1, <3>2 DEF r, p
  <2>6. Parts(A) = [y \in T |-> Row(x)[y] + Parts(R)[y]]
    BY <1>0, <2>1, <2>4
  <2> HIDE DEF Parts
  <2> QED
    BY <1>0, <2>1, <2>2, <2>3, <2>5, <2>6
<1>3. \A A \in SUBSET S : A # {} /\ A \ {First(A)} \in P => A \in P
  BY <1>2
<1>4. S \in P
  <2> HIDE DEF P
  <2> QED
    BY <1>1, <1>3, FoldInduction
<1>5. SumFunction(rows) = SumFunction(Parts(S))
  BY <1>0, <1>4, SumIsLast
<1>6. Parts(S) = columns
  <2>1. \A y \in T : columns[y] = Sums(Column(y))[S]
    BY <1>0, SumIsLast DEF Column, RowSums
  <2> QED
    BY <2>1 DEF RowSums
<1> HIDE DEF Parts
<1> QED
  BY <1>5, <1>6

(* Of finite sets that are disjoint the union has the members of both.     *)
LEMMA DisjointUnion ==
    ASSUME NEW S, IsFiniteSet(S), NEW T, IsFiniteSet(T), S \cap T = {}
    PROVE  /\ IsFiniteSet(S \cup T) /\ Cardinality(S \cup T) \in Nat
           /\ Cardinality(S) \in Nat /\ Cardinality(T) \in Nat
           /\ Cardinality(S \cup T) = Cardinality(S) + Cardinality(T)
<1>1. IsFiniteSet(S \cup T)
  BY FS_Union
<1>2. Cardinality(S \cup T) = Cardinality(S) + Cardinality(T) - Cardinality(S \cap T)
  BY FS_Union
<1>3. Cardinality(S \cap T) = 0
  BY FS_EmptySet
<1>4. /\ Cardinality(S \cup T) \in Nat /\ Cardinality(S) \in Nat /\ Cardinality(T) \in Nat
  BY <1>1, FS_CardinalityType
<1> QED
  BY <1>1, <1>2, <1>3, <1>4

(* If every value counts members of a set of its own at most, the sum      *)
(* counts those of their union at most.                                    *)
LEMMA SumDisjoint ==
    ASSUME NEW f, IsFiniteSet(DOMAIN f), NEW X,
           \A s \in DOMAIN f : /\ f[s] \in Int /\ IsFiniteSet(X[s])
                               /\ f[s] <= Cardinality(X[s]),
           \A s, t \in DOMAIN f : s # t => X[s] \cap X[t] = {}
    PROVE  /\ IsFiniteSet(UNION {X[s] : s \in DOMAIN f})
           /\ SumFunction(f) <= Cardinality(UNION {X[s] : s \in DOMAIN f})
<1> DEFINE Of(T) == UNION {X[s] : s \in T}
           P == {T \in SUBSET DOMAIN f : /\ IsFiniteSet(Of(T))
                                         /\ Sums(f)[T] <= Cardinality(Of(T))}
<1>1. {} \in P
  <2>1. Of({}) = {}
    OBVIOUS
  <2>2. Sums(f)[{}] = 0 /\ IsFiniteSet({}) /\ Cardinality({}) = 0
    BY SumsUnfold, FS_EmptySet
  <2> HIDE DEF Of
  <2> QED
    BY <2>1, <2>2
<1>2. ASSUME NEW T \in SUBSET DOMAIN f, T # {}, T \ {First(T)} \in P PROVE T \in P
  <2> DEFINE x == First(T)
             R == T \ {x}
  <2>1. x \in T /\ x \in DOMAIN f
    BY <1>2 DEF First
  <2>2. Of(T) = Of(R) \cup X[x] /\ Of(R) \cap X[x] = {}
    BY <2>1
  <2>3. Sums(f)[T] = f[x] + Sums(f)[R] /\ Sums(f)[R] \in Int
    BY <1>2, SumsUnfold, SumType
  <2>4. IsFiniteSet(Of(R)) /\ Sums(f)[R] <= Cardinality(Of(R))
    BY <1>2
  <2>5. f[x] \in Int /\ IsFiniteSet(X[x]) /\ f[x] <= Cardinality(X[x])
    BY <2>1
  <2> HIDE DEF Of, x, R
  <2>6. /\ IsFiniteSet(Of(T)) /\ Cardinality(Of(T)) = Cardinality(Of(R)) + Cardinality(X[x])
        /\ Cardinality(Of(R)) \in Nat /\ Cardinality(X[x]) \in Nat
    <3>1. IsFiniteSet(Of(R)) /\ IsFiniteSet(X[x]) /\ Of(R) \cap X[x] = {}
      BY <2>2, <2>4, <2>5
    <3>2. /\ IsFiniteSet(Of(R) \cup X[x])
          /\ Cardinality(Of(R) \cup X[x]) = Cardinality(Of(R)) + Cardinality(X[x])
          /\ Cardinality(Of(R)) \in Nat /\ Cardinality(X[x]) \in Nat
      BY <3>1, DisjointUnion
    <3> QED
      BY <2>2, <3>2
  <2>7. Sums(f)[T] <= Cardinality(Of(T))
    BY <2>3, <2>4, <2>5, <2>6
  <2> QED
    BY <2>6, <2>7
<1>3. \A T \in SUBSET DOMAIN f : T # {} /\ T \ {First(T)} \in P => T \in P
  BY <1>2
<1>4. DOMAIN f \in P
  <2> HIDE DEF P
  <2> QED
    BY <1>1, <1>3, FoldInduction
<1> QED
  BY <1>4, SumIsLast

(* So it counts members of any finite set that has them all.               *)
LEMMA SumWithin ==
    ASSUME NEW f, IsFiniteSet(DOMAIN f), NEW X, NEW U, IsFiniteSet(U),
           \A s \in DOMAIN f : /\ f[s] \in Int /\ X[s] \subseteq U
                               /\ f[s] <= Cardinality(X[s]),
           \A s, t \in DOMAIN f : s # t => X[s] \cap X[t] = {}
    PROVE  SumFunction(f) \in Int /\ SumFunction(f) <= Cardinality(U)
<1> DEFINE all == UNION {X[s] : s \in DOMAIN f}
<1>1. SumFunction(f) \in Int
  BY SumType
<1>2. \A s \in DOMAIN f : IsFiniteSet(X[s])
  BY FS_Subset
<1>3. SumFunction(f) <= Cardinality(all)
  BY <1>2, SumDisjoint
<1>4. all \subseteq U
  OBVIOUS
<1> HIDE DEF all
<1>5. Cardinality(all) <= Cardinality(U) /\ Cardinality(all) \in Nat /\ Cardinality(U) \in Nat
  BY <1>4, FS_Subset, FS_CardinalityType
<1> QED
  BY <1>1, <1>3, <1>5
=============================================================================
