-------------------------------- MODULE Sums --------------------------------
(***************************************************************************)
(* Sums over finite sets, as the modules take them with MapThenSumSet: the *)
(* balances, stocks and totals of the code are sums of rows.  A sum does   *)
(* not depend on the order it is taken in, so that one more row adds its   *)
(* own amount and one row that changes adds its change.                    *)
(*                                                                         *)
(* Induction over a set is stated for a set of subsets, not for a          *)
(* predicate.                                                              *)
(***************************************************************************)
EXTENDS Integers, FiniteSets, FiniteSetsExt, FiniteSetTheorems,
        WellFoundedInduction, TLAPS

One(s) == CHOOSE x \in s : TRUE

\* g maps every subset of S to the sum of f over it, one element after another.
Adds(S, f, g) ==
    g = [s \in SUBSET S |-> IF s = {} THEN 0 ELSE f[One(s)] + g[s \ {One(s)}]]

SumOver(S, f) == (CHOOSE g : Adds(S, f, g))[S]

-----------------------------------------------------------------------------
(* Induction.                                                               *)

LEMMA NatSteps ==
    ASSUME NEW P, 0 \in P, \A n \in Nat : n \in P => n + 1 \in P
    PROVE  Nat \subseteq P
  <1> SUFFICES ASSUME ~ (Nat \subseteq P) PROVE FALSE
    OBVIOUS
  <1> DEFINE T == Nat \ P
  <1>1. T # {} /\ T \subseteq Nat
    OBVIOUS
  <1>2. PICK x \in T : \A y \in T : <<y, x>> \notin OpToRel(<, Nat)
    BY <1>1, NatLessThanWellFounded, WFMin
  <1>3. \A y \in T : ~ (y < x)
    BY <1>1, <1>2 DEF OpToRel
  <1>4. x # 0 /\ x \in Nat /\ x - 1 \in Nat /\ x - 1 < x
    OBVIOUS
  <1>5. x - 1 \in P
    BY <1>3, <1>4
  <1> QED BY <1>4, <1>5

LEMMA OneLess ==
    ASSUME NEW S, IsFiniteSet(S), NEW x \in S, NEW n \in Nat, Cardinality(S) = n + 1
    PROVE  Cardinality(S \ {x}) = n /\ IsFiniteSet(S \ {x})
  <1>1. Cardinality(S \ {x}) = Cardinality(S) - 1 /\ IsFiniteSet(S \ {x})
    BY FS_RemoveElement
  <1> QED BY <1>1

LEMMA NoneLeft ==
    ASSUME NEW S, IsFiniteSet(S)
    PROVE  \A s \in SUBSET S : /\ IsFiniteSet(s) /\ Cardinality(s) \in Nat
                               /\ Cardinality(s) = 0 <=> s = {}
  BY FS_Subset, FS_CardinalityType, FS_EmptySet

\* What holds of the empty set and of one element more holds of the whole set.
LEMMA SetSteps ==
    ASSUME NEW S, IsFiniteSet(S), NEW P, {} \in P,
           \A T \in SUBSET S : \A x \in S \ T : T \in P => T \cup {x} \in P
    PROVE  S \in P
  <1> DEFINE Q == {n \in Nat : \A T \in SUBSET S : Cardinality(T) = n => T \in P}
  <1>1. 0 \in Q
    <2>1. \A T \in SUBSET S : Cardinality(T) = 0 => T = {}
      BY NoneLeft
    <2> QED BY <2>1
  <1>2. ASSUME NEW n \in Nat, n \in Q PROVE n + 1 \in Q
    <2> SUFFICES ASSUME NEW T \in SUBSET S, Cardinality(T) = n + 1 PROVE T \in P
      OBVIOUS
    <2>1. IsFiniteSet(T) /\ T # {}
      BY NoneLeft
    <2>2. PICK x \in T : TRUE
      BY <2>1
    <2>3. Cardinality(T \ {x}) = n
      BY <2>1, OneLess
    <2>4. T \ {x} \in P
      BY <1>2, <2>3
    <2>5. (T \ {x}) \cup {x} = T /\ x \in S \ (T \ {x}) /\ T \ {x} \in SUBSET S
      BY <2>2
    <2> QED BY <2>4, <2>5
  <1>3. Nat \subseteq Q
    BY <1>1, <1>2, NatSteps
  <1>4. Cardinality(S) \in Nat
    BY FS_CardinalityType
  <1> QED BY <1>3, <1>4

-----------------------------------------------------------------------------
(* The sums of a finite set exist, and there is one for every subset.       *)

LEMMA OneIn == ASSUME NEW s, s # {} PROVE One(s) \in s
  BY DEF One

Small(S, n) == {s \in SUBSET S : Cardinality(s) <= n}
NextSum(f, g, s) == IF s = {} THEN 0 ELSE f[One(s)] + g[s \ {One(s)}]
AddsUpTo(S, n, f, g) == g = [s \in Small(S, n) |-> NextSum(f, g, s)]

LEMMA AddsOneMore ==
    ASSUME NEW S, IsFiniteSet(S), NEW f, NEW n \in Nat, NEW g, AddsUpTo(S, n, f, g)
    PROVE  \E k : AddsUpTo(S, n + 1, f, k)
  <1> DEFINE k == [s \in Small(S, n + 1) |-> NextSum(f, g, s)]
  <1>1. \A s \in Small(S, n) : s \in Small(S, n + 1)
    BY NoneLeft DEF Small
  <1>2. \A s \in Small(S, n) : g[s] = NextSum(f, g, s)
    BY DEF AddsUpTo
  <1>3. \A s \in Small(S, n) : k[s] = g[s]
    BY <1>1, <1>2
  <1>4. \A s \in Small(S, n + 1) : k[s] = NextSum(f, g, s)
    OBVIOUS
  <1>5. k = [s \in Small(S, n + 1) |-> k[s]]
    OBVIOUS
  <1> HIDE DEF k
  <1>6. ASSUME NEW s \in Small(S, n + 1) PROVE k[s] = NextSum(f, k, s)
    <2>1. CASE s = {}
      BY <1>4, <2>1 DEF NextSum
    <2>2. CASE s # {}
      <3>1. PICK x \in s : x = One(s)
        BY <2>2, OneIn
      <3>2. IsFiniteSet(s) /\ s \in SUBSET S /\ Cardinality(s) <= n + 1
        BY NoneLeft DEF Small
      <3>3. Cardinality(s \ {x}) = Cardinality(s) - 1
        BY <3>2, FS_RemoveElement
      <3>4. Cardinality(s) \in Nat
        BY <3>2, NoneLeft
      <3>5. s \ {x} \in Small(S, n)
        BY <3>2, <3>3, <3>4 DEF Small
      <3>6. k[s \ {x}] = g[s \ {x}]
        BY <1>3, <3>5
      <3> QED BY <1>4, <3>1, <3>6, <2>2 DEF NextSum
    <2> QED BY <2>1, <2>2
  <1>7. k = [s \in Small(S, n + 1) |-> NextSum(f, k, s)]
    BY <1>5, <1>6
  <1> QED BY <1>7 DEF AddsUpTo

LEMMA AddsExist ==
    ASSUME NEW S, IsFiniteSet(S), NEW f
    PROVE  \E g : Adds(S, f, g)
  <1> DEFINE Q == {n \in Nat : \E g : AddsUpTo(S, n, f, g)}
  <1>1. 0 \in Q
    <2> DEFINE g == [s \in {{}} |-> 0]
    <2>1. Small(S, 0) = {{}}
      BY NoneLeft DEF Small
    <2>2. NextSum(f, g, {}) = 0
      BY DEF NextSum
    <2>3. AddsUpTo(S, 0, f, g)
      BY <2>1, <2>2 DEF AddsUpTo
    <2> QED BY <2>3
  <1>2. \A n \in Nat : n \in Q => n + 1 \in Q
    BY AddsOneMore
  <1>3. Cardinality(S) \in Q
    <2> HIDE DEF Q
    <2> QED BY <1>1, <1>2, NatSteps, NoneLeft
  <1>4. PICK g : AddsUpTo(S, Cardinality(S), f, g)
    BY <1>3
  <1>5. Small(S, Cardinality(S)) = SUBSET S
    BY FS_Subset DEF Small
  <1>6. Adds(S, f, g)
    BY <1>4, <1>5 DEF AddsUpTo, NextSum, Adds
  <1> QED BY <1>6

\* Two sums that add the same amounts agree, whatever sets they are taken from.
LEMMA AddsAgree ==
    ASSUME NEW S, NEW f, NEW g, Adds(S, f, g),
           NEW T, NEW h, NEW k, Adds(T, h, k),
           NEW U, IsFiniteSet(U), U \subseteq S, U \subseteq T,
           \A x \in U : f[x] = h[x]
    PROVE  g[U] = k[U]
  <1> DEFINE Q == {n \in Nat : \A s \in SUBSET U : Cardinality(s) = n => g[s] = k[s]}
  <1>1. ASSUME NEW s \in SUBSET U
        PROVE  /\ g[s] = IF s = {} THEN 0 ELSE f[One(s)] + g[s \ {One(s)}]
               /\ k[s] = IF s = {} THEN 0 ELSE h[One(s)] + k[s \ {One(s)}]
    BY DEF Adds
  <1>2. 0 \in Q
    <2>1. \A s \in SUBSET U : Cardinality(s) = 0 => s = {}
      BY NoneLeft
    <2>2. g[{}] = 0 /\ k[{}] = 0
      BY <1>1
    <2> QED BY <2>1, <2>2
  <1>3. ASSUME NEW n \in Nat, n \in Q PROVE n + 1 \in Q
    <2> SUFFICES ASSUME NEW s \in SUBSET U, Cardinality(s) = n + 1 PROVE g[s] = k[s]
      OBVIOUS
    <2>1. IsFiniteSet(s) /\ s # {}
      BY NoneLeft
    <2>2. One(s) \in s
      BY <2>1, OneIn
    <2>3. Cardinality(s \ {One(s)}) = n
      BY <2>1, <2>2, OneLess
    <2>4. g[s \ {One(s)}] = k[s \ {One(s)}] /\ f[One(s)] = h[One(s)]
      BY <1>3, <2>2, <2>3
    <2> QED BY <1>1, <2>1, <2>4
  <1>4. Nat \subseteq Q
    <2> HIDE DEF Q
    <2> QED BY <1>2, <1>3, NatSteps
  <1>5. Cardinality(U) \in Nat
    BY FS_CardinalityType
  <1> QED BY <1>4, <1>5

\* A sum of integers is an integer.
LEMMA AddsInt ==
    ASSUME NEW S, IsFiniteSet(S), NEW f, NEW g, Adds(S, f, g), \A x \in S : f[x] \in Int
    PROVE  \A s \in SUBSET S : g[s] \in Int
  <1> DEFINE Q == {n \in Nat : \A s \in SUBSET S : Cardinality(s) = n => g[s] \in Int}
  <1>1. \A s \in SUBSET S :
           g[s] = IF s = {} THEN 0 ELSE f[One(s)] + g[s \ {One(s)}]
    BY DEF Adds
  <1>2. 0 \in Q
    <2>1. \A s \in SUBSET S : Cardinality(s) = 0 => s = {}
      BY NoneLeft
    <2>2. g[{}] = 0
      BY <1>1
    <2>3. \A s \in SUBSET S : Cardinality(s) = 0 => g[s] \in Int
      BY <2>1, <2>2
    <2> QED BY <2>3
  <1>3. ASSUME NEW n \in Nat, n \in Q PROVE n + 1 \in Q
    <2> SUFFICES ASSUME NEW s \in SUBSET S, Cardinality(s) = n + 1 PROVE g[s] \in Int
      OBVIOUS
    <2>1. IsFiniteSet(s) /\ s # {}
      BY NoneLeft
    <2>2. PICK y \in s : y = One(s)
      BY <2>1, OneIn
    <2>3. Cardinality(s \ {y}) = n
      BY <2>1, OneLess
    <2>4. g[s \ {y}] \in Int /\ f[y] \in Int
      BY <1>3, <2>3
    <2>5. g[s] = f[y] + g[s \ {y}]
      BY <1>1, <2>1, <2>2
    <2> QED BY <2>4, <2>5
  <1>4. Nat \subseteq Q
    <2> HIDE DEF Q
    <2> QED BY <1>2, <1>3, NatSteps
  <1> QED BY <1>4, NoneLeft

\* Every element may be the one that is added last.
LEMMA AddsTake ==
    ASSUME NEW S, IsFiniteSet(S), NEW f, NEW g, Adds(S, f, g), \A x \in S : f[x] \in Int
    PROVE  \A s \in SUBSET S : \A x \in s : g[s] = f[x] + g[s \ {x}]
  <1> DEFINE Good(s) == \A x \in s : g[s] = f[x] + g[s \ {x}]
             Q == {n \in Nat : \A s \in SUBSET S : Cardinality(s) = n => Good(s)}
  <1>1. \A s \in SUBSET S :
           g[s] = IF s = {} THEN 0 ELSE f[One(s)] + g[s \ {One(s)}]
    BY DEF Adds
  <1>2. 0 \in Q
    <2>1. \A s \in SUBSET S : Cardinality(s) = 0 => s = {}
      BY NoneLeft
    <2> QED BY <2>1
  <1>3. ASSUME NEW n \in Nat, n \in Q PROVE n + 1 \in Q
    <2> SUFFICES ASSUME NEW s \in SUBSET S, Cardinality(s) = n + 1, NEW x \in s
                 PROVE  g[s] = f[x] + g[s \ {x}]
      OBVIOUS
    <2>1. IsFiniteSet(s) /\ s # {}
      BY NoneLeft
    <2>2. PICK y \in s : y = One(s)
      BY <2>1, OneIn
    <2>3. g[s] = f[y] + g[s \ {y}]
      BY <1>1, <2>1, <2>2
    <2>4. CASE x = y
      BY <2>3, <2>4
    <2>5. CASE x # y
      <3>1. Cardinality(s \ {x}) = n /\ Cardinality(s \ {y}) = n
        BY <2>1, OneLess
      <3>2. Good(s \ {x}) /\ Good(s \ {y})
        BY <1>3, <3>1
      <3>3. g[s \ {y}] = f[x] + g[(s \ {y}) \ {x}]
        BY <2>5, <3>2
      <3>4. g[s \ {x}] = f[y] + g[(s \ {x}) \ {y}]
        BY <2>5, <3>2
      <3>5. PICK t \in SUBSET S : t = (s \ {x}) \ {y} /\ t = (s \ {y}) \ {x}
        OBVIOUS
      <3>6. g[t] \in Int /\ f[x] \in Int /\ f[y] \in Int
        BY AddsInt
      <3>7. g[s \ {y}] = f[x] + g[t] /\ g[s \ {x}] = f[y] + g[t]
        BY <3>3, <3>4, <3>5
      <3>8. g[s] = f[y] + (f[x] + g[t])
        BY <2>3, <3>7
      <3> QED BY <3>6, <3>7, <3>8
    <2> QED BY <2>4, <2>5
  <1>4. Nat \subseteq Q
    <2> HIDE DEF Q
    <2> QED BY <1>2, <1>3, NatSteps
  <1> QED BY <1>4, NoneLeft

-----------------------------------------------------------------------------
(* Sums.                                                                    *)

\* Whatever adds the amounts of f, from whatever set, adds up to the sum.
LEMMA SumIs ==
    ASSUME NEW S, IsFiniteSet(S), NEW f, NEW T, S \subseteq T, NEW h, NEW k, Adds(T, h, k),
           \A x \in S : f[x] = h[x]
    PROVE  SumOver(S, f) = k[S]
  <1> DEFINE g == CHOOSE g : Adds(S, f, g)
  <1>1. Adds(S, f, g)
    BY AddsExist
  <1>2. SumOver(S, f) = g[S]
    BY DEF SumOver
  <1> HIDE DEF g
  <1>3. g[S] = k[S]
    BY <1>1, AddsAgree
  <1> QED BY <1>2, <1>3

LEMMA SumInt ==
    ASSUME NEW S, IsFiniteSet(S), NEW f, \A x \in S : f[x] \in Int
    PROVE  SumOver(S, f) \in Int
  <1>1. PICK g : Adds(S, f, g)
    BY AddsExist
  <1>2. SumOver(S, f) = g[S]
    BY <1>1, SumIs
  <1>3. S \in SUBSET S
    OBVIOUS
  <1> QED BY <1>1, <1>2, <1>3, AddsInt

LEMMA SumEmpty == ASSUME NEW f PROVE SumOver({}, f) = 0
  <1>1. IsFiniteSet({})
    BY FS_EmptySet
  <1>2. PICK g : Adds({}, f, g)
    BY <1>1, AddsExist
  <1>3. SumOver({}, f) = g[{}]
    BY <1>1, <1>2, SumIs
  <1>4. g[{}] = 0
    BY <1>2 DEF Adds
  <1> QED BY <1>3, <1>4

\* One element more adds its amount.
LEMMA SumTake ==
    ASSUME NEW S, IsFiniteSet(S), NEW f, \A x \in S : f[x] \in Int, NEW x \in S
    PROVE  SumOver(S, f) = f[x] + SumOver(S \ {x}, f)
  <1>1. PICK g : Adds(S, f, g)
    BY AddsExist
  <1>2. SumOver(S, f) = g[S]
    BY <1>1, SumIs
  <1>3. PICK R \in SUBSET S : R = S \ {x}
    OBVIOUS
  <1>4. IsFiniteSet(R)
    BY NoneLeft
  <1>5. SumOver(R, f) = g[R]
    BY <1>1, <1>4, SumIs
  <1>6. S \in SUBSET S
    OBVIOUS
  <1>7. g[S] = f[x] + g[S \ {x}]
    BY <1>1, <1>6, AddsTake
  <1> QED BY <1>2, <1>3, <1>5, <1>7

LEMMA SumSame ==
    ASSUME NEW S, IsFiniteSet(S), NEW f, NEW h, \A x \in S : f[x] = h[x]
    PROVE  SumOver(S, f) = SumOver(S, h)
  <1>1. PICK k : Adds(S, h, k)
    BY AddsExist
  <1>2. SumOver(S, f) = k[S]
    BY <1>1, SumIs
  <1>3. SumOver(S, h) = k[S]
    BY <1>1, SumIs
  <1> QED BY <1>2, <1>3

\* One amount that changes changes the sum by as much.
LEMMA SumChange ==
    ASSUME NEW S, IsFiniteSet(S), NEW f, \A x \in S : f[x] \in Int,
           NEW h, \A x \in S : h[x] \in Int,
           NEW x \in S, \A y \in S \ {x} : f[y] = h[y]
    PROVE  SumOver(S, h) = SumOver(S, f) + h[x] - f[x]
  <1>1. PICK R \in SUBSET S : R = S \ {x}
    OBVIOUS
  <1>2. IsFiniteSet(R)
    BY NoneLeft
  <1>3. \A y \in R : f[y] = h[y]
    BY <1>1
  <1>4. SumOver(R, f) = SumOver(R, h)
    BY <1>2, <1>3, SumSame
  <1>5. SumOver(R, f) \in Int
    <2>1. \A y \in R : f[y] \in Int
      OBVIOUS
    <2> QED BY <1>2, <2>1, SumInt
  <1>6. SumOver(S, f) = f[x] + SumOver(R, f)
    BY <1>1, SumTake
  <1>7. SumOver(S, h) = h[x] + SumOver(R, h)
    BY <1>1, SumTake
  <1>8. f[x] \in Int /\ h[x] \in Int
    OBVIOUS
  <1> QED BY <1>4, <1>5, <1>6, <1>7, <1>8

\* Elements without an amount do not count.
LEMMA SumPart ==
    ASSUME NEW S, IsFiniteSet(S), NEW T \in SUBSET S, NEW f, \A x \in S : f[x] \in Int,
           \A x \in S \ T : f[x] = 0
    PROVE  SumOver(S, f) = SumOver(T, f)
  <1> DEFINE N == S \ T
             P == {U \in SUBSET N : SumOver(T \cup U, f) = SumOver(T, f)}
  <1>1. IsFiniteSet(N)
    BY NoneLeft
  <1>2. {} \in P
    <2>1. T \cup {} = T
      OBVIOUS
    <2> QED BY <2>1
  <1>3. ASSUME NEW U \in SUBSET N, NEW x \in N \ U, U \in P PROVE U \cup {x} \in P
    <2>1. PICK V \in SUBSET S : V = T \cup (U \cup {x})
      OBVIOUS
    <2>2. x \in V /\ V \ {x} = T \cup U
      BY <2>1
    <2>3. IsFiniteSet(V) /\ \A y \in V : f[y] \in Int
      BY NoneLeft
    <2>4. SumOver(V, f) = f[x] + SumOver(V \ {x}, f)
      BY <2>2, <2>3, SumTake
    <2>5. f[x] = 0
      OBVIOUS
    <2>6. SumOver(V \ {x}, f) \in Int
      <3>1. PICK R \in SUBSET S : R = V \ {x}
        OBVIOUS
      <3>2. IsFiniteSet(R) /\ \A y \in R : f[y] \in Int
        BY NoneLeft
      <3> QED BY <3>1, <3>2, SumInt
    <2>7. SumOver(V \ {x}, f) = SumOver(T, f)
      BY <1>3, <2>2
    <2>8. SumOver(V, f) = SumOver(T, f)
      <3> HIDE DEF P
      <3> QED BY <2>4, <2>5, <2>6, <2>7
    <2> QED BY <1>3, <2>1, <2>8
  <1>4. N \in P
    <2> HIDE DEF P, N
    <2> QED BY <1>1, <1>2, <1>3, SetSteps
  <1>5. T \cup N = S
    OBVIOUS
  <1> QED BY <1>4, <1>5
LEMMA SumZero ==
    ASSUME NEW S, IsFiniteSet(S), NEW f, \A x \in S : f[x] = 0
    PROVE  SumOver(S, f) = 0
  <1>1. /\ {} \in SUBSET S
        /\ \A x \in S \ {} : f[x] = 0
        /\ \A x \in S : f[x] \in Int
    OBVIOUS
  <1>2. SumOver(S, f) = SumOver({}, f)
    BY <1>1, SumPart
  <1> QED BY <1>2, SumEmpty
=============================================================================
