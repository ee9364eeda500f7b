---------------------------- MODULE MoneyProofs ----------------------------
(***************************************************************************)
(* Facts about money that the proofs of several components need: what the  *)
(* fee schedule leaves of every amount, and what sums over finite sets do  *)
(* when one summand changes, comes or goes.                                *)
(*                                                                         *)
(* The sums are folds, recursive functions.  What holds of them is shown   *)
(* by looking at a smallest set of which it does not hold: that the strict *)
(* subsets of a finite set are well founded is a fact about sets, while    *)
(* the theorems about induction would need a predicate as an argument.     *)
(***************************************************************************)
EXTENDS FeeSchedule, Functions, FiniteSetTheorems, TLAPS


\* The fee of an amount of at least $1 is at least half a dollar and at most
\* half the amount, and it is a whole number of ten-thousandths.
LEMMA FeeBounds ==
  ASSUME NEW a \in Nat
  PROVE  /\ TieredFee(a) \in Nat
         /\ calculatePlatformFee(a) \in Nat
         /\ calculatePlatformFee(a) >= MIN_FEE
         /\ a >= 1 => calculatePlatformFee(a) <= 5000 * a
<1>1. TieredFee(a) \in Nat /\ TieredFee(a) <= 800 * a
  BY DEF TieredFee, Between
<1>2. CASE TieredFee(a) < MIN_FEE
  BY <1>1, <1>2 DEF calculatePlatformFee, MIN_FEE
<1>3. CASE ~(TieredFee(a) < MIN_FEE)
  BY <1>1, <1>3 DEF calculatePlatformFee, MIN_FEE
<1>4. QED
  BY <1>2, <1>3, <1>1

\* The prize of a wager with a legal amount is at least what its winner was
\* debited and at most what its two players were debited together.
THEOREM PrizeBounds ==
  ASSUME NEW a \in Nat, a >= 2
  PROVE  /\ Prize(a) \in Nat
         /\ StakeDebit(a) <= Prize(a)
         /\ Prize(a) <= 2 * StakeDebit(a)
<1> DEFINE fee == calculatePlatformFee(a)
<1>1. fee \in Nat /\ 5000 <= fee /\ fee <= 5000 * a
  BY FeeBounds DEF MIN_FEE
<1> HIDE DEF fee
<1>2. /\ (10000 * a - fee) \div 10000 \in Int
      /\ a \div 2 <= (10000 * a - fee) \div 10000
      /\ (10000 * a - fee) \div 10000 <= a - 1
  BY <1>1
<1>3. a - 1 <= 2 * (a \div 2) /\ a \div 2 \in Nat
  OBVIOUS
<1>4. Prize(a) = (10000 * a - fee) \div 10000
  BY DEF Prize, UnitsPerDollar, fee
<1>5. QED
  BY <1>2, <1>3, <1>4 DEF StakeDebit

-----------------------------------------------------------------------------
(* Sums *)

\* The element that the fold takes first.
Taken(S) == CHOOSE x \in S : TRUE

\* The recursive function by which the fold is defined.
IsSum(g, f, S) ==
  g = [s \in SUBSET S |-> IF s = {} THEN 0 ELSE f[Taken(s)] + g[s \ {Taken(s)}]]

SumFcn(f, S) == CHOOSE g : IsSum(g, f, S)

LEMMA SumIs ==
  ASSUME NEW f, NEW S
  PROVE  SumFunctionOnSet(f, S) = SumFcn(f, S)[S]
BY DEF SumFunctionOnSet, FoldFunctionOnSet, MapThenFoldSet, SumFcn, IsSum, Taken

\* A set of finite sets, if it is not empty, has a smallest one: induction over
\* finite sets in a form that needs no operator.
LEMMA SmallestSet ==
  ASSUME NEW S, IsFiniteSet(S), NEW B \in SUBSET (SUBSET S), B # {}
  PROVE  \E T \in B : \A U \in B : U \subseteq T => U = T
<1>1. IsWellFoundedOn(StrictSubsetOrdering(S), SUBSET S)
  BY FS_StrictSubsetOrderingWellFounded, FS_FiniteSubsetsOfFinite
<1>2. PICK T \in B : \A U \in B : ~(<<U, T>> \in StrictSubsetOrdering(S))
  BY <1>1, WFMin
<1>3. \A U \in B : U \subseteq T => U = T
  BY <1>2 DEF StrictSubsetOrdering
<1> QED BY <1>3

\* One step of the recursion.
LEMMA SumStep ==
  ASSUME NEW f, NEW S, NEW g, IsSum(g, f, S), NEW T \in SUBSET S, T # {}
  PROVE  g[T] = f[Taken(T)] + g[T \ {Taken(T)}] /\ Taken(T) \in T
BY DEF IsSum, Taken

\* There is one such function, however large the set it is defined for.
LEMMA SumUnique ==
  ASSUME NEW f, NEW S, IsFiniteSet(S), NEW R, S \subseteq R,
         NEW g, IsSum(g, f, S), NEW h, IsSum(h, f, R),
         NEW T \in SUBSET S
  PROVE  g[T] = h[T]
<1> DEFINE B == {U \in SUBSET S : g[U] # h[U]}
<1>1. SUFFICES ASSUME B # {} PROVE FALSE
  OBVIOUS
<1>2. PICK U \in B : \A V \in B : V \subseteq U => V = U
  <2>1. B \in SUBSET (SUBSET S)
    OBVIOUS
  <2> HIDE DEF B
  <2> QED BY <1>1, <2>1, SmallestSet
<1>3. U # {}
  <2>1. g[{}] = 0 /\ h[{}] = 0
    BY DEF IsSum
  <2> QED BY <2>1
<1>4. Taken(U) \in U
  BY <1>3 DEF Taken
<1>5. U \ {Taken(U)} \notin B
  BY <1>2, <1>4
<1>6. g[U \ {Taken(U)}] = h[U \ {Taken(U)}]
  BY <1>5
<1>7. g[U] = h[U]
  BY <1>3, <1>6, SumStep
<1> QED BY <1>7

\* There is such a function for every finite set.
LEMMA SumExists ==
  ASSUME NEW f, NEW S, IsFiniteSet(S)
  PROVE  IsSum(SumFcn(f, S), f, S)
<1> DEFINE B == {T \in SUBSET S : ~ \E g : IsSum(g, f, T)}
<1>1. B = {}
  <2>1. SUFFICES ASSUME B # {} PROVE FALSE
    OBVIOUS
  <2>2. PICK T \in B : \A U \in B : U \subseteq T => U = T
    <3>1. B \in SUBSET (SUBSET S)
      OBVIOUS
    <3> HIDE DEF B
    <3> QED BY <2>1, <3>1, SmallestSet
  <2>3. \A U \in SUBSET T : U # T => IsSum(SumFcn(f, U), f, U) /\ IsFiniteSet(U)
    BY <2>2, FS_Subset DEF SumFcn
  <2> DEFINE g == [s \in SUBSET T |->
                     IF s = {} THEN 0
                     ELSE f[Taken(s)] + SumFcn(f, s \ {Taken(s)})[s \ {Taken(s)}]]
  <2>4. ASSUME NEW s \in SUBSET T, s # {}
        PROVE  g[s \ {Taken(s)}] = SumFcn(f, s \ {Taken(s)})[s \ {Taken(s)}]
    <3> DEFINE v == s \ {Taken(s)}
    <3>1. Taken(s) \in s
      BY <2>4 DEF Taken
    <3>2. v \in SUBSET T /\ v # T
      BY <3>1
    <3>3. IsSum(SumFcn(f, v), f, v) /\ IsFiniteSet(v)
      BY <2>3, <3>2
    <3>4. CASE v = {}
      <4>1. SumFcn(f, v)[v] = 0
        BY <3>3, <3>4 DEF IsSum
      <4>2. g[v] = 0
        BY <3>2, <3>4
      <4> QED BY <4>1, <4>2
    <3>5. CASE v # {}
      <4> DEFINE y == Taken(v)
      <4>1. /\ y \in v
            /\ SumFcn(f, v)[v] = f[y] + SumFcn(f, v)[v \ {y}]
        <5>1. v \in SUBSET v
          OBVIOUS
        <5> HIDE DEF v
        <5> QED BY <3>3, <3>5, <5>1, SumStep
      <4>2. v \ {y} # T /\ v \ {y} \in SUBSET v
        BY <3>2, <4>1
      <4>3. IsSum(SumFcn(f, v \ {y}), f, v \ {y}) /\ IsFiniteSet(v \ {y})
        BY <2>3, <3>2, <4>2
      <4>4. SumFcn(f, v \ {y})[v \ {y}] = SumFcn(f, v)[v \ {y}]
        BY <3>3, <4>2, <4>3, SumUnique
      <4>5. g[v] = f[y] + SumFcn(f, v \ {y})[v \ {y}]
        BY <3>2, <3>5
      <4> QED BY <4>1, <4>4, <4>5
    <3> QED BY <3>4, <3>5
  <2>5. g = [s \in SUBSET T |-> IF s = {} THEN 0 ELSE f[Taken(s)] + g[s \ {Taken(s)}]]
    BY <2>4
  <2>6. IsSum(g, f, T)
    BY <2>5 DEF IsSum
  <2> QED BY <2>2, <2>6
<1>2. \E g : IsSum(g, f, S)
  BY <1>1
<1> QED BY <1>2 DEF SumFcn

\* Nothing adds up to nothing.
LEMMA SumEmpty ==
  ASSUME NEW f
  PROVE  SumFunctionOnSet(f, {}) = 0
<1>1. IsFiniteSet({})
  BY FS_EmptySet
<1>2. IsSum(SumFcn(f, {}), f, {})
  BY <1>1, SumExists
<1> QED BY <1>2, SumIs DEF IsSum

\* The fold, one element at a time.
LEMMA SumFirst ==
  ASSUME NEW f, NEW S, IsFiniteSet(S), S # {}
  PROVE  /\ Taken(S) \in S
         /\ SumFunctionOnSet(f, S) = f[Taken(S)] + SumFunctionOnSet(f, S \ {Taken(S)})
<1> DEFINE T == S \ {Taken(S)}
<1>1. IsFiniteSet(T) /\ T \subseteq S
  BY FS_Subset
<1>2. IsSum(SumFcn(f, S), f, S) /\ IsSum(SumFcn(f, T), f, T)
  BY <1>1, SumExists
<1>3. SumFcn(f, T)[T] = SumFcn(f, S)[T]
  <2>1. T \in SUBSET T
    OBVIOUS
  <2> HIDE DEF T
  <2> QED BY <1>1, <1>2, <2>1, SumUnique
<1>4. Taken(S) \in S /\ SumFcn(f, S)[S] = f[Taken(S)] + SumFcn(f, S)[T]
  BY <1>2, SumStep
<1> QED BY <1>3, <1>4, SumIs

\* A sum of integers is one.
LEMMA SumType ==
  ASSUME NEW f, NEW S, IsFiniteSet(S), \A x \in S : f[x] \in Int
  PROVE  SumFunctionOnSet(f, S) \in Int
<1> DEFINE B == {T \in SUBSET S : SumFunctionOnSet(f, T) \notin Int}
<1>1. SUFFICES ASSUME B # {} PROVE FALSE
  OBVIOUS
<1>2. PICK T \in B : \A U \in B : U \subseteq T => U = T
  <2>1. B \in SUBSET (SUBSET S)
    OBVIOUS
  <2> HIDE DEF B
  <2> QED BY <1>1, <2>1, SmallestSet
<1>3. IsFiniteSet(T)
  BY FS_Subset
<1>4. T # {}
  BY SumEmpty
<1>5. /\ Taken(T) \in T
      /\ SumFunctionOnSet(f, T) = f[Taken(T)] + SumFunctionOnSet(f, T \ {Taken(T)})
  BY <1>3, <1>4, SumFirst
<1>6. SumFunctionOnSet(f, T \ {Taken(T)}) \in Int
  BY <1>2, <1>5
<1> QED BY <1>5, <1>6

\* Any element may be taken first.
LEMMA SumTake ==
  ASSUME NEW f, NEW S, IsFiniteSet(S), \A x \in S : f[x] \in Int, NEW a \in S
  PROVE  SumFunctionOnSet(f, S) = f[a] + SumFunctionOnSet(f, S \ {a})
<1> DEFINE B == {T \in SUBSET S :
                   \E x \in T : SumFunctionOnSet(f, T) # f[x] + SumFunctionOnSet(f, T \ {x})}
<1>1. SUFFICES ASSUME B # {} PROVE FALSE
  OBVIOUS
<1>2. PICK T \in B : \A U \in B : U \subseteq T => U = T
  <2>1. B \in SUBSET (SUBSET S)
    OBVIOUS
  <2> HIDE DEF B
  <2> QED BY <1>1, <2>1, SmallestSet
<1>3. PICK x \in T : SumFunctionOnSet(f, T) # f[x] + SumFunctionOnSet(f, T \ {x})
  BY <1>2
<1>4. IsFiniteSet(T) /\ T \subseteq S
  BY FS_Subset
<1> DEFINE y == Taken(T)
<1>5. y \in T /\ SumFunctionOnSet(f, T) = f[y] + SumFunctionOnSet(f, T \ {y})
  BY <1>4, SumFirst
<1> HIDE DEF y
<1>6. x # y
  BY <1>3, <1>5
<1>7. T \ {x} \notin B /\ T \ {y} \notin B
  BY <1>2, <1>5
<1>8. /\ SumFunctionOnSet(f, T \ {y}) = f[x] + SumFunctionOnSet(f, (T \ {y}) \ {x})
      /\ SumFunctionOnSet(f, T \ {x}) = f[y] + SumFunctionOnSet(f, (T \ {x}) \ {y})
  BY <1>4, <1>5, <1>6, <1>7
<1>9. (T \ {y}) \ {x} = (T \ {x}) \ {y}
  OBVIOUS
<1> DEFINE rest == SumFunctionOnSet(f, (T \ {x}) \ {y})
<1>10. rest \in Int /\ f[x] \in Int /\ f[y] \in Int
  <2>1. IsFiniteSet((T \ {x}) \ {y}) /\ (T \ {x}) \ {y} \subseteq S
    BY <1>4, FS_Subset
  <2> QED BY <1>4, <1>5, <2>1, SumType
<1> HIDE DEF rest
<1>11. SumFunctionOnSet(f, T) = f[y] + (f[x] + rest)
       /\ f[x] + SumFunctionOnSet(f, T \ {x}) = f[x] + (f[y] + rest)
  BY <1>5, <1>8, <1>9 DEF rest
<1>12. SumFunctionOnSet(f, T) = f[x] + SumFunctionOnSet(f, T \ {x})
  BY <1>10, <1>11
<1> QED BY <1>3, <1>12

\* The sum depends on the summands only.
LEMMA SumSame ==
  ASSUME NEW f, NEW g, NEW S, IsFiniteSet(S), \A x \in S : f[x] = g[x]
  PROVE  SumFunctionOnSet(f, S) = SumFunctionOnSet(g, S)
<1> DEFINE B == {T \in SUBSET S : SumFunctionOnSet(f, T) # SumFunctionOnSet(g, T)}
<1>1. SUFFICES ASSUME B # {} PROVE FALSE
  OBVIOUS
<1>2. PICK T \in B : \A U \in B : U \subseteq T => U = T
  <2>1. B \in SUBSET (SUBSET S)
    OBVIOUS
  <2> HIDE DEF B
  <2> QED BY <1>1, <2>1, SmallestSet
<1>3. IsFiniteSet(T)
  BY FS_Subset
<1>4. T # {}
  BY SumEmpty
<1>5. /\ Taken(T) \in T
      /\ SumFunctionOnSet(f, T) = f[Taken(T)] + SumFunctionOnSet(f, T \ {Taken(T)})
      /\ SumFunctionOnSet(g, T) = g[Taken(T)] + SumFunctionOnSet(g, T \ {Taken(T)})
  BY <1>3, <1>4, SumFirst
<1>6. SumFunctionOnSet(f, T \ {Taken(T)}) = SumFunctionOnSet(g, T \ {Taken(T)})
  BY <1>2, <1>5
<1> QED BY <1>5, <1>6

\* A payment: one entry changes, and the sum by as much.
LEMMA SumChange ==
  ASSUME NEW f, NEW g, NEW S, IsFiniteSet(S), NEW a \in S,
         \A x \in S : f[x] \in Int, g[a] \in Int, \A x \in S : x # a => g[x] = f[x]
  PROVE  SumFunctionOnSet(g, S) = SumFunctionOnSet(f, S) + g[a] - f[a]
<1>1. IsFiniteSet(S \ {a})
  BY FS_Subset
<1>2. SumFunctionOnSet(f, S \ {a}) = SumFunctionOnSet(g, S \ {a})
  BY <1>1, SumSame
<1>3. /\ SumFunctionOnSet(f, S) = f[a] + SumFunctionOnSet(f, S \ {a})
      /\ SumFunctionOnSet(g, S) = g[a] + SumFunctionOnSet(g, S \ {a})
  BY SumTake
<1>4. SumFunctionOnSet(f, S \ {a}) \in Int
  BY <1>1, SumType
<1> DEFINE rest == SumFunctionOnSet(f, S \ {a})
<1> HIDE DEF rest
<1>5. /\ SumFunctionOnSet(f, S) = f[a] + rest /\ SumFunctionOnSet(g, S) = g[a] + rest
      /\ rest \in Int /\ f[a] \in Int
  BY <1>2, <1>3, <1>4 DEF rest
<1> QED BY <1>5

\* One more summand.
LEMMA SumAdd ==
  ASSUME NEW f, NEW S, IsFiniteSet(S), NEW a, a \notin S, \A x \in S \cup {a} : f[x] \in Int
  PROVE  SumFunctionOnSet(f, S \cup {a}) = SumFunctionOnSet(f, S) + f[a]
<1>1. IsFiniteSet(S \cup {a}) /\ (S \cup {a}) \ {a} = S
  BY FS_AddElement
<1>2. SumFunctionOnSet(f, S \cup {a}) = f[a] + SumFunctionOnSet(f, S)
  BY <1>1, SumTake
<1>3. SumFunctionOnSet(f, S) \in Int
  BY SumType
<1> QED BY <1>2, <1>3

\* A sum of equal summands.
LEMMA SumConstant ==
  ASSUME NEW f, NEW S, IsFiniteSet(S), NEW c \in Int, \A x \in S : f[x] = c
  PROVE  SumFunctionOnSet(f, S) = c * Cardinality(S)
<1> DEFINE B == {T \in SUBSET S : SumFunctionOnSet(f, T) # c * Cardinality(T)}
<1>1. SUFFICES ASSUME B # {} PROVE FALSE
  OBVIOUS
<1>2. PICK T \in B : \A U \in B : U \subseteq T => U = T
  <2>1. B \in SUBSET (SUBSET S)
    OBVIOUS
  <2> HIDE DEF B
  <2> QED BY <1>1, <2>1, SmallestSet
<1>3. IsFiniteSet(T)
  BY FS_Subset
<1>4. T # {}
  BY SumEmpty, FS_EmptySet
<1>5. /\ Taken(T) \in T
      /\ SumFunctionOnSet(f, T) = c + SumFunctionOnSet(f, T \ {Taken(T)})
  BY <1>3, <1>4, SumFirst
<1>6. SumFunctionOnSet(f, T \ {Taken(T)}) = c * Cardinality(T \ {Taken(T)})
  BY <1>2, <1>5
<1>7. Cardinality(T \ {Taken(T)}) = Cardinality(T) - 1 /\ Cardinality(T) \in Nat
  BY <1>3, <1>5, FS_RemoveElement, FS_CardinalityType
<1>8. \A n \in Nat : c + c * (n - 1) = c * n
  OBVIOUS
<1> QED BY <1>5, <1>6, <1>7, <1>8
=============================================================================
