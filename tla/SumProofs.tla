----------------------------- MODULE SumProofs -----------------------------
(***************************************************************************)
(* Sums over finite sets, for every set: what SumFunctionOnSet and         *)
(* SumFunction of the community modules return.  Both are folds, defined   *)
(* by recursion on the set; the facts are proved by induction on finite    *)
(* sets, in a form that needs no operator as a parameter: a set T of       *)
(* subsets that contains every subset whose own subsets it contains.  Then *)
(* FoldLeft, and what is left of a sequence without one of its elements.   *)
(***************************************************************************)
EXTENDS Integers, Functions, SequencesExt, FiniteSetTheorems, SequenceTheorems, TLAPS

-----------------------------------------------------------------------------
(* Induction *)

\* A set of subsets of a finite S that contains a subset whenever it contains
\* all the smaller ones contains them all.
LEMMA SubsetInduction ==
    ASSUME NEW S, IsFiniteSet(S), NEW T,
           \A U \in SUBSET S : (\A V \in SUBSET U : V # U => V \in T) => U \in T
    PROVE  SUBSET S \subseteq T
<1> DEFINE bad == (SUBSET S) \ T
<1> SUFFICES ASSUME bad # {} PROVE FALSE
  OBVIOUS
<1>1. bad \subseteq FiniteSubsetsOf(S)
  BY FS_Subset DEF FiniteSubsetsOf
<1>2. PICK U \in bad : \A V \in bad : <<V, U>> \notin StrictSubsetOrdering(S)
  <2> HIDE DEF bad
  <2>1. IsWellFoundedOn(StrictSubsetOrdering(S), FiniteSubsetsOf(S))
    BY FS_StrictSubsetOrderingWellFounded
  <2>2. \E U \in bad : \A V \in bad : ~(<<V, U>> \in StrictSubsetOrdering(S))
    BY <1>1, <2>1, WFMin
  <2> QED
    BY <2>2
<1>3. ASSUME NEW V \in SUBSET U, V # U
      PROVE  V \in T
  <2>1. V \in SUBSET S /\ U \in SUBSET S
    OBVIOUS
  <2>2. <<V, U>> \in StrictSubsetOrdering(S)
    BY <2>1, <1>3 DEF StrictSubsetOrdering
  <2> QED
    BY <1>2, <2>1, <2>2
<1> QED
  BY <1>3

\* The same with steps that add one element, as one counts a set.
LEMMA FiniteSetInduction ==
    ASSUME NEW S, IsFiniteSet(S), NEW T, {} \in T,
           \A U \in SUBSET S, x \in S : U \in T /\ x \notin U => U \cup {x} \in T
    PROVE  S \in T
<1>1. ASSUME NEW U \in SUBSET S, \A V \in SUBSET U : V # U => V \in T
      PROVE  U \in T
  <2>1. CASE U = {}
    BY <2>1
  <2>2. CASE U # {}
    <3>1. PICK x : x \in U
      BY <2>2
    <3> DEFINE V == U \ {x}
    <3>2. V \in SUBSET U /\ V # U /\ x \notin V /\ U = V \cup {x}
      BY <3>1
    <3>3. V \in T
      BY <1>1, <3>2
    <3> HIDE DEF V
    <3>4. V \cup {x} \in T
      BY <3>1, <3>2, <3>3
    <3> QED
      BY <3>2, <3>4
  <2> QED
    BY <2>1, <2>2
<1>2. SUBSET S \subseteq T
  BY <1>1, SubsetInduction
<1> QED
  BY <1>2

\* A finite set of numbers that is not empty has a smallest one.
LEMMA SmallestExists ==
    ASSUME NEW S \in SUBSET Int, IsFiniteSet(S), S # {}
    PROVE  \E m \in S : \A k \in S : m <= k
<1> DEFINE T == {U \in SUBSET S : U = {} \/ \E m \in U : \A k \in U : m <= k}
<1>1. {} \in T
  OBVIOUS
<1>2. ASSUME NEW U \in SUBSET S, NEW x \in S, U \in T, x \notin U
      PROVE  U \cup {x} \in T
  <2>1. CASE U = {}
    BY <2>1
  <2>2. CASE U # {}
    <3>1. PICK m \in U : \A k \in U : m <= k
      BY <1>2, <2>2
    <3>2. CASE m <= x
      BY <3>1, <3>2
    <3>3. CASE x < m
      BY <3>1, <3>3
    <3> QED
      BY <3>2, <3>3
  <2> QED
    BY <2>1, <2>2
<1> HIDE DEF T
<1>3. S \in T
  BY <1>1, <1>2, FiniteSetInduction
<1> QED
  BY <1>3 DEF T

\* Counting up to n.
LEMMA IntervalInduction ==
    ASSUME NEW n \in Nat, NEW T, n > 0 => 1 \in T,
           \A i \in 1 .. n : i < n /\ i \in T => i + 1 \in T
    PROVE  1 .. n \subseteq T
<1> DEFINE bad == (1 .. n) \ T
<1> SUFFICES ASSUME bad # {} PROVE FALSE
  OBVIOUS
<1>1. IsFiniteSet(bad)
  BY FS_Interval, FS_Subset
<1>2. PICK m \in bad : \A k \in bad : m <= k
  BY <1>1, SmallestExists
<1>3. m # 1
  BY <1>2
<1>4. m - 1 \in 1 .. n /\ m - 1 \in T
  BY <1>2, <1>3
<1> QED
  BY <1>2, <1>4

-----------------------------------------------------------------------------
(* The recursion that defines a sum *)

\* One step of the recursion: what is left of g is the sum of a smaller set.
SumStepOf(f, g, s) ==
    IF s = {} THEN 0
    ELSE f[CHOOSE x \in s : TRUE] + g[s \ {CHOOSE x \in s : TRUE}]

IsSumOn(g, f, D) == g = [s \in D |-> SumStepOf(f, g, s)]

\* The function by recursion that the sum over S is a value of.
SumsOf(f, S) == CHOOSE g : IsSumOn(g, f, SUBSET S)

LEMMA SumStep ==
    ASSUME NEW f, NEW D, NEW g, IsSumOn(g, f, D), NEW s \in D
    PROVE  g[s] = SumStepOf(f, g, s)
<1> DEFINE h == [r \in D |-> SumStepOf(f, g, r)]
<1>1. h[s] = SumStepOf(f, g, s)
  OBVIOUS
<1>2. g = h
  BY DEF IsSumOn
<1> HIDE DEF h
<1> QED
  BY <1>1, <1>2

LEMMA SumIsRecursive ==
    ASSUME NEW f, NEW S
    PROVE  SumFunctionOnSet(f, S) = SumsOf(f, S)[S]
  BY DEF SumFunctionOnSet, FoldFunctionOnSet, MapThenFoldSet, SumsOf, IsSumOn, SumStepOf

\* The recursion has a solution: by induction on the size of the subsets.
LEMMA SumExists ==
    ASSUME NEW f, NEW S, IsFiniteSet(S)
    PROVE  IsSumOn(SumsOf(f, S), f, SUBSET S)
<1> DEFINE upTo(n) == {s \in SUBSET S : Cardinality(s) <= n}
           T == {U \in SUBSET S : \E g : IsSumOn(g, f, upTo(Cardinality(U)))}
<1>1. {} \in T
  <2> DEFINE g == [s \in upTo(Cardinality({})) |-> 0]
  <2>1. upTo(Cardinality({})) = {{}}
    <3>1. ASSUME NEW s \in SUBSET S, Cardinality(s) <= 0
          PROVE  s = {}
      BY <3>1, FS_Subset, FS_EmptySet, FS_CardinalityType
    <3> QED
      BY <3>1, FS_EmptySet
  <2>2. IsSumOn(g, f, upTo(Cardinality({})))
    BY <2>1 DEF IsSumOn, SumStepOf
  <2> QED
    BY <2>2
<1>2. ASSUME NEW U \in SUBSET S, NEW x \in S, U \in T, x \notin U
      PROVE  U \cup {x} \in T
  <2> DEFINE n == Cardinality(U)
  <2>1. n \in Nat /\ Cardinality(U \cup {x}) = n + 1
    BY <1>2, FS_Subset, FS_AddElement, FS_CardinalityType
  <2>2. PICK g : IsSumOn(g, f, upTo(n))
    BY <1>2
  <2> HIDE DEF n
  <2> DEFINE h == [s \in upTo(n + 1) |-> SumStepOf(f, g, s)]
  <2>3. ASSUME NEW s \in upTo(n + 1), s # {}
        PROVE  LET rest == s \ {CHOOSE y \in s : TRUE}
               IN  rest \in upTo(n) /\ rest \in upTo(n + 1) /\ h[rest] = g[rest]
    <3> DEFINE y == CHOOSE y \in s : TRUE
               rest == s \ {y}
    <3>1. y \in s
      BY <2>3
    <3>2. IsFiniteSet(s) /\ Cardinality(s) \in Nat
      BY FS_Subset, FS_CardinalityType
    <3>3. Cardinality(rest) = Cardinality(s) - 1
      BY <3>1, <3>2, FS_RemoveElement
    <3> HIDE DEF y
    <3>4. rest \in upTo(n) /\ rest \in upTo(n + 1)
      BY <2>1, <3>2, <3>3
    <3>5. h[rest] = SumStepOf(f, g, rest)
      BY <3>4
    <3>6. g[rest] = SumStepOf(f, g, rest)
      BY <2>2, <3>4, SumStep
    <3> QED
      BY <3>4, <3>5, <3>6 DEF y
  <2> HIDE DEF upTo
  <2>4. ASSUME NEW s \in upTo(n + 1)
        PROVE  SumStepOf(f, g, s) = SumStepOf(f, h, s)
    <3> HIDE DEF h
    <3>1. CASE s = {}
      BY <3>1 DEF SumStepOf
    <3>2. CASE s # {}
      BY <2>3, <3>2 DEF SumStepOf
    <3> QED
      BY <3>1, <3>2
  <2>5. h = [s \in upTo(n + 1) |-> SumStepOf(f, h, s)]
    <3> HIDE DEF h
    <3>1. [s \in upTo(n + 1) |-> SumStepOf(f, g, s)]
            = [s \in upTo(n + 1) |-> SumStepOf(f, h, s)]
      BY <2>4
    <3> QED
      BY <3>1 DEF h
  <2>6. IsSumOn(h, f, upTo(n + 1))
    BY <2>5 DEF IsSumOn
  <2> QED
    BY <1>2, <2>1, <2>6
<1>3. S \in T
  BY <1>1, <1>2, FiniteSetInduction
<1>4. upTo(Cardinality(S)) = SUBSET S
  BY FS_Subset
<1>5. \E g : IsSumOn(g, f, SUBSET S)
  BY <1>3, <1>4
<1> QED
  BY <1>5 DEF SumsOf

\* The sums of the same set within two larger ones agree.
LEMMA SumsAgree ==
    ASSUME NEW f, NEW S, IsFiniteSet(S), NEW R \in SUBSET S
    PROVE  SumsOf(f, S)[R] = SumsOf(f, R)[R]
<1> DEFINE T == {U \in SUBSET R : SumsOf(f, S)[U] = SumsOf(f, R)[U]}
<1>1. IsFiniteSet(R)
  BY FS_Subset
<1>2. ASSUME NEW U \in SUBSET R, \A V \in SUBSET U : V # U => V \in T
      PROVE  U \in T
  <2>1. /\ SumsOf(f, S)[U] = SumStepOf(f, SumsOf(f, S), U)
        /\ SumsOf(f, R)[U] = SumStepOf(f, SumsOf(f, R), U)
    <3>1. U \in SUBSET S
      OBVIOUS
    <3>2. IsSumOn(SumsOf(f, S), f, SUBSET S) /\ IsSumOn(SumsOf(f, R), f, SUBSET R)
      BY <1>1, SumExists
    <3> QED
      BY <3>1, <3>2, SumStep
  <2>2. CASE U = {}
    BY <2>1, <2>2 DEF SumStepOf
  <2>3. CASE U # {}
    <3> DEFINE y == CHOOSE y \in U : TRUE
               rest == U \ {y}
    <3>1. rest \in SUBSET U /\ rest # U
      BY <2>3
    <3>2. SumsOf(f, S)[rest] = SumsOf(f, R)[rest]
      BY <1>2, <3>1
    <3> QED
      BY <2>1, <2>3, <3>2 DEF SumStepOf
  <2> QED
    BY <2>2, <2>3
<1>3. SUBSET R \subseteq T
  <2> HIDE DEF T
  <2> QED
    BY <1>1, <1>2, SubsetInduction
<1> QED
  BY <1>3

LEMMA SumOfEmptySet ==
    ASSUME NEW f
    PROVE  SumFunctionOnSet(f, {}) = 0
<1>1. IsSumOn(SumsOf(f, {}), f, SUBSET {})
  BY SumExists, FS_EmptySet
<1>2. SumsOf(f, {})[{}] = 0
  BY <1>1 DEF IsSumOn, SumStepOf
<1> QED
  BY <1>2, SumIsRecursive

LEMMA SumTakesChosen ==
    ASSUME NEW f, NEW S, IsFiniteSet(S), S # {}
    PROVE  LET x == CHOOSE x \in S : TRUE
           IN  x \in S /\ SumFunctionOnSet(f, S) = f[x] + SumFunctionOnSet(f, S \ {x})
<1> DEFINE x == CHOOSE x \in S : TRUE
<1>1. x \in S
  OBVIOUS
<1>2. SumsOf(f, S)[S] = f[x] + SumsOf(f, S)[S \ {x}]
  <2>1. S \in SUBSET S
    OBVIOUS
  <2>2. SumsOf(f, S)[S] = SumStepOf(f, SumsOf(f, S), S)
    BY <2>1, SumExists, SumStep
  <2> QED
    BY <2>2 DEF SumStepOf
<1> HIDE DEF x
<1>3. SumsOf(f, S)[S \ {x}] = SumsOf(f, S \ {x})[S \ {x}]
  BY SumsAgree
<1> QED
  BY <1>1, <1>2, <1>3, SumIsRecursive DEF x

-----------------------------------------------------------------------------
(* Sums of integers *)

\* The order in which the fold takes the elements does not matter: any of them
\* can be taken out first.
LEMMA SumTakes ==
    ASSUME NEW f, NEW S, IsFiniteSet(S), \A x \in S : f[x] \in Int
    PROVE  /\ SumFunctionOnSet(f, S) \in Int
           /\ \A x \in S : SumFunctionOnSet(f, S) = f[x] + SumFunctionOnSet(f, S \ {x})
<1> DEFINE Sum(U) == SumFunctionOnSet(f, U)
           Takes(U) == Sum(U) \in Int /\ \A x \in U : Sum(U) = f[x] + Sum(U \ {x})
           T == {U \in SUBSET S : Takes(U)}
<1>1. Sum({}) = 0
  BY SumOfEmptySet
<1>2. ASSUME NEW U \in SUBSET S, U # {}
      PROVE  \E p \in U : Sum(U) = f[p] + Sum(U \ {p})
  BY <1>2, SumTakesChosen, FS_Subset
<1> HIDE DEF Sum
<1>3. ASSUME NEW U \in SUBSET S, \A V \in SUBSET U : V # U => Takes(V)
      PROVE  Takes(U)
  <2>1. CASE U = {}
    BY <1>1, <2>1
  <2>2. CASE U # {}
    <3>1. PICK p \in U : Sum(U) = f[p] + Sum(U \ {p})
      BY <1>2, <2>2
    <3>2. Takes(U \ {p})
      BY <1>3
    <3>3. ASSUME NEW x \in U, x # p
          PROVE  Sum(U) = f[x] + Sum(U \ {x})
      <4>1. Takes(U \ {x})
        BY <1>3
      <4>2. /\ x \in U \ {p} /\ p \in U \ {x}
            /\ (U \ {p}) \ {x} = (U \ {x}) \ {p}
        BY <3>3
      <4>3. /\ Sum(U \ {p}) = f[x] + Sum((U \ {p}) \ {x})
            /\ Sum(U \ {x}) = f[p] + Sum((U \ {x}) \ {p})
        BY <3>2, <4>1, <4>2
      <4>4. Takes((U \ {p}) \ {x})
        <5>1. (U \ {p}) \ {x} \in SUBSET U /\ (U \ {p}) \ {x} # U
          OBVIOUS
        <5> QED
          BY <1>3, <5>1
      <4>5. f[x] \in Int /\ f[p] \in Int /\ Sum((U \ {p}) \ {x}) \in Int
        BY <4>4
      <4> QED
        <5> DEFINE rest == Sum((U \ {p}) \ {x})
        <5>1. /\ Sum(U) = f[p] + (f[x] + rest)
              /\ Sum(U \ {x}) = f[p] + rest
          BY <3>1, <4>2, <4>3
        <5>2. rest \in Int
          BY <4>5
        <5> HIDE DEF rest
        <5> QED
          BY <4>5, <5>1, <5>2
    <3>4. Sum(U) \in Int
      BY <3>1, <3>2
    <3> QED
      BY <3>1, <3>3, <3>4
  <2> QED
    BY <2>1, <2>2
<1> HIDE DEF Takes
<1>4. SUBSET S \subseteq T
  <2>1. \A U \in SUBSET S : (\A V \in SUBSET U : V # U => V \in T) => U \in T
    BY <1>3
  <2> HIDE DEF T
  <2> QED
    BY <2>1, SubsetInduction
<1>5. Takes(S)
  BY <1>4
<1> QED
  BY <1>5 DEF Takes, Sum

\* What one more element adds.
LEMMA SumAdds ==
    ASSUME NEW f, NEW S, IsFiniteSet(S), NEW x, x \notin S,
           \A y \in S \cup {x} : f[y] \in Int
    PROVE  /\ SumFunctionOnSet(f, S) \in Int
           /\ SumFunctionOnSet(f, S \cup {x}) = SumFunctionOnSet(f, S) + f[x]
<1>1. IsFiniteSet(S \cup {x}) /\ x \in S \cup {x} /\ (S \cup {x}) \ {x} = S
  BY FS_AddElement
<1>2. SumFunctionOnSet(f, S) \in Int
  BY SumTakes
<1>3. SumFunctionOnSet(f, S \cup {x}) = f[x] + SumFunctionOnSet(f, S)
  BY <1>1, SumTakes
<1> QED
  BY <1>2, <1>3

\* Sums of numbers compared one by one compare.
LEMMA SumsCompare ==
    ASSUME NEW f, NEW g, NEW S, IsFiniteSet(S),
           \A x \in S : f[x] \in Int /\ g[x] \in Int /\ f[x] <= g[x]
    PROVE  SumFunctionOnSet(f, S) <= SumFunctionOnSet(g, S)
<1> DEFINE T == {U \in SUBSET S : SumFunctionOnSet(f, U) <= SumFunctionOnSet(g, U)}
<1>1. {} \in T
  BY SumOfEmptySet
<1>2. ASSUME NEW U \in SUBSET S, NEW x \in S, U \in T, x \notin U
      PROVE  U \cup {x} \in T
  <2>1. IsFiniteSet(U) /\ \A y \in U \cup {x} : y \in S
    BY FS_Subset
  <2>2. /\ SumFunctionOnSet(f, U) \in Int
        /\ SumFunctionOnSet(f, U \cup {x}) = SumFunctionOnSet(f, U) + f[x]
    BY <1>2, <2>1, SumAdds
  <2>3. /\ SumFunctionOnSet(g, U) \in Int
        /\ SumFunctionOnSet(g, U \cup {x}) = SumFunctionOnSet(g, U) + g[x]
    BY <1>2, <2>1, SumAdds
  <2> QED
    BY <1>2, <2>2, <2>3
<1>3. S \in T
  <2> HIDE DEF T
  <2> QED
    BY <1>1, <1>2, FiniteSetInduction
<1> QED
  BY <1>3

\* Only the values on the set matter.
LEMMA SumsEqual ==
    ASSUME NEW f, NEW g, NEW S, IsFiniteSet(S),
           \A x \in S : f[x] \in Int /\ f[x] = g[x]
    PROVE  SumFunctionOnSet(f, S) = SumFunctionOnSet(g, S)
<1>1. /\ SumFunctionOnSet(f, S) \in Int
      /\ SumFunctionOnSet(g, S) \in Int
  BY SumTakes
<1>2. /\ SumFunctionOnSet(f, S) <= SumFunctionOnSet(g, S)
      /\ SumFunctionOnSet(g, S) <= SumFunctionOnSet(f, S)
  BY SumsCompare
<1> QED
  BY <1>1, <1>2

LEMMA SumOfZeros ==
    ASSUME NEW f, NEW S, IsFiniteSet(S), \A x \in S : f[x] = 0
    PROVE  SumFunctionOnSet(f, S) = 0
<1> DEFINE T == {U \in SUBSET S : SumFunctionOnSet(f, U) = 0}
<1>1. {} \in T
  BY SumOfEmptySet
<1>2. ASSUME NEW U \in SUBSET S, NEW x \in S, U \in T, x \notin U
      PROVE  U \cup {x} \in T
  <2>1. IsFiniteSet(U) /\ \A y \in U \cup {x} : f[y] \in Int
    BY FS_Subset
  <2>2. SumFunctionOnSet(f, U \cup {x}) = SumFunctionOnSet(f, U) + f[x]
    BY <1>2, <2>1, SumAdds
  <2> QED
    BY <1>2, <2>2
<1>3. S \in T
  <2> HIDE DEF T
  <2> QED
    BY <1>1, <1>2, FiniteSetInduction
<1> QED
  BY <1>3

\* A sum of natural numbers is one, and no less than each of them.
LEMMA SumOfNaturals ==
    ASSUME NEW f, NEW S, IsFiniteSet(S), \A x \in S : f[x] \in Nat
    PROVE  /\ SumFunctionOnSet(f, S) \in Nat
           /\ \A x \in S : f[x] <= SumFunctionOnSet(f, S)
<1>1. ASSUME NEW U \in SUBSET S
      PROVE  SumFunctionOnSet(f, U) \in Nat
  <2> DEFINE zero == [x \in U |-> 0]
  <2>1. IsFiniteSet(U)
    BY FS_Subset
  <2>2. SumFunctionOnSet(zero, U) = 0
    BY <2>1, SumOfZeros
  <2>3. SumFunctionOnSet(zero, U) <= SumFunctionOnSet(f, U)
    BY <2>1, SumsCompare
  <2>4. SumFunctionOnSet(f, U) \in Int
    BY <2>1, SumTakes
  <2> QED
    BY <2>2, <2>3, <2>4
<1>2. ASSUME NEW x \in S
      PROVE  f[x] <= SumFunctionOnSet(f, S)
  <2>1. SumFunctionOnSet(f, S) = f[x] + SumFunctionOnSet(f, S \ {x})
    BY SumTakes
  <2>2. SumFunctionOnSet(f, S \ {x}) \in Nat /\ f[x] \in Nat
    BY <1>1
  <2> QED
    BY <2>1, <2>2
<1> QED
  BY <1>1, <1>2

\* Sums that differ at one element differ by as much.
LEMMA SumChangesAtOne ==
    ASSUME NEW f, NEW g, NEW S, IsFiniteSet(S), NEW x \in S,
           \A y \in S : f[y] \in Int /\ g[y] \in Int,
           \A y \in S \ {x} : g[y] = f[y]
    PROVE  SumFunctionOnSet(g, S) = SumFunctionOnSet(f, S) - f[x] + g[x]
<1>1. /\ SumFunctionOnSet(f, S) = f[x] + SumFunctionOnSet(f, S \ {x})
      /\ SumFunctionOnSet(g, S) = g[x] + SumFunctionOnSet(g, S \ {x})
  BY SumTakes
<1>2. IsFiniteSet(S \ {x})
  BY FS_RemoveElement
<1>3. /\ SumFunctionOnSet(f, S \ {x}) = SumFunctionOnSet(g, S \ {x})
      /\ SumFunctionOnSet(f, S \ {x}) \in Int
  BY <1>2, SumsEqual, SumTakes
<1> QED
  BY <1>1, <1>3

\* Elements without a share can be left out.
LEMMA SumIgnoresZeros ==
    ASSUME NEW f, NEW S, IsFiniteSet(S), NEW R \in SUBSET S,
           \A x \in S : f[x] \in Int, \A x \in S \ R : f[x] = 0
    PROVE  SumFunctionOnSet(f, S) = SumFunctionOnSet(f, R)
<1> DEFINE T == {U \in SUBSET (S \ R) :
                   SumFunctionOnSet(f, R \cup U) = SumFunctionOnSet(f, R)}
<1>1. IsFiniteSet(S \ R) /\ IsFiniteSet(R)
  BY FS_Subset, FS_Difference
<1>2. {} \in T
  <2>1. R \cup {} = R
    OBVIOUS
  <2> QED
    BY <2>1
<1>3. ASSUME NEW U \in SUBSET (S \ R), NEW x \in S \ R, U \in T, x \notin U
      PROVE  U \cup {x} \in T
  <2>1. /\ IsFiniteSet(R \cup U)
        /\ x \notin R \cup U
        /\ \A y \in (R \cup U) \cup {x} : f[y] \in Int
    <3>1. R \cup U \in SUBSET S
      OBVIOUS
    <3> QED
      BY <1>3, <3>1, FS_Subset
  <2>2. /\ SumFunctionOnSet(f, (R \cup U) \cup {x}) = SumFunctionOnSet(f, R \cup U) + f[x]
        /\ SumFunctionOnSet(f, R \cup U) \in Int
    BY <2>1, SumAdds
  <2>3. R \cup (U \cup {x}) = (R \cup U) \cup {x}
    OBVIOUS
  <2>4. SumFunctionOnSet(f, R \cup (U \cup {x})) = SumFunctionOnSet(f, R \cup U)
    <3>1. f[x] = 0
      OBVIOUS
    <3> DEFINE W == R \cup U
               all == W \cup {x}
    <3>2. all = R \cup (U \cup {x})
      BY <2>3
    <3>3. SumFunctionOnSet(f, all) = SumFunctionOnSet(f, W) + f[x]
      BY <2>2
    <3> HIDE DEF W, all
    <3>4. SumFunctionOnSet(f, all) = SumFunctionOnSet(f, W)
      BY <2>2, <3>1, <3>3 DEF W
    <3> QED
      BY <3>2, <3>4 DEF W
  <2>5. SumFunctionOnSet(f, R \cup U) = SumFunctionOnSet(f, R)
    BY <1>3
  <2>6. U \cup {x} \in SUBSET (S \ R)
    OBVIOUS
  <2> QED
    BY <2>4, <2>5, <2>6
<1>4. S \ R \in T
  <2> HIDE DEF T
  <2> QED
    BY <1>1, <1>2, <1>3, FiniteSetInduction
<1>5. R \cup (S \ R) = S
  OBVIOUS
<1> QED
  BY <1>4, <1>5

\* The sum of functions is the sum of their sums.
LEMMA SumOfSums ==
    ASSUME NEW f, NEW g, NEW h, NEW S, IsFiniteSet(S),
           \A x \in S : f[x] \in Int /\ g[x] \in Int /\ h[x] = f[x] + g[x]
    PROVE  SumFunctionOnSet(h, S) = SumFunctionOnSet(f, S) + SumFunctionOnSet(g, S)
<1> DEFINE Agree(U) == SumFunctionOnSet(h, U) = SumFunctionOnSet(f, U) + SumFunctionOnSet(g, U)
           T == {U \in SUBSET S : Agree(U)}
<1>1. {} \in T
  BY SumOfEmptySet
<1>2. ASSUME NEW U \in SUBSET S, NEW x \in S, U \in T, x \notin U
      PROVE  U \cup {x} \in T
  <2>1. /\ IsFiniteSet(U)
        /\ \A y \in U \cup {x} : f[y] \in Int /\ g[y] \in Int /\ h[y] \in Int
    BY FS_Subset
  <2>2. /\ SumFunctionOnSet(f, U) \in Int
        /\ SumFunctionOnSet(f, U \cup {x}) = SumFunctionOnSet(f, U) + f[x]
    BY <1>2, <2>1, SumAdds
  <2>3. /\ SumFunctionOnSet(g, U) \in Int
        /\ SumFunctionOnSet(g, U \cup {x}) = SumFunctionOnSet(g, U) + g[x]
    BY <1>2, <2>1, SumAdds
  <2>4. /\ SumFunctionOnSet(h, U) \in Int
        /\ SumFunctionOnSet(h, U \cup {x}) = SumFunctionOnSet(h, U) + h[x]
    BY <1>2, <2>1, SumAdds
  <2>5. h[x] = f[x] + g[x] /\ f[x] \in Int /\ g[x] \in Int
    OBVIOUS
  <2> QED
    <3>1. SumFunctionOnSet(h, U) = SumFunctionOnSet(f, U) + SumFunctionOnSet(g, U)
      BY <1>2
    <3>2. Agree(U \cup {x})
      BY <2>2, <2>3, <2>4, <2>5, <3>1
    <3> QED
      BY <3>2
<1>3. S \in T
  <2> HIDE DEF T
  <2> QED
    BY <1>1, <1>2, FiniteSetInduction
<1> QED
  BY <1>3

\* SumFunction is the sum over the whole domain.
LEMMA SumOverDomain ==
    ASSUME NEW f
    PROVE  SumFunction(f) = SumFunctionOnSet(f, DOMAIN f)
  BY DEF SumFunction

\* The sum of a function written out on a set is the sum over that set.
LEMMA SumWrittenOut ==
    ASSUME NEW f, NEW g, NEW S, IsFiniteSet(S), DOMAIN g = S,
           \A x \in S : f[x] \in Int /\ g[x] = f[x]
    PROVE  SumFunction(g) = SumFunctionOnSet(f, S)
<1>1. SumFunction(g) = SumFunctionOnSet(g, S)
  BY SumOverDomain
<1>2. SumFunctionOnSet(f, S) = SumFunctionOnSet(g, S)
  BY SumsEqual
<1> QED
  BY <1>1, <1>2


\* A factor can be taken out of a sum.
LEMMA SumOfMultiples ==
    ASSUME NEW f, NEW h, NEW c \in Int, NEW S, IsFiniteSet(S),
           \A x \in S : f[x] \in Int /\ h[x] = c * f[x]
    PROVE  SumFunctionOnSet(f, S) \in Int /\ SumFunctionOnSet(h, S) = c * SumFunctionOnSet(f, S)
<1> DEFINE Agree(U) == SumFunctionOnSet(h, U) = c * SumFunctionOnSet(f, U)
           T == {U \in SUBSET S : Agree(U)}
<1>1. {} \in T
  BY SumOfEmptySet
<1>2. ASSUME NEW U \in SUBSET S, NEW x \in S, U \in T, x \notin U
      PROVE  U \cup {x} \in T
  <2>1. /\ IsFiniteSet(U)
        /\ \A y \in U \cup {x} : f[y] \in Int /\ h[y] \in Int
    BY FS_Subset
  <2>2. /\ SumFunctionOnSet(f, U) \in Int
        /\ SumFunctionOnSet(f, U \cup {x}) = SumFunctionOnSet(f, U) + f[x]
    BY <1>2, <2>1, SumAdds
  <2>3. /\ SumFunctionOnSet(h, U) \in Int
        /\ SumFunctionOnSet(h, U \cup {x}) = SumFunctionOnSet(h, U) + h[x]
    BY <1>2, <2>1, SumAdds
  <2>4. h[x] = c * f[x] /\ f[x] \in Int /\ SumFunctionOnSet(h, U) = c * SumFunctionOnSet(f, U)
    BY <1>2
  <2>5. c * (SumFunctionOnSet(f, U) + f[x]) = c * SumFunctionOnSet(f, U) + c * f[x]
    BY <2>2, <2>4
  <2> QED
    BY <2>2, <2>3, <2>4, <2>5
<1>3. S \in T
  <2> HIDE DEF T
  <2> QED
    BY <1>1, <1>2, FiniteSetInduction
<1>4. SumFunctionOnSet(f, S) \in Int
  BY SumTakes
<1> QED
  BY <1>3, <1>4

\* What is the same for every element is added as often as there are elements.
LEMMA SumOfConstant ==
    ASSUME NEW f, NEW c \in Int, NEW S, IsFiniteSet(S), \A x \in S : f[x] = c
    PROVE  SumFunctionOnSet(f, S) = Cardinality(S) * c
<1> DEFINE T == {U \in SUBSET S : SumFunctionOnSet(f, U) = Cardinality(U) * c}
<1>1. {} \in T
  BY SumOfEmptySet, FS_EmptySet
<1>2. ASSUME NEW U \in SUBSET S, NEW x \in S, U \in T, x \notin U
      PROVE  U \cup {x} \in T
  <2>1. /\ IsFiniteSet(U)
        /\ \A y \in U \cup {x} : f[y] \in Int
    BY FS_Subset
  <2>2. SumFunctionOnSet(f, U \cup {x}) = SumFunctionOnSet(f, U) + f[x]
    BY <1>2, <2>1, SumAdds
  <2>3. Cardinality(U) \in Nat /\ Cardinality(U \cup {x}) = Cardinality(U) + 1
    BY <1>2, <2>1, FS_CardinalityType, FS_AddElement
  <2>4. SumFunctionOnSet(f, U) = Cardinality(U) * c /\ f[x] = c
    BY <1>2
  <2>5. (Cardinality(U) + 1) * c = Cardinality(U) * c + c
    BY <2>3
  <2> QED
    BY <2>2, <2>3, <2>4, <2>5
<1>3. S \in T
  <2> HIDE DEF T
  <2> QED
    BY <1>1, <1>2, FiniteSetInduction
<1> QED
  BY <1>3

-----------------------------------------------------------------------------
(* Folding from the left *)

LEMMA MaxIs ==
    ASSUME NEW S \in SUBSET Int, NEW m \in S, \A x \in S : x <= m
    PROVE  Max(S) = m
<1>1. \E x \in S : \A y \in S : x >= y
  OBVIOUS
<1>2. Max(S) \in S /\ \A y \in S : Max(S) >= y
  BY <1>1 DEF Max
<1>3. Max(S) \in Int /\ m \in Int /\ Max(S) >= m /\ Max(S) <= m
  BY <1>2
<1> QED
  BY <1>3

\* The last position of the first k.
LEMMA LastOfInterval ==
    ASSUME NEW k \in Nat, k > 0
    PROVE  Max(1 .. k) = k /\ (1 .. k) \ {k} = 1 .. k - 1 /\ 1 .. k # {}
<1>1. k \in 1 .. k /\ 1 .. k \in SUBSET Int /\ \A x \in 1 .. k : x <= k
  OBVIOUS
<1>2. Max(1 .. k) = k
  BY <1>1, MaxIs
<1> QED
  BY <1>1, <1>2

\* g is the function that FoldLeft computes by recursion on sets of positions, for
\* steps that are given as a function.
IsStepwise(g, base, step, n) ==
    \A s \in SUBSET (1 .. n) :
       g[s] = IF s = {} THEN base ELSE step[<<g[s \ {Max(s)}], Max(s)>>]

\* There is one, if the steps stay in a set: by induction on the number of positions.
LEMMA RunExists ==
    ASSUME NEW n \in Nat, NEW States, NEW base \in States,
           NEW step \in [States \X (1 .. n) -> States]
    PROVE  \E g \in [SUBSET (1 .. n) -> States] : IsStepwise(g, base, step, n)
<1> DEFINE IsRun(g, k) ==
             /\ g \in [SUBSET (1 .. k) -> States]
             /\ \A s \in SUBSET (1 .. k) :
                  g[s] = IF s = {} THEN base ELSE step[<<g[s \ {Max(s)}], Max(s)>>]
           T == {k \in 1 .. n + 1 : \E g : IsRun(g, k - 1)}
<1>1. 1 \in T
  <2> DEFINE g == [s \in SUBSET (1 .. 0) |-> base]
  <2>1. SUBSET (1 .. 0) = {{}}
    OBVIOUS
  <2>2. IsRun(g, 0)
    BY <2>1
  <2>3. 1 - 1 = 0 /\ 1 \in 1 .. n + 1
    OBVIOUS
  <2> HIDE DEF IsRun
  <2> QED
    BY <2>2, <2>3
<1>2. ASSUME NEW k \in 1 .. n + 1, k < n + 1, k \in T
      PROVE  k + 1 \in T
  <2>1. PICK g : IsRun(g, k - 1)
    BY <1>2
  <2> DEFINE h == [s \in SUBSET (1 .. k) |->
                     IF k \in s THEN step[<<g[s \ {k}], k>>] ELSE g[s]]
  <2>2. \A s \in SUBSET (1 .. k) : s \ {k} \in SUBSET (1 .. k - 1)
    OBVIOUS
  <2>3. \A s \in SUBSET (1 .. k) : k \notin s => s \in SUBSET (1 .. k - 1)
    OBVIOUS
  <2>4. h \in [SUBSET (1 .. k) -> States]
    <3>1. k \in 1 .. n
      BY <1>2
    <3> QED
      BY <2>1, <2>2, <2>3, <3>1
  <2>5. ASSUME NEW s \in SUBSET (1 .. k)
        PROVE  h[s] = IF s = {} THEN base ELSE step[<<h[s \ {Max(s)}], Max(s)>>]
    <3>1. CASE k \in s
      <4>1. Max(s) = k
        <5>1. s \in SUBSET Int /\ \A x \in s : x <= k
          OBVIOUS
        <5> QED
          BY <5>1, <3>1, MaxIs
      <4>2. h[s \ {k}] = g[s \ {k}]
        OBVIOUS
      <4> QED
        BY <3>1, <4>1, <4>2
    <3>2. CASE k \notin s
      <4>1. s \in SUBSET (1 .. k - 1)
        BY <3>2, <2>3
      <4>2. h[s] = g[s] /\ h[s \ {Max(s)}] = g[s \ {Max(s)}]
        BY <3>2
      <4> QED
        BY <2>1, <4>1, <4>2
    <3> QED
      BY <3>1, <3>2
  <2>6. IsRun(h, (k + 1) - 1)
    <3>1. (k + 1) - 1 = k
      OBVIOUS
    <3> HIDE DEF h
    <3> QED
      BY <2>4, <2>5, <3>1
  <2>7. k + 1 \in 1 .. n + 1
    BY <1>2
  <2> HIDE DEF IsRun
  <2> QED
    BY <2>6, <2>7
<1>3. n + 1 \in T
  <2> HIDE DEF T
  <2>1. n + 1 \in Nat /\ n + 1 \in 1 .. n + 1
    OBVIOUS
  <2>2. 1 .. n + 1 \subseteq T
    BY <1>1, <1>2, <2>1, IntervalInduction
  <2> QED
    BY <2>1, <2>2
<1>4. \E g : IsRun(g, n)
  <2>1. (n + 1) - 1 = n
    OBVIOUS
  <2> HIDE DEF IsRun
  <2> QED
    BY <1>3, <2>1
<1> QED
  BY <1>4 DEF IsStepwise

LEMMA MaxInSet ==
    ASSUME NEW n \in Nat, NEW S \in SUBSET (1 .. n), S # {}
    PROVE  Max(S) \in S /\ Max(S) \in 1 .. n
<1> DEFINE distances == {x \in 0 .. n : n - x \in S}
<1>1. distances \in SUBSET Int /\ IsFiniteSet(distances)
  <2>1. distances \subseteq 0 .. n /\ distances \subseteq Int
    OBVIOUS
  <2>2. IsFiniteSet(0 .. n)
    BY FS_Interval
  <2> HIDE DEF distances
  <2> QED
    BY <2>1, <2>2, FS_Subset
<1>2. distances # {}
  <2>1. PICK x \in S : TRUE
    OBVIOUS
  <2>2. n - x \in distances
    <3>1. n - (n - x) = x /\ n - x \in 0 .. n
      OBVIOUS
    <3> QED
      BY <3>1
  <2> QED
    BY <2>2
<1>3. PICK d \in distances : \A k \in distances : d <= k
  BY <1>1, <1>2, SmallestExists
<1>4. ASSUME NEW x \in S
      PROVE  x <= n - d
  <2>1. n - (n - x) = x /\ n - x \in 0 .. n
    OBVIOUS
  <2>2. n - x \in distances
    BY <2>1
  <2>3. d \in Int /\ x \in Int
    OBVIOUS
  <2>4. d <= n - x
    <3> HIDE DEF distances
    <3> QED
      BY <1>3, <2>2
  <2> QED
    BY <2>3, <2>4
<1>5. n - d \in S /\ S \in SUBSET Int
  OBVIOUS
<1>6. Max(S) = n - d
  BY <1>4, <1>5, MaxIs
<1> QED
  BY <1>5, <1>6

\* What a run leads to, one position after the other.
LEMMA RunStays ==
    ASSUME NEW n \in Nat, NEW h, NEW States, h[{}] \in States,
           \A k \in 1 .. n : h[1 .. k - 1] \in States => h[1 .. k] \in States
    PROVE  h[1 .. n] \in States
<1> DEFINE T == {k \in 1 .. n : h[1 .. k] \in States}
<1>1. 1 .. 0 = {} /\ 1 .. 1 - 1 = {}
  OBVIOUS
<1>2. CASE n = 0
  BY <1>1, <1>2
<1>3. CASE n > 0
  <2>1. 1 \in T
    <3>1. 1 \in 1 .. n
      BY <1>3
    <3>2. h[1 .. 1 - 1] \in States
      BY <1>1
    <3> QED
      BY <3>1, <3>2
  <2>2. ASSUME NEW i \in 1 .. n, i < n, i \in T
        PROVE  i + 1 \in T
    <3>1. i + 1 \in 1 .. n /\ (i + 1) - 1 = i
      BY <2>2
    <3> QED
      BY <2>2, <3>1
  <2> HIDE DEF T
  <2>3. 1 .. n \subseteq T
    BY <2>1, <2>2, IntervalInduction
  <2>4. n \in T
    BY <1>3, <2>3
  <2> QED
    BY <2>4 DEF T
<1> QED
  BY <1>2, <1>3

\* What is left of a sequence when the element at k is taken out.
LEMMA RemoveAtProperties ==
    ASSUME NEW S, NEW r \in Seq(S), NEW k \in 1 .. Len(r)
    PROVE  /\ RemoveAt(r, k) \in Seq(S)
           /\ Len(RemoveAt(r, k)) = Len(r) - 1
           /\ \A i \in 1 .. Len(r) - 1 : RemoveAt(r, k)[i] = IF i < k THEN r[i] ELSE r[i + 1]
<1> DEFINE a == SubSeq(r, 1, k - 1)
           b == SubSeq(r, k + 1, Len(r))
<1>1. /\ a \in Seq(S) /\ Len(a) = k - 1
      /\ \A i \in 1 .. k - 1 : a[i] = r[i]
  <2>1. \A i \in 1 .. k - 1 : r[i] \in S
    OBVIOUS
  <2>2. /\ a \in Seq(S)
        /\ Len(a) = IF 1 <= k - 1 THEN (k - 1) - 1 + 1 ELSE 0
        /\ \A i \in 1 .. (k - 1) - 1 + 1 : a[i] = r[1 + i - 1]
    BY <2>1, SubSeqProperties
  <2> QED
    BY <2>2
<1>2. /\ b \in Seq(S) /\ Len(b) = Len(r) - k
      /\ \A i \in 1 .. Len(r) - k : b[i] = r[k + i]
  <2>1. \A i \in k + 1 .. Len(r) : r[i] \in S
    OBVIOUS
  <2>2. /\ b \in Seq(S)
        /\ Len(b) = IF k + 1 <= Len(r) THEN Len(r) - (k + 1) + 1 ELSE 0
        /\ \A i \in 1 .. Len(r) - (k + 1) + 1 : b[i] = r[(k + 1) + i - 1]
    BY <2>1, SubSeqProperties
  <2>3. \A i \in 1 .. Len(r) - k : i \in 1 .. Len(r) - (k + 1) + 1 /\ (k + 1) + i - 1 = k + i
    OBVIOUS
  <2> QED
    BY <2>2, <2>3
<1> HIDE DEF a, b
<1>3. /\ a \o b \in Seq(S)
      /\ Len(a \o b) = Len(a) + Len(b)
      /\ \A i \in 1 .. Len(a) + Len(b) :
            (a \o b)[i] = IF i <= Len(a) THEN a[i] ELSE b[i - Len(a)]
  BY <1>1, <1>2, ConcatProperties
<1>4. RemoveAt(r, k) = a \o b
  BY DEF RemoveAt, a, b
<1>5. ASSUME NEW i \in 1 .. Len(r) - 1
      PROVE  (a \o b)[i] = IF i < k THEN r[i] ELSE r[i + 1]
  <2>1. CASE i < k
    BY <2>1, <1>1, <1>2, <1>3
  <2>2. CASE ~(i < k)
    <3>1. i - (k - 1) \in 1 .. Len(r) - k /\ k + (i - (k - 1)) = i + 1
      BY <2>2
    <3>2. b[i - (k - 1)] = r[i + 1]
      BY <3>1, <1>2
    <3>3. i \in 1 .. Len(a) + Len(b) /\ ~(i <= Len(a)) /\ i - Len(a) = i - (k - 1)
      BY <2>2, <1>1, <1>2
    <3>4. (a \o b)[i] = b[i - Len(a)]
      BY <3>3, <1>3
    <3> QED
      BY <2>2, <3>2, <3>3, <3>4
  <2> QED
    BY <2>1, <2>2
<1>6. Len(a) + Len(b) = Len(r) - 1
  BY <1>1, <1>2
<1> QED
  BY <1>3, <1>4, <1>5, <1>6

=============================================================================
