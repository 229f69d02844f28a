---------------------------- MODULE SumTheorems ----------------------------
(***************************************************************************)
(* Sums of a function over finite sets, as SumFunctionOnSet of the module   *)
(* Functions computes them: element by element, in an order of its own.    *)
(* Induction goes by sets: what holds of a set and of every set smaller by  *)
(* one element holds of all finite sets.                                   *)
(***************************************************************************)
EXTENDS Integers, FiniteSets, FiniteSetsExt, FiniteSetTheorems, TLAPS

\* A set of subsets of S that holds whatever it holds without one element.
LEMMA SubsetInduction ==
  ASSUME NEW S, IsFiniteSet(S), NEW P,
         \A T \in SUBSET S : (\A x \in T : T \ {x} \in P) => T \in P
  PROVE  \A T \in SUBSET S : T \in P
<1>. DEFINE Bad == {T \in SUBSET S : T \notin P}
            Sizes == {Cardinality(T) : T \in Bad}
            Less == OpToRel(<, Nat)
<1>1. \A T \in SUBSET S : IsFiniteSet(T) /\ Cardinality(T) \in Nat
  BY FS_Subset, FS_CardinalityType
<1>2. SUFFICES ASSUME Bad # {} PROVE FALSE
  OBVIOUS
<1>3. PICK n \in Sizes : \A m \in Sizes : <<m, n>> \notin Less
  <2>1. Sizes \subseteq Nat /\ Sizes # {}
    BY <1>1, <1>2
  <2>. HIDE DEF Sizes, Less
  <2>2. IsWellFoundedOn(Less, Nat)
    BY NatLessThanWellFounded DEF Less
  <2>. QED
    BY <2>1, <2>2, WFMin
<1>4. PICK T \in Bad : n = Cardinality(T)
  OBVIOUS
<1>5. PICK x \in T : T \ {x} \in Bad
  OBVIOUS
<1>6. Cardinality(T \ {x}) = Cardinality(T) - 1
  BY <1>1, FS_RemoveElement
<1>7. Cardinality(T \ {x}) \in Nat /\ Cardinality(T) \in Nat
  BY <1>1
<1>8. <<Cardinality(T \ {x}), n>> \in Less
  BY <1>4, <1>6, <1>7 DEF OpToRel
<1>9. Cardinality(T \ {x}) \in Sizes
  BY <1>5
<1>. HIDE DEF Less, Sizes
<1>. QED
  BY <1>3, <1>8, <1>9

\* The same for numbers: what holds of 0, and of n + 1 if it holds of n.
LEMMA UpTo ==
  ASSUME NEW N \in Nat, NEW P, 0 \in P,
         \A n \in 0..(N - 1) : n \in P => n + 1 \in P
  PROVE  \A n \in 0..N : n \in P
<1>. DEFINE Bad == {n \in 0..N : n \notin P}
            Less == OpToRel(<, Nat)
<1>1. SUFFICES ASSUME Bad # {} PROVE FALSE
  OBVIOUS
<1>2. PICK n \in Bad : \A m \in Bad : <<m, n>> \notin Less
  <2>1. Bad \subseteq Nat
    OBVIOUS
  <2>. HIDE DEF Bad, Less
  <2>2. IsWellFoundedOn(Less, Nat)
    BY NatLessThanWellFounded DEF Less
  <2>. QED
    BY <1>1, <2>1, <2>2, WFMin
<1>3. n \in 1..N /\ n - 1 \in 0..(N - 1) /\ n = (n - 1) + 1
  OBVIOUS
<1>4. n - 1 \in Bad
  BY <1>3
<1>5. <<n - 1, n>> \in Less
  BY <1>3 DEF OpToRel
<1>. HIDE DEF Bad, Less
<1>. QED
  BY <1>2, <1>4, <1>5
-----------------------------------------------------------------------------
(***************************************************************************)
(* The recursion that computes a sum has exactly one solution.             *)
(***************************************************************************)
Chosen(s) == CHOOSE x \in s : TRUE
SumStep(f, g, s) == IF s = {} THEN 0 ELSE f[Chosen(s)] + g[s \ {Chosen(s)}]
Sums(f, S, g) == g = [s \in SUBSET S |-> SumStep(f, g, s)]

\* What sums a set sums each smaller set alike.
LEMMA SumUnique ==
  ASSUME NEW f, NEW S, IsFiniteSet(S), NEW T, NEW g, NEW h,
         Sums(f, S, g), Sums(f, T, h), S \subseteq T
  PROVE  \A U \in SUBSET S : g[U] = h[U]
<1>. DEFINE P == {U \in SUBSET S : g[U] = h[U]}
<1>1. ASSUME NEW U \in SUBSET S, \A x \in U : U \ {x} \in P
      PROVE  U \in P
  <2>1. g[U] = SumStep(f, g, U) /\ h[U] = SumStep(f, h, U)
    BY DEF Sums
  <2>2. U # {} => Chosen(U) \in U
    BY DEF Chosen
  <2>. QED
    BY <1>1, <2>1, <2>2 DEF SumStep
<1>2. \A U \in SUBSET S : U \in P
  <2>. HIDE DEF P
  <2>. QED
    BY <1>1, SubsetInduction
<1>. QED
  BY <1>2

\* Every finite set has its sums.
LEMMA SumExists ==
  ASSUME NEW f, NEW S, IsFiniteSet(S)
  PROVE  \E g : Sums(f, S, g)
<1>. DEFINE P == {T \in SUBSET S : \E g : Sums(f, T, g)}
<1>1. ASSUME NEW T \in SUBSET S, \A x \in T : T \ {x} \in P
      PROVE  T \in P
  <2>1. CASE T = {}
    <3>. DEFINE g == [s \in SUBSET T |-> 0]
    <3>1. Sums(f, T, g)
      BY <2>1 DEF Sums, SumStep
    <3>. QED
      BY <3>1
  <2>2. CASE T # {}
    <3>. DEFINE Less(x) == CHOOSE g : Sums(f, T \ {x}, g)
                G(s) == Less(CHOOSE x \in T : x \notin s)[s]
                g == [s \in SUBSET T |->
                        IF s = T THEN f[Chosen(T)] + G(T \ {Chosen(T)}) ELSE G(s)]
    <3>1. \A x \in T : Sums(f, T \ {x}, Less(x))
      BY <1>1
    <3>2. ASSUME NEW s \in SUBSET T, NEW x \in T, x \notin s
          PROVE  G(s) = Less(x)[s]
      <4>1. PICK y \in T : y \notin s /\ G(s) = Less(y)[s]
        BY <3>2
      <4>. HIDE DEF Less, G
      <4>. DEFINE C == T \ {x, y}
                  h == [u \in SUBSET C |-> Less(x)[u]]
      <4>2. IsFiniteSet(C)
        BY FS_Subset
      <4>3. Sums(f, C, h)
        <5>1. Less(x) = [u \in SUBSET (T \ {x}) |-> SumStep(f, Less(x), u)]
          BY <3>1 DEF Sums
        <5>2. \A u \in SUBSET C : h[u] = SumStep(f, h, u)
          <6>. TAKE u \in SUBSET C
          <6>1. h[u] = SumStep(f, Less(x), u)
            BY <5>1
          <6>2. u \ {Chosen(u)} \in SUBSET C
            OBVIOUS
          <6>. QED
            BY <6>1, <6>2 DEF SumStep
        <5>3. h = [u \in SUBSET C |-> h[u]]
          OBVIOUS
        <5>. HIDE DEF h
        <5>. QED
          BY <5>2, <5>3 DEF Sums
      <4>. HIDE DEF h
      <4>4. \A u \in SUBSET C : h[u] = Less(y)[u]
        <5>1. Sums(f, T \ {y}, Less(y)) /\ C \subseteq T \ {y}
          BY <3>1 DEF C
        <5>. HIDE DEF C
        <5>. QED
          BY <4>2, <4>3, <5>1, SumUnique
      <4>5. h[s] = Less(x)[s]
        BY <3>2, <4>1 DEF h
      <4>. QED
        BY <3>2, <4>1, <4>4, <4>5
    <3>3. ASSUME NEW s \in SUBSET T, s # T
          PROVE  g[s] = SumStep(f, g, s)
      <4>1. PICK x \in T : x \notin s
        BY <3>3
      <4>2. g[s] = Less(x)[s]
        BY <3>2, <3>3, <4>1
      <4>3. Less(x)[s] = SumStep(f, Less(x), s)
        <5>1. Sums(f, T \ {x}, Less(x)) /\ s \in SUBSET (T \ {x})
          BY <3>1, <4>1
        <5>. HIDE DEF Less
        <5>. QED
          BY <5>1 DEF Sums
      <4>4. \A u \in SUBSET s : g[u] = Less(x)[u]
        <5>. TAKE u \in SUBSET s
        <5>1. u \in SUBSET T /\ u # T /\ x \notin u
          BY <4>1
        <5>2. G(u) = Less(x)[u]
          BY <3>2, <5>1
        <5>. QED
          BY <5>1, <5>2
      <4>. HIDE DEF g, Less
      <4>. QED
        BY <4>2, <4>3, <4>4 DEF SumStep
    <3>4. g[T] = SumStep(f, g, T)
      <4>1. Chosen(T) \in T
        BY <2>2 DEF Chosen
      <4>2. T \ {Chosen(T)} # T
        BY <4>1
      <4>. HIDE DEF G
      <4>. QED
        BY <2>2, <4>2 DEF SumStep
    <3>. HIDE DEF g
    <3>5. g = [s \in SUBSET T |-> g[s]]
      BY DEF g
    <3>6. \A s \in SUBSET T : g[s] = SumStep(f, g, s)
      BY <3>3, <3>4
    <3>7. Sums(f, T, g)
      BY <3>5, <3>6 DEF Sums
    <3>. QED
      BY <3>7
  <2>. QED
    BY <2>1, <2>2
<1>2. \A T \in SUBSET S : T \in P
  <2>. HIDE DEF P
  <2>. QED
    BY <1>1, SubsetInduction
<1>. QED
  BY <1>2
-----------------------------------------------------------------------------
(***************************************************************************)
(* Sums of integers.                                                       *)
(***************************************************************************)
LEMMA SumSolves ==
  ASSUME NEW f, NEW S, IsFiniteSet(S)
  PROVE  \E g : Sums(f, S, g) /\ \A T \in SUBSET S : SumFunctionOnSet(f, T) = g[T]
<1>. DEFINE Solution(T) == CHOOSE g : Sums(f, T, g)
<1>1. \A T \in SUBSET S : SumFunctionOnSet(f, T) = Solution(T)[T]
  BY DEF SumFunctionOnSet, FoldFunctionOnSet, MapThenFoldSet, Sums, SumStep, Chosen
<1>2. \A T \in SUBSET S : Sums(f, T, Solution(T)) /\ IsFiniteSet(T)
  BY FS_Subset, SumExists
<1>. HIDE DEF Solution
<1>3. \A T \in SUBSET S : Solution(T)[T] = Solution(S)[T]
  BY <1>2, SumUnique
<1>. QED
  BY <1>1, <1>2, <1>3

\* The sum of nothing is zero.
LEMMA SumEmpty ==
  ASSUME NEW f
  PROVE  SumFunctionOnSet(f, {}) = 0
<1>1. PICK g : Sums(f, {}, g) /\ SumFunctionOnSet(f, {}) = g[{}]
  BY SumSolves, FS_EmptySet
<1>. QED
  BY <1>1 DEF Sums, SumStep

\* The fold adds the chosen element to the sum of the others.
LEMMA SumPick ==
  ASSUME NEW f, NEW S, IsFiniteSet(S), S # {}
  PROVE  SumFunctionOnSet(f, S)
           = f[Chosen(S)] + SumFunctionOnSet(f, S \ {Chosen(S)})
<1>1. PICK g : Sums(f, S, g) /\ \A T \in SUBSET S : SumFunctionOnSet(f, T) = g[T]
  BY SumSolves
<1>2. g[S] = f[Chosen(S)] + g[S \ {Chosen(S)}]
  BY <1>1 DEF Sums, SumStep
<1>. QED
  BY <1>1, <1>2

\* The sum of numbers is a number.
LEMMA SumInt ==
  ASSUME NEW f, NEW S, IsFiniteSet(S), \A x \in S : f[x] \in Int
  PROVE  SumFunctionOnSet(f, S) \in Int
<1>. DEFINE P == {T \in SUBSET S : SumFunctionOnSet(f, T) \in Int}
<1>1. ASSUME NEW T \in SUBSET S, \A x \in T : T \ {x} \in P
      PROVE  T \in P
  <2>1. CASE T = {}
    BY <2>1, SumEmpty
  <2>2. CASE T # {}
    <3>1. Chosen(T) \in T
      BY <2>2 DEF Chosen
    <3>2. SumFunctionOnSet(f, T)
            = f[Chosen(T)] + SumFunctionOnSet(f, T \ {Chosen(T)})
      BY <2>2, SumPick, FS_Subset
    <3>. QED
      BY <1>1, <3>1, <3>2
  <2>. QED
    BY <2>1, <2>2
<1>2. \A T \in SUBSET S : T \in P
  <2>. HIDE DEF P
  <2>. QED
    BY <1>1, SubsetInduction
<1>. QED
  BY <1>2

\* Any element may be taken out first.
LEMMA SumRemove ==
  ASSUME NEW f, NEW S, IsFiniteSet(S), \A x \in S : f[x] \in Int, NEW y \in S
  PROVE  SumFunctionOnSet(f, S) = f[y] + SumFunctionOnSet(f, S \ {y})
<1>. DEFINE Sum(T) == SumFunctionOnSet(f, T)
            P == {T \in SUBSET S : \A x \in T : Sum(T) = f[x] + Sum(T \ {x})}
<1>0. \A T \in SUBSET S : IsFiniteSet(T) /\ Sum(T) \in Int
  BY FS_Subset, SumInt
<1>1. ASSUME NEW T \in SUBSET S, \A x \in T : T \ {x} \in P
      PROVE  T \in P
  <2>. SUFFICES ASSUME NEW x \in T
                PROVE  Sum(T) = f[x] + Sum(T \ {x})
    OBVIOUS
  <2>. DEFINE p == Chosen(T)
  <2>1. p \in T /\ Sum(T) = f[p] + Sum(T \ {p})
    BY <1>0, SumPick DEF Chosen
  <2>. HIDE DEF p, Sum
  <2>2. CASE x # p
    <3>. DEFINE R == (T \ {p}) \ {x}
    <3>1. Sum(T \ {p}) = f[x] + Sum(R)
      BY <1>1, <2>1, <2>2
    <3>2. Sum(T \ {x}) = f[p] + Sum((T \ {x}) \ {p})
      BY <1>1, <2>1, <2>2
    <3>3. (T \ {x}) \ {p} = R
      OBVIOUS
    <3>4. Sum(R) \in Int /\ f[p] \in Int /\ f[x] \in Int
      BY <1>0, <2>1
    <3>. HIDE DEF R
    <3>5. Sum(T \ {x}) = f[p] + Sum(R)
      BY <3>2, <3>3
    <3>6. Sum(T) = f[p] + (f[x] + Sum(R))
      BY <2>1, <3>1
    <3>7. Sum(T) = f[x] + (f[p] + Sum(R))
      BY <3>4, <3>6
    <3>. QED
      BY <3>5, <3>7
  <2>. QED
    BY <2>1, <2>2
<1>2. \A T \in SUBSET S : T \in P
  <2>. HIDE DEF P
  <2>. QED
    BY <1>1, SubsetInduction
<1>. QED
  BY <1>2

\* One element more adds its value.
LEMMA SumAdd ==
  ASSUME NEW f, NEW S, IsFiniteSet(S), NEW y, y \notin S,
         \A x \in S \cup {y} : f[x] \in Int
  PROVE  SumFunctionOnSet(f, S \cup {y}) = f[y] + SumFunctionOnSet(f, S)
<1>1. IsFiniteSet(S \cup {y})
  BY FS_AddElement
<1>2. (S \cup {y}) \ {y} = S
  OBVIOUS
<1>. QED
  BY <1>1, <1>2, SumRemove

\* Two functions that agree, or of which one stays below the other.
LEMMA SumAgree ==
  ASSUME NEW f, NEW g, NEW S, IsFiniteSet(S), \A x \in S : f[x] = g[x]
  PROVE  SumFunctionOnSet(f, S) = SumFunctionOnSet(g, S)
<1>. DEFINE P == {T \in SUBSET S : SumFunctionOnSet(f, T) = SumFunctionOnSet(g, T)}
<1>1. ASSUME NEW T \in SUBSET S, \A x \in T : T \ {x} \in P
      PROVE  T \in P
  <2>1. T # {} =>
          /\ Chosen(T) \in T
          /\ \A h \in {f, g} : SumFunctionOnSet(h, T)
                                 = h[Chosen(T)] + SumFunctionOnSet(h, T \ {Chosen(T)})
    BY FS_Subset, SumPick DEF Chosen
  <2>. QED
    BY <1>1, <2>1, SumEmpty
<1>2. \A T \in SUBSET S : T \in P
  <2>. HIDE DEF P
  <2>. QED
    BY <1>1, SubsetInduction
<1>. QED
  BY <1>2

\* Of two functions the one that stays below has the smaller sum.
LEMMA SumBelow ==
  ASSUME NEW f, NEW g, NEW S, IsFiniteSet(S),
         \A x \in S : f[x] \in Int /\ g[x] \in Int /\ f[x] <= g[x]
  PROVE  SumFunctionOnSet(f, S) <= SumFunctionOnSet(g, S)
<1>. DEFINE P == {T \in SUBSET S : SumFunctionOnSet(f, T) <= SumFunctionOnSet(g, T)}
<1>1. ASSUME NEW T \in SUBSET S, \A x \in T : T \ {x} \in P
      PROVE  T \in P
  <2>1. CASE T = {}
    BY <2>1, SumEmpty
  <2>2. CASE T # {}
    <3>. DEFINE p == Chosen(T)
    <3>1. /\ p \in T
          /\ SumFunctionOnSet(f, T) = f[p] + SumFunctionOnSet(f, T \ {p})
          /\ SumFunctionOnSet(g, T) = g[p] + SumFunctionOnSet(g, T \ {p})
      BY <2>2, FS_Subset, SumPick DEF Chosen
    <3>. HIDE DEF p
    <3>2. /\ SumFunctionOnSet(f, T \ {p}) \in Int
          /\ SumFunctionOnSet(g, T \ {p}) \in Int
      BY SumInt, FS_Subset
    <3>. QED
      BY <1>1, <3>1, <3>2
  <2>. QED
    BY <2>1, <2>2
<1>2. \A T \in SUBSET S : T \in P
  <2>. HIDE DEF P
  <2>. QED
    BY <1>1, SubsetInduction
<1>. QED
  BY <1>2

\* Zeros add up to zero.
LEMMA SumZero ==
  ASSUME NEW f, NEW S, IsFiniteSet(S), \A x \in S : f[x] = 0
  PROVE  SumFunctionOnSet(f, S) = 0
<1>. DEFINE P == {T \in SUBSET S : SumFunctionOnSet(f, T) = 0}
<1>1. ASSUME NEW T \in SUBSET S, \A x \in T : T \ {x} \in P
      PROVE  T \in P
  <2>1. T # {} =>
          /\ Chosen(T) \in T
          /\ SumFunctionOnSet(f, T)
               = f[Chosen(T)] + SumFunctionOnSet(f, T \ {Chosen(T)})
    BY FS_Subset, SumPick DEF Chosen
  <2>. QED
    BY <1>1, <2>1, SumEmpty
<1>2. \A T \in SUBSET S : T \in P
  <2>. HIDE DEF P
  <2>. QED
    BY <1>1, SubsetInduction
<1>. QED
  BY <1>2

\* Naturals add up to a natural.
LEMMA SumNat ==
  ASSUME NEW f, NEW S, IsFiniteSet(S), \A x \in S : f[x] \in Nat
  PROVE  SumFunctionOnSet(f, S) \in Nat
<1>. DEFINE zero == [x \in S |-> 0]
<1>1. SumFunctionOnSet(zero, S) = 0
  BY SumZero
<1>2. SumFunctionOnSet(zero, S) <= SumFunctionOnSet(f, S)
  <2>1. \A x \in S : zero[x] \in Int /\ f[x] \in Int /\ zero[x] <= f[x]
    OBVIOUS
  <2>. HIDE DEF zero
  <2>. QED
    BY <2>1, SumBelow
<1>3. SumFunctionOnSet(f, S) \in Int
  BY SumInt
<1>. QED
  BY <1>1, <1>2, <1>3

\* Sums of disjoint sets add up.
LEMMA SumUnion ==
  ASSUME NEW f, NEW S, NEW T, IsFiniteSet(S), IsFiniteSet(T), S \cap T = {},
         \A x \in S \cup T : f[x] \in Int
  PROVE  SumFunctionOnSet(f, S \cup T)
           = SumFunctionOnSet(f, S) + SumFunctionOnSet(f, T)
<1>. DEFINE Sum(U) == SumFunctionOnSet(f, U)
            P == {U \in SUBSET T : Sum(S \cup U) = Sum(S) + Sum(U)}
<1>0. \A U \in SUBSET T : /\ IsFiniteSet(U) /\ IsFiniteSet(S \cup U)
                          /\ Sum(U) \in Int
  <2>1. \A U \in SUBSET T : IsFiniteSet(U)
    BY FS_Subset
  <2>. QED
    BY <2>1, FS_Union, SumInt
<1>2. Sum(S) \in Int
  BY SumInt
<1>1. ASSUME NEW U \in SUBSET T, \A x \in U : U \ {x} \in P
      PROVE  U \in P
  <2>1. CASE U = {}
    <3>1. S \cup U = S
      BY <2>1
    <3>. QED
      BY <1>2, <2>1, <3>1, SumEmpty
  <2>2. CASE U # {}
    <3>1. PICK x \in U : TRUE
      BY <2>2
    <3>2. Sum(U) = f[x] + Sum(U \ {x})
      <4>1. IsFiniteSet(U) /\ \A z \in U : f[z] \in Int
        BY <1>0
      <4>. QED
        BY <4>1, SumRemove
    <3>3. Sum(S \cup U) = f[x] + Sum((S \cup U) \ {x})
      <4>. DEFINE V == S \cup U
      <4>1. IsFiniteSet(V) /\ x \in V /\ \A z \in V : f[z] \in Int
        BY <1>0
      <4>. HIDE DEF V
      <4>2. Sum(V) = f[x] + Sum(V \ {x})
        BY <4>1, SumRemove
      <4>. QED
        BY <4>2 DEF V
    <3>5. f[x] \in Int /\ Sum(U \ {x}) \in Int /\ x \notin S
      BY <1>0
    <3>4. (S \cup U) \ {x} = S \cup (U \ {x})
      OBVIOUS
    <3>6. Sum(S \cup (U \ {x})) = Sum(S) + Sum(U \ {x})
      BY <1>1
    <3>. HIDE DEF Sum
    <3>7. Sum(S \cup U) = f[x] + (Sum(S) + Sum(U \ {x}))
      BY <3>3, <3>4, <3>6
    <3>8. Sum(S) + Sum(U) = Sum(S) + (f[x] + Sum(U \ {x}))
      BY <3>2
    <3>9. Sum(S \cup U) = Sum(S) + Sum(U)
      BY <1>2, <3>5, <3>7, <3>8
    <3>. QED
      BY <3>9 DEF P
  <2>. QED
    BY <2>1, <2>2
<1>3. \A U \in SUBSET T : U \in P
  <2>. HIDE DEF P
  <2>. QED
    BY <1>1, SubsetInduction
<1>. QED
  BY <1>3

\* Of naturals, part of a set sums up to no more than all of it.
LEMMA SumSubset ==
  ASSUME NEW f, NEW S, IsFiniteSet(S), \A x \in S : f[x] \in Nat, NEW T \in SUBSET S
  PROVE  SumFunctionOnSet(f, T) <= SumFunctionOnSet(f, S)
<1>1. /\ IsFiniteSet(T) /\ IsFiniteSet(S \ T)
      /\ T \cup (S \ T) = S /\ T \cap (S \ T) = {}
  BY FS_Subset
<1>2. SumFunctionOnSet(f, S) = SumFunctionOnSet(f, T) + SumFunctionOnSet(f, S \ T)
  BY <1>1, SumUnion
<1>3. SumFunctionOnSet(f, T) \in Nat /\ SumFunctionOnSet(f, S \ T) \in Nat
  BY <1>1, SumNat
<1>. QED
  BY <1>2, <1>3

\* Sums of two functions add up.
LEMMA SumPlus ==
  ASSUME NEW f, NEW g, NEW h, NEW S, IsFiniteSet(S),
         \A x \in S : f[x] \in Int /\ g[x] \in Int /\ h[x] = f[x] + g[x]
  PROVE  SumFunctionOnSet(h, S) = SumFunctionOnSet(f, S) + SumFunctionOnSet(g, S)
<1>. DEFINE P == {T \in SUBSET S :
                    SumFunctionOnSet(h, T)
                      = SumFunctionOnSet(f, T) + SumFunctionOnSet(g, T)}
<1>1. ASSUME NEW T \in SUBSET S, \A x \in T : T \ {x} \in P
      PROVE  T \in P
  <2>1. CASE T = {}
    BY <2>1, SumEmpty
  <2>2. CASE T # {}
    <3>. DEFINE p == Chosen(T)
    <3>1. /\ p \in T
          /\ SumFunctionOnSet(f, T) = f[p] + SumFunctionOnSet(f, T \ {p})
          /\ SumFunctionOnSet(g, T) = g[p] + SumFunctionOnSet(g, T \ {p})
          /\ SumFunctionOnSet(h, T) = h[p] + SumFunctionOnSet(h, T \ {p})
      BY <2>2, FS_Subset, SumPick DEF Chosen
    <3>. HIDE DEF p
    <3>2. /\ SumFunctionOnSet(f, T \ {p}) \in Int
          /\ SumFunctionOnSet(g, T \ {p}) \in Int
      BY SumInt, FS_Subset
    <3>. QED
      BY <1>1, <3>1, <3>2
  <2>. QED
    BY <2>1, <2>2
<1>2. \A T \in SUBSET S : T \in P
  <2>. HIDE DEF P
  <2>. QED
    BY <1>1, SubsetInduction
<1>. QED
  BY <1>2
-----------------------------------------------------------------------------
\* The sum of the first n + 1 is the sum of the first n and the last.
LEMMA SumNext ==
  ASSUME NEW f, NEW n \in Nat, \A i \in 1..(n + 1) : f[i] \in Int
  PROVE  /\ SumFunctionOnSet(f, 1..n) \in Int
         /\ SumFunctionOnSet(f, 1..(n + 1)) = SumFunctionOnSet(f, 1..n) + f[n + 1]
<1>1. IsFiniteSet(1..n) /\ n + 1 \notin 1..n /\ 1..(n + 1) = (1..n) \cup {n + 1}
  BY FS_Interval
<1>2. SumFunctionOnSet(f, 1..n) \in Int
  BY <1>1, SumInt
<1>3. SumFunctionOnSet(f, (1..n) \cup {n + 1}) = f[n + 1] + SumFunctionOnSet(f, 1..n)
  BY <1>1, SumAdd
<1>4. f[n + 1] \in Int
  OBVIOUS
<1>. DEFINE all == SumFunctionOnSet(f, 1..(n + 1))
            first == SumFunctionOnSet(f, 1..n)
<1>5. all = f[n + 1] + first
  BY <1>1, <1>3
<1>. HIDE DEF all, first
<1>6. first \in Int
  BY <1>2 DEF first
<1>7. all = first + f[n + 1]
  BY <1>4, <1>5, <1>6
<1>. QED
  BY <1>6, <1>7 DEF all, first

\* The larger and the smaller of two numbers.
LEMMA MaxMin ==
  ASSUME NEW a \in Int, NEW b \in Int
  PROVE  /\ Max({a, b}) = IF a >= b THEN a ELSE b
         /\ Min({a, b}) = IF a <= b THEN a ELSE b
  BY DEF Max, Min
-----------------------------------------------------------------------------
(***************************************************************************)
(* Recursion and greedy distribution over the numbers up to a bound.       *)
(***************************************************************************)
\* The greatest of a bounded set of numbers.
LEMMA MaxOf ==
  ASSUME NEW N \in Nat, NEW S \in SUBSET (1..N), S # {}
  PROVE  Max(S) \in S /\ \A y \in S : Max(S) >= y
<1>. DEFINE Greatest(T) == \E x \in T : \A y \in T : x >= y
            P == {n \in 0..N : \A T \in SUBSET (1..n) : T # {} => Greatest(T)}
<1>1. 0 \in P
  <2>1. 1..0 = {} /\ 0 \in 0..N
    OBVIOUS
  <2>2. \A T \in SUBSET (1..0) : T # {} => Greatest(T)
    BY <2>1
  <2>. HIDE DEF Greatest
  <2>. QED
    BY <2>1, <2>2
<1>2. ASSUME NEW n \in 0..(N - 1), n \in P
      PROVE  n + 1 \in P
  <2>1. n \in Nat /\ n + 1 \in 0..N
    OBVIOUS
  <2>2. ASSUME NEW T \in SUBSET (1..(n + 1)), T # {}
        PROVE  Greatest(T)
    <3>1. CASE n + 1 \in T
      <4>1. \A y \in T : n + 1 >= y
        BY <2>1
      <4>. QED
        BY <3>1, <4>1
    <3>2. CASE n + 1 \notin T
      <4>1. T \in SUBSET (1..n)
        BY <2>1, <3>2
      <4>. QED
        BY <1>2, <2>2, <4>1
    <3>. QED
      BY <3>1, <3>2
  <2>. QED
    BY <2>1, <2>2
<1>. HIDE DEF P
<1>3. \A n \in 0..N : n \in P
  BY <1>1, <1>2, UpTo
<1>4. N \in P
  BY <1>3
<1>5. Greatest(S)
  BY <1>4 DEF P
<1>. QED
  BY <1>5 DEF Max

Steps(V, step) == \A v \in V : step[v] \in V

Iterated(f, N, first, step) ==
  \A i \in 0..N : f[i] = IF i = 0 THEN first ELSE step[f[i - 1]]

\* A function on 0..N that is given by its first value and a step from each
\* value to the next exists.
LEMMA Iterates ==
  ASSUME NEW N \in Nat, NEW V, NEW first \in V, NEW step, Steps(V, step)
  PROVE  \E f \in [0..N -> V] : Iterated(f, N, first, step)
<1>. DEFINE Solves(f, n) ==
              \A i \in 0..n : f[i] = IF i = 0 THEN first ELSE step[f[i - 1]]
            P == {n \in 0..N : \E f \in [0..n -> V] : Solves(f, n)}
<1>1. 0 \in P
  <2>. DEFINE f == [i \in 0..0 |-> first]
  <2>1. f \in [0..0 -> V]
    OBVIOUS
  <2>2. \A i \in 0..0 : i = 0 /\ f[i] = first
    OBVIOUS
  <2>. HIDE DEF f
  <2>3. Solves(f, 0)
    BY <2>2
  <2>. QED
    BY <2>1, <2>3
<1>2. ASSUME NEW n \in 0..(N - 1), n \in P
      PROVE  n + 1 \in P
  <2>1. n \in Nat /\ n + 1 \in 0..N
    OBVIOUS
  <2>2. PICK f \in [0..n -> V] : Solves(f, n)
    BY <1>2
  <2>. DEFINE g == [i \in 0..(n + 1) |-> IF i = n + 1 THEN step[f[n]] ELSE f[i]]
  <2>3. f[n] \in V /\ step[f[n]] \in V
    BY <2>1 DEF Steps
  <2>4. \A i \in 0..(n + 1) :
          /\ g[i] = IF i = n + 1 THEN step[f[n]] ELSE f[i]
          /\ i # n + 1 => i \in 0..n /\ f[i] \in V
          /\ i # 0 => i - 1 \in 0..n
    BY <2>1
  <2>5. g \in [0..(n + 1) -> V]
    BY <2>3, <2>4
  <2>6. ASSUME NEW i \in 0..(n + 1)
        PROVE  g[i] = IF i = 0 THEN first ELSE step[g[i - 1]]
    <3>1. CASE i = n + 1
      <4>1. g[i] = step[f[n]] /\ g[n] = f[n] /\ i # 0 /\ i - 1 = n
        BY <2>1, <3>1
      <4>. QED
        BY <4>1
    <3>2. CASE i # n + 1
      <4>1. i \in 0..n /\ g[i] = f[i]
        BY <2>4, <3>2
      <4>2. i # 0 => g[i - 1] = f[i - 1]
        BY <2>1, <4>1
      <4>. QED
        BY <2>2, <4>1, <4>2
    <3>. QED
      BY <3>1, <3>2
  <2>. HIDE DEF g
  <2>7. Solves(g, n + 1)
    BY <2>6
  <2>. QED
    BY <2>1, <2>5, <2>7
<1>. HIDE DEF P
<1>3. \A n \in 0..N : n \in P
  BY <1>1, <1>2, UpTo
<1>4. N \in P
  BY <1>3
<1>. QED
  BY <1>4 DEF P, Iterated

\* Differences of successive values add up to the difference of the ends.
LEMMA Telescopes ==
  ASSUME NEW N \in Nat, NEW x, NEW f, \A i \in 0..N : x[i] \in Int,
         \A i \in 1..N : f[i] = x[i - 1] - x[i]
  PROVE  SumFunctionOnSet(f, 1..N) = x[0] - x[N]
<1>. DEFINE P == {n \in 0..N : SumFunctionOnSet(f, 1..n) = x[0] - x[n]}
<1>1. 0 \in P
  <2>1. 1..0 = {} /\ x[0] \in Int
    OBVIOUS
  <2>. QED
    BY <2>1, SumEmpty
<1>2. ASSUME NEW n \in 0..(N - 1), n \in P
      PROVE  n + 1 \in P
  <2>1. n \in Nat /\ n + 1 \in 1..N /\ n \in 0..N
    OBVIOUS
  <2>2. \A i \in 1..(n + 1) : i \in 1..N /\ i \in 0..N /\ i - 1 \in 0..N
    BY <2>1
  <2>3. \A i \in 1..(n + 1) : f[i] \in Int
    BY <2>2
  <2>4. SumFunctionOnSet(f, 1..(n + 1)) = SumFunctionOnSet(f, 1..n) + f[n + 1]
    BY <2>1, <2>3, SumNext
  <2>5. f[n + 1] = x[n] - x[n + 1] /\ x[n] \in Int /\ x[n + 1] \in Int /\ x[0] \in Int
    <3>1. (n + 1) - 1 = n
      BY <2>1
    <3>. QED
      BY <2>1, <2>2, <3>1
  <2>. QED
    BY <1>2, <2>1, <2>4, <2>5
<1>. HIDE DEF P
<1>3. \A n \in 0..N : n \in P
  BY <1>1, <1>2, UpTo
<1>. QED
  BY <1>3 DEF P

\* An amount serves debts in order, each as far as what the debts before it
\* leave: nobody gets more than it is due, and all of the amount is spent, or
\* all of the debts are paid.
LEMMA Served ==
  ASSUME NEW N \in Nat, NEW due, NEW share, NEW amount \in Nat,
         \A i \in 1..N :
           /\ due[i] \in Nat
           /\ share[i] = Max({0, Min({due[i], amount - SumFunctionOnSet(due, 1..(i - 1))})})
  PROVE  /\ \A i \in 1..N : share[i] \in 0..due[i]
         /\ SumFunctionOnSet(due, 1..N) \in Nat
         /\ SumFunctionOnSet(share, 1..N)
              = IF amount <= SumFunctionOnSet(due, 1..N) THEN amount
                ELSE SumFunctionOnSet(due, 1..N)
<1>. DEFINE F(n) == SumFunctionOnSet(due, 1..n)
            G(n) == SumFunctionOnSet(share, 1..n)
            P == {n \in 0..N : /\ F(n) \in Nat
                               /\ \A i \in 1..n : share[i] \in 0..due[i]
                               /\ G(n) = IF amount <= F(n) THEN amount ELSE F(n)}
<1>1. 0 \in P
  <2>1. 1..0 = {} /\ F(0) = 0 /\ G(0) = 0
    BY SumEmpty
  <2>. QED
    BY <2>1
<1>2. ASSUME NEW n \in 0..(N - 1), n \in P
      PROVE  n + 1 \in P
  <2>1. n \in Nat /\ n + 1 \in 1..N /\ n + 1 \in 0..N /\ (n + 1) - 1 = n
    OBVIOUS
  <2>2. F(n) \in Nat /\ due[n + 1] \in Nat
        /\ G(n) = IF amount <= F(n) THEN amount ELSE F(n)
    BY <1>2, <2>1
  <2>3. share[n + 1] = Max({0, Min({due[n + 1], amount - F(n)})})
    BY <2>1
  <2>4. share[n + 1] = IF amount <= F(n) THEN 0
                       ELSE IF amount - F(n) <= due[n + 1] THEN amount - F(n)
                       ELSE due[n + 1]
    <3>. DEFINE owed == due[n + 1]
                left == amount - F(n)
    <3>1. owed \in Nat /\ left \in Int
      BY <2>2
    <3>0. share[n + 1] = Max({0, Min({owed, left})})
      BY <2>3
    <3>. HIDE DEF owed, left
    <3>3. Min({owed, left}) = IF owed <= left THEN owed ELSE left
      <4>1. owed \in Int /\ left \in Int
        BY <3>1
      <4>. QED
        BY ONLY <4>1, MaxMin
    <3>. DEFINE least == Min({owed, left})
    <3>2. share[n + 1] = Max({0, least})
      BY <3>0
    <3>4. least \in Int
      BY <3>1, <3>3
    <3>. HIDE DEF least
    <3>5. Max({0, least}) = IF 0 >= least THEN 0 ELSE least
      BY <3>4, MaxMin
    <3>6. share[n + 1] = IF left <= 0 THEN 0 ELSE IF left <= owed THEN left ELSE owed
      BY <3>1, <3>2, <3>3, <3>5 DEF least
    <3>. QED
      BY <2>2, <3>6 DEF owed, left
  <2>5. share[n + 1] \in 0..due[n + 1]
    BY <2>2, <2>4
  <2>6. \A i \in 1..(n + 1) : share[i] \in 0..due[i] /\ share[i] \in Int /\ due[i] \in Int
    <3>1. \A i \in 1..(n + 1) : i \in 1..n \/ i = n + 1
      BY <2>1
    <3>2. \A i \in 1..(n + 1) : share[i] \in 0..due[i]
      BY <1>2, <2>5, <3>1
    <3>3. \A i \in 1..(n + 1) : due[i] \in Nat
      <4>1. \A i \in 1..(n + 1) : i \in 1..N
        BY <2>1
      <4>. QED
        BY <4>1
    <3>. QED
      BY <3>2, <3>3
  <2>7. F(n + 1) = F(n) + due[n + 1] /\ G(n + 1) = G(n) + share[n + 1]
    BY <2>1, <2>6, SumNext
  <2>. HIDE DEF F, G
  <2>. QED
    BY <2>1, <2>2, <2>4, <2>6, <2>7
<1>3. \A n \in 0..N : n \in P
  <2>. HIDE DEF P
  <2>. QED
    BY <1>1, <1>2, UpTo
<1>4. N \in P
  <2>1. N \in 0..N
    OBVIOUS
  <2>. HIDE DEF P
  <2>. QED
    BY <1>3, <2>1
<1>. QED
  BY <1>4
=============================================================================
