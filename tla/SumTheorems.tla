----------------------------- MODULE SumTheorems -----------------------------
(***************************************************************************)
(* What a sum over a finite set is, as the models use it:                  *)
(* SumFunctionOnSet(f, S) of the community module Functions.  The module   *)
(* defines it by a fold that takes the elements in an arbitrary order; here *)
(* are the facts that the proofs about totals need: the fold is well       *)
(* defined, the order does not matter, and what one update changes.        *)
(*                                                                         *)
(* The induction over the number of elements is by least counterexample.   *)
(***************************************************************************)
EXTENDS Integers, FiniteSets, Functions, FiniteSetTheorems, NaturalsInduction,
        WellFoundedInduction, TLAPS

-----------------------------------------------------------------------------
(* Induction. *)

\* A nonempty set of naturals has a least element.
LEMMA LeastNatural ==
  ASSUME NEW S \in SUBSET Nat, S # {}
  PROVE  \E x \in S : \A y \in S : x <= y
<1> DEFINE Less == {ss \in Nat \X Nat : ss[1] < ss[2]}
<1>1. IsWellFoundedOn(Less, Nat)
  BY NatLessThanWellFounded DEF OpToRel
<1>2. PICK x \in S : \A y \in S : <<y, x>> \notin Less
  <2> HIDE DEF Less
  <2> QED  BY <1>1, WFMin
<1>3. ASSUME NEW y \in S  PROVE x <= y
  <2>1. x \in Nat /\ y \in Nat /\ <<y, x>> \in Nat \X Nat
    OBVIOUS
  <2>2. ~(y < x)
    BY <1>2, <2>1
  <2> QED  BY <2>1, <2>2
<1> QED  BY <1>3

\* A set of naturals that holds n whenever it holds all that is below n is Nat.
LEMMA AllNaturals ==
  ASSUME NEW H \in SUBSET Nat, \A n \in Nat : (\A m \in Nat : m < n => m \in H) => n \in H
  PROVE  H = Nat
<1>1. SUFFICES ASSUME H # Nat PROVE FALSE
  OBVIOUS
<1>2. PICK n \in Nat \ H : \A m \in Nat \ H : n <= m
  <2>1. Nat \ H \in SUBSET Nat /\ Nat \ H # {}
    BY <1>1
  <2> QED  BY <2>1, LeastNatural
<1>3. ASSUME NEW m \in Nat, m < n PROVE m \in H
  <2>1. ~(n <= m)
    BY <1>3
  <2> QED  BY <1>2, <2>1
<1> QED  BY <1>2, <1>3

\* To prove that all subsets of a finite set are in H, prove that T is whenever
\* what is left of T without any one element is.
LEMMA AllSubsets ==
  ASSUME NEW S, IsFiniteSet(S), NEW H,
         \A T \in SUBSET S : (\A x \in T : T \ {x} \in H) => T \in H
  PROVE  \A T \in SUBSET S : T \in H
<1> DEFINE N == {n \in Nat : \A T \in SUBSET S : Cardinality(T) = n => T \in H}
<1>1. ASSUME NEW n \in Nat, \A m \in Nat : m < n => m \in N
      PROVE  n \in N
  <2>1. ASSUME NEW T \in SUBSET S, Cardinality(T) = n
        PROVE  T \in H
    <3>1. ASSUME NEW x \in T PROVE T \ {x} \in H
      <4>1. IsFiniteSet(T)
        BY FS_Subset
      <4>2. Cardinality(T \ {x}) = n - 1 /\ IsFiniteSet(T \ {x})
        BY <2>1, <4>1, FS_RemoveElement
      <4>3. n - 1 \in Nat /\ n - 1 < n
        BY <4>2, FS_CardinalityType
      <4>4. n - 1 \in N
        BY <1>1, <4>3
      <4> QED  BY <4>2, <4>4
    <3> QED  BY <3>1
  <2> QED  BY <2>1
<1>2. N = Nat
  <2>1. N \in SUBSET Nat
    OBVIOUS
  <2> HIDE DEF N
  <2> QED  BY <1>1, <2>1, AllNaturals
<1>3. ASSUME NEW T \in SUBSET S PROVE T \in H
  <2>1. Cardinality(T) \in Nat
    BY FS_Subset, FS_CardinalityType
  <2> QED  BY <1>2, <2>1
<1> QED  BY <1>3

-----------------------------------------------------------------------------
(* The fold is well defined. *)

Pick(s) == CHOOSE x \in s : TRUE

\* F is the fold of f over the sets of Q.
IsFold(f, Q, F) ==
  F = [s \in Q |-> IF s = {} THEN 0 ELSE f[Pick(s)] + F[s \ {Pick(s)}]]

\* What the community module's definition says.
LEMMA SumIsFold ==
  ASSUME NEW f, NEW S
  PROVE  SumFunctionOnSet(f, S) = (CHOOSE F : IsFold(f, SUBSET S, F))[S]
BY Zenon DEF SumFunctionOnSet, FoldFunctionOnSet, MapThenFoldSet, IsFold, Pick

\* The fold takes an element of the set.
LEMMA PickIn ==
  ASSUME NEW s, s # {}
  PROVE  Pick(s) \in s
BY Zenon DEF Pick

\* The subsets of S with at most n elements.
UpTo(S, n) == {s \in SUBSET S : Cardinality(s) <= n}

\* Without the element that the fold takes, there is one element less.
LEMMA UpToStep ==
  ASSUME NEW S, IsFiniteSet(S), NEW n \in Nat, NEW s \in UpTo(S, n), s # {}
  PROVE  n - 1 \in Nat /\ s \ {Pick(s)} \in UpTo(S, n - 1)
<1>1. s \in SUBSET S /\ Cardinality(s) <= n
  BY DEF UpTo
<1>2. IsFiniteSet(s) /\ Cardinality(s) \in Nat
  BY <1>1, FS_Subset, FS_CardinalityType
<1>3. Cardinality(s \ {Pick(s)}) = Cardinality(s) - 1 /\ IsFiniteSet(s \ {Pick(s)})
  BY <1>2, PickIn, FS_RemoveElement
<1>4. Cardinality(s) - 1 \in Nat
  BY <1>3, FS_CardinalityType
<1> QED  BY <1>1, <1>2, <1>3, <1>4 DEF UpTo

\* The fold exists, by the number of elements.
LEMMA FoldUpTo ==
  ASSUME NEW f, NEW S, IsFiniteSet(S)
  PROVE  \A n \in Nat : \E F : IsFold(f, UpTo(S, n), F)
<1> DEFINE H == {n \in Nat : \E F : IsFold(f, UpTo(S, n), F)}
<1>1. ASSUME NEW n \in Nat, \A m \in Nat : m < n => m \in H
      PROVE  n \in H
  <2>1. CASE n = 0
    <3> DEFINE F == [s \in UpTo(S, 0) |-> 0]
    <3>1. ASSUME NEW s \in UpTo(S, 0) PROVE s = {}
      <4>1. s \in SUBSET S /\ Cardinality(s) <= 0
        BY DEF UpTo
      <4>2. IsFiniteSet(s) /\ Cardinality(s) \in Nat
        BY <4>1, FS_Subset, FS_CardinalityType
      <4> QED  BY <4>1, <4>2, FS_EmptySet
    <3>2. IsFold(f, UpTo(S, 0), F)
      BY <3>1 DEF IsFold
    <3> QED  BY <2>1, <3>2
  <2>2. CASE n # 0
    <3>1. n - 1 \in Nat /\ n - 1 < n
      BY <2>2
    <3>2. PICK F : IsFold(f, UpTo(S, n - 1), F)
      BY <1>1, <3>1
    <3> DEFINE G == [s \in UpTo(S, n) |-> IF s = {} THEN 0 ELSE f[Pick(s)] + F[s \ {Pick(s)}]]
    <3>3. \A s \in UpTo(S, n - 1) : s \in UpTo(S, n)
      BY <3>1, FS_Subset, FS_CardinalityType DEF UpTo
    <3>4. \A s \in UpTo(S, n - 1) : G[s] = F[s]
      BY <3>2, <3>3 DEF IsFold
    <3>5. \A s \in UpTo(S, n) : s # {} => G[s \ {Pick(s)}] = F[s \ {Pick(s)}]
      BY <3>4, UpToStep
    <3>6. IsFold(f, UpTo(S, n), G)
      BY <3>5 DEF IsFold
    <3> QED  BY <3>6
  <2> QED  BY <2>1, <2>2
<1>2. H = Nat
  <2>1. H \in SUBSET Nat
    OBVIOUS
  <2> HIDE DEF H
  <2> QED  BY <1>1, <2>1, AllNaturals
<1> QED  BY <1>2

\* So the fold that the definition chooses over all subsets is one.
LEMMA FoldExists ==
  ASSUME NEW f, NEW S, IsFiniteSet(S)
  PROVE  IsFold(f, SUBSET S, CHOOSE F : IsFold(f, SUBSET S, F))
<1>1. Cardinality(S) \in Nat
  BY FS_CardinalityType
<1>2. UpTo(S, Cardinality(S)) = SUBSET S
  BY FS_Subset DEF UpTo
<1>3. \E F : IsFold(f, SUBSET S, F)
  <2>1. \A n \in Nat : \E F : IsFold(f, UpTo(S, n), F)
    BY FoldUpTo
  <2>2. \E F : IsFold(f, UpTo(S, Cardinality(S)), F)
    BY <1>1, <2>1
  <2> QED  BY <1>2, <2>2, Zenon
<1> DEFINE P(F) == IsFold(f, SUBSET S, F)
<1>4. \E F : P(F)
  BY <1>3, Zenon
<1>5. P(CHOOSE F : P(F))
  <2> HIDE DEF P
  <2> QED  BY <1>4, Zenon
<1> QED  BY <1>5

\* Two folds agree where both are defined.
LEMMA FoldUnique ==
  ASSUME NEW f, NEW S, IsFiniteSet(S), NEW R \in SUBSET S, NEW F, NEW G,
         IsFold(f, SUBSET S, F), IsFold(f, SUBSET R, G)
  PROVE  \A T \in SUBSET R : F[T] = G[T]
<1> DEFINE H == {T \in SUBSET R : F[T] = G[T]}
<1>0. IsFiniteSet(R)
  BY FS_Subset
<1>1. ASSUME NEW T \in SUBSET R, \A x \in T : T \ {x} \in H
      PROVE  T \in H
  <2>1. T \in SUBSET S
    OBVIOUS
  <2>2. CASE T = {}
    BY <2>1, <2>2 DEF IsFold
  <2>3. CASE T # {}
    <3>1. F[T \ {Pick(T)}] = G[T \ {Pick(T)}]
      BY <1>1, <2>3, PickIn
    <3>2. F[T] = f[Pick(T)] + F[T \ {Pick(T)}]
      BY <2>1, <2>3 DEF IsFold
    <3>3. G[T] = f[Pick(T)] + G[T \ {Pick(T)}]
      BY <2>3 DEF IsFold
    <3> QED  BY <3>1, <3>2, <3>3
  <2> QED  BY <2>2, <2>3
<1>2. \A T \in SUBSET R : T \in H
  <2> HIDE DEF H
  <2> QED  BY <1>0, <1>1, AllSubsets
<1> QED  BY <1>2

-----------------------------------------------------------------------------
(* The equations of the sum. *)

\* The sum over the empty set is 0.
LEMMA SumEmpty ==
  ASSUME NEW f
  PROVE  SumFunctionOnSet(f, {}) = 0
<1> DEFINE F == CHOOSE K : IsFold(f, SUBSET {}, K)
<1>1. IsFold(f, SUBSET {}, F)
  BY FoldExists, FS_EmptySet
<1>2. F[{}] = 0
  <2> HIDE DEF F
  <2> QED  BY <1>1 DEF IsFold
<1> QED  BY <1>2, SumIsFold

\* The sum over a nonempty set, by the element that the fold takes first.
LEMMA SumPick ==
  ASSUME NEW f, NEW S, IsFiniteSet(S), S # {}
  PROVE  SumFunctionOnSet(f, S) = f[Pick(S)] + SumFunctionOnSet(f, S \ {Pick(S)})
<1> DEFINE R == S \ {Pick(S)}
           F == CHOOSE K : IsFold(f, SUBSET S, K)
           G == CHOOSE K : IsFold(f, SUBSET R, K)
<1>1. R \in SUBSET S /\ IsFiniteSet(R)
  BY FS_RemoveElement
<1>2. IsFold(f, SUBSET S, F) /\ IsFold(f, SUBSET R, G)
  <2> HIDE DEF R
  <2> QED  BY <1>1, FoldExists
<1>3. SumFunctionOnSet(f, S) = F[S] /\ SumFunctionOnSet(f, R) = G[R]
  BY SumIsFold
<1> HIDE DEF F, G
<1>4. F[R] = G[R]
  <2> HIDE DEF R
  <2> QED  BY <1>1, <1>2, FoldUnique
<1>5. F[S] = f[Pick(S)] + F[R]
  BY <1>2 DEF IsFold
<1> QED  BY <1>3, <1>4, <1>5

\* f has integer values on S.
IntOn(f, S) == \A x \in S : f[x] \in Int

\* The sum of integers is an integer.
LEMMA SumInt ==
  ASSUME NEW f, NEW S, IsFiniteSet(S), IntOn(f, S)
  PROVE  SumFunctionOnSet(f, S) \in Int
<1> DEFINE H == {T \in SUBSET S : SumFunctionOnSet(f, T) \in Int}
<1>1. ASSUME NEW T \in SUBSET S, \A x \in T : T \ {x} \in H
      PROVE  T \in H
  <2>1. CASE T = {}
    BY <2>1, SumEmpty
  <2>2. CASE T # {}
    <3>1. Pick(T) \in T /\ f[Pick(T)] \in Int
      BY <2>2, PickIn DEF IntOn
    <3>2. SumFunctionOnSet(f, T \ {Pick(T)}) \in Int
      BY <1>1, <3>1
    <3>3. IsFiniteSet(T)
      BY FS_Subset
    <3> QED  BY <2>2, <3>1, <3>2, <3>3, SumPick
  <2> QED  BY <2>1, <2>2
<1>2. \A T \in SUBSET S : T \in H
  <2> HIDE DEF H
  <2> QED  BY <1>1, AllSubsets
<1> QED  BY <1>2

\* The sum over a set is any one of its values plus the sum over the others.
LEMMA SumRemove ==
  ASSUME NEW f, NEW S, IsFiniteSet(S), IntOn(f, S), NEW y \in S
  PROVE  SumFunctionOnSet(f, S) = f[y] + SumFunctionOnSet(f, S \ {y})
<1> DEFINE H == {T \in SUBSET S : \A x \in T :
                   SumFunctionOnSet(f, T) = f[x] + SumFunctionOnSet(f, T \ {x})}
<1>1. ASSUME NEW T \in SUBSET S, \A x \in T : T \ {x} \in H
      PROVE  T \in H
  <2>1. ASSUME NEW x \in T
        PROVE  SumFunctionOnSet(f, T) = f[x] + SumFunctionOnSet(f, T \ {x})
    <3> DEFINE p == Pick(T)
               U == T \ {p}
               V == T \ {x}
               W == T \ {p, x}
    <3>1. p \in T /\ IsFiniteSet(T) /\ IsFiniteSet(U) /\ IsFiniteSet(V) /\ IsFiniteSet(W)
      <4>1. p \in T
        BY PickIn
      <4> QED  BY <4>1, FS_Subset
    <3>2. SumFunctionOnSet(f, T) = f[p] + SumFunctionOnSet(f, U)
      BY <3>1, SumPick
    <3>3. CASE p = x
      BY <3>2, <3>3
    <3>4. CASE p # x
      <4>1. x \in U /\ p \in V /\ U \ {x} = W /\ V \ {p} = W
        BY <3>1, <3>4
      <4>2. SumFunctionOnSet(f, U) = f[x] + SumFunctionOnSet(f, W)
        BY <1>1, <3>1, <4>1
      <4>3. SumFunctionOnSet(f, V) = f[p] + SumFunctionOnSet(f, W)
        BY <1>1, <3>1, <4>1
      <4>4. SumFunctionOnSet(f, W) \in Int /\ f[p] \in Int /\ f[x] \in Int
        <5>1. IntOn(f, W)
          BY DEF IntOn
        <5> QED  BY <3>1, <5>1, SumInt DEF IntOn
      <4> QED  BY <3>2, <4>2, <4>3, <4>4
    <3> QED  BY <3>3, <3>4
  <2> QED  BY <2>1
<1>2. \A T \in SUBSET S : T \in H
  <2> HIDE DEF H
  <2> QED  BY <1>1, AllSubsets
<1> QED  BY <1>2

-----------------------------------------------------------------------------
(* What the proofs about totals use. *)

\* Functions that agree on a set have the same sum over it.
LEMMA SumCongruent ==
  ASSUME NEW f, NEW g, NEW S, IsFiniteSet(S), \A x \in S : f[x] = g[x]
  PROVE  SumFunctionOnSet(f, S) = SumFunctionOnSet(g, S)
<1> DEFINE H == {T \in SUBSET S : SumFunctionOnSet(f, T) = SumFunctionOnSet(g, T)}
<1>1. ASSUME NEW T \in SUBSET S, \A x \in T : T \ {x} \in H
      PROVE  T \in H
  <2>1. CASE T = {}
    BY <2>1, SumEmpty
  <2>2. CASE T # {}
    <3>1. Pick(T) \in T /\ IsFiniteSet(T)
      BY <2>2, PickIn, FS_Subset
    <3>2. SumFunctionOnSet(f, T \ {Pick(T)}) = SumFunctionOnSet(g, T \ {Pick(T)})
      BY <1>1, <3>1
    <3>3. f[Pick(T)] = g[Pick(T)]
      BY <3>1
    <3> QED  BY <2>2, <3>1, <3>2, <3>3, SumPick
  <2> QED  BY <2>1, <2>2
<1>2. \A T \in SUBSET S : T \in H
  <2> HIDE DEF H
  <2> QED  BY <1>1, AllSubsets
<1> QED  BY <1>2

\* When one value changes, the sum changes by the difference.
LEMMA SumChange ==
  ASSUME NEW f, NEW g, NEW S, IsFiniteSet(S), IntOn(f, S), IntOn(g, S), NEW y \in S,
         \A x \in S \ {y} : g[x] = f[x]
  PROVE  SumFunctionOnSet(g, S) = SumFunctionOnSet(f, S) - f[y] + g[y]
<1> DEFINE R == S \ {y}
<1>1. IsFiniteSet(R) /\ IntOn(f, R)
  BY FS_RemoveElement DEF IntOn
<1>2. SumFunctionOnSet(g, R) = SumFunctionOnSet(f, R)
  <2>1. \A x \in R : g[x] = f[x]
    OBVIOUS
  <2> HIDE DEF R
  <2> QED  BY <1>1, <2>1, SumCongruent
<1>3. SumFunctionOnSet(f, S) = f[y] + SumFunctionOnSet(f, R)
  BY SumRemove
<1>4. SumFunctionOnSet(g, S) = g[y] + SumFunctionOnSet(g, R)
  BY SumRemove
<1>5. SumFunctionOnSet(f, R) \in Int /\ f[y] \in Int /\ g[y] \in Int
  BY <1>1, SumInt DEF IntOn
<1> QED  BY <1>2, <1>3, <1>4, <1>5

\* Adding an element adds its value.
LEMMA SumGrow ==
  ASSUME NEW f, NEW g, NEW S, IsFiniteSet(S), NEW y, y \notin S, IntOn(g, S \cup {y}),
         \A x \in S : g[x] = f[x]
  PROVE  SumFunctionOnSet(g, S \cup {y}) = SumFunctionOnSet(f, S) + g[y]
<1> DEFINE T == S \cup {y}
<1>1. IsFiniteSet(T) /\ y \in T /\ T \ {y} = S
  BY FS_AddElement
<1>2. SumFunctionOnSet(g, T) = g[y] + SumFunctionOnSet(g, S)
  <2> HIDE DEF T
  <2>1. SumFunctionOnSet(g, T) = g[y] + SumFunctionOnSet(g, T \ {y})
    BY <1>1, SumRemove DEF T
  <2> QED  BY <1>1, <2>1
<1>3. SumFunctionOnSet(g, S) = SumFunctionOnSet(f, S)
  BY SumCongruent
<1>4. SumFunctionOnSet(g, S) \in Int /\ g[y] \in Int
  <2>1. IntOn(g, S) /\ g[y] \in Int
    BY DEF IntOn
  <2> QED  BY <2>1, SumInt
<1> QED  BY <1>2, <1>3, <1>4

\* Removing an element removes its value.
LEMMA SumShrink ==
  ASSUME NEW f, NEW g, NEW S, IsFiniteSet(S), NEW y \in S, IntOn(f, S),
         \A x \in S \ {y} : g[x] = f[x]
  PROVE  SumFunctionOnSet(g, S \ {y}) = SumFunctionOnSet(f, S) - f[y]
<1> DEFINE R == S \ {y}
<1>1. IsFiniteSet(R) /\ IntOn(f, R)
  BY FS_RemoveElement DEF IntOn
<1>2. SumFunctionOnSet(f, S) = f[y] + SumFunctionOnSet(f, R)
  BY SumRemove
<1>3. SumFunctionOnSet(g, R) = SumFunctionOnSet(f, R)
  <2>1. \A x \in R : g[x] = f[x]
    OBVIOUS
  <2> HIDE DEF R
  <2> QED  BY <1>1, <2>1, SumCongruent
<1>4. SumFunctionOnSet(f, R) \in Int /\ f[y] \in Int
  BY <1>1, SumInt DEF IntOn
<1> QED  BY <1>2, <1>3, <1>4

\* A sum grows with its values; each side is an integer.
LEMMA SumMonotone ==
  ASSUME NEW f, NEW g, NEW S, IsFiniteSet(S), IntOn(f, S), IntOn(g, S),
         \A x \in S : f[x] <= g[x]
  PROVE  SumFunctionOnSet(f, S) <= SumFunctionOnSet(g, S)
<1> DEFINE H == {T \in SUBSET S : SumFunctionOnSet(f, T) <= SumFunctionOnSet(g, T)}
<1>1. ASSUME NEW T \in SUBSET S, \A x \in T : T \ {x} \in H
      PROVE  T \in H
  <2>1. CASE T = {}
    BY <2>1, SumEmpty
  <2>2. CASE T # {}
    <3> DEFINE R == T \ {Pick(T)}
    <3>1. Pick(T) \in T /\ IsFiniteSet(T) /\ IsFiniteSet(R)
      BY <2>2, PickIn, FS_Subset, FS_RemoveElement
    <3>2. SumFunctionOnSet(f, R) <= SumFunctionOnSet(g, R)
      BY <1>1, <3>1
    <3>3. f[Pick(T)] <= g[Pick(T)] /\ f[Pick(T)] \in Int /\ g[Pick(T)] \in Int
      BY <3>1 DEF IntOn
    <3>4. SumFunctionOnSet(f, R) \in Int /\ SumFunctionOnSet(g, R) \in Int
      <4>1. IntOn(f, R) /\ IntOn(g, R)
        BY DEF IntOn
      <4> QED  BY <3>1, <4>1, SumInt
    <3>5. /\ SumFunctionOnSet(f, T) = f[Pick(T)] + SumFunctionOnSet(f, R)
          /\ SumFunctionOnSet(g, T) = g[Pick(T)] + SumFunctionOnSet(g, R)
      BY <2>2, <3>1, SumPick
    <3> QED  BY <3>2, <3>3, <3>4, <3>5
  <2> QED  BY <2>1, <2>2
<1>2. \A T \in SUBSET S : T \in H
  <2> HIDE DEF H
  <2> QED  BY <1>1, AllSubsets
<1> QED  BY <1>2

\* A sum of naturals is a natural, and at least each of its terms.
LEMMA SumNat ==
  ASSUME NEW f, NEW S, IsFiniteSet(S), \A x \in S : f[x] \in Nat
  PROVE  /\ SumFunctionOnSet(f, S) \in Nat
         /\ \A y \in S : f[y] <= SumFunctionOnSet(f, S)
<1>1. ASSUME NEW T \in SUBSET S PROVE SumFunctionOnSet(f, T) \in Nat
  <2> DEFINE H == {U \in SUBSET S : SumFunctionOnSet(f, U) \in Nat}
  <2>1. ASSUME NEW U \in SUBSET S, \A x \in U : U \ {x} \in H
        PROVE  U \in H
    <3>1. CASE U = {}
      BY <3>1, SumEmpty
    <3>2. CASE U # {}
      <4>1. Pick(U) \in U /\ IsFiniteSet(U)
        BY <3>2, PickIn, FS_Subset
      <4>2. SumFunctionOnSet(f, U \ {Pick(U)}) \in Nat /\ f[Pick(U)] \in Nat
        BY <2>1, <4>1
      <4> QED  BY <3>2, <4>1, <4>2, SumPick
    <3> QED  BY <3>1, <3>2
  <2>2. \A U \in SUBSET S : U \in H
    <3> HIDE DEF H
    <3> QED  BY <2>1, AllSubsets
  <2> QED  BY <2>2
<1>2. ASSUME NEW y \in S PROVE f[y] <= SumFunctionOnSet(f, S)
  <2>1. SumFunctionOnSet(f, S) = f[y] + SumFunctionOnSet(f, S \ {y})
    BY SumRemove DEF IntOn
  <2>2. SumFunctionOnSet(f, S \ {y}) \in Nat
    <3>1. S \ {y} \in SUBSET S
      OBVIOUS
    <3> QED  BY <1>1, <3>1
  <2> QED  BY <2>1, <2>2
<1> QED  BY <1>1, <1>2

\* A sum of zeros is 0.
LEMMA SumZero ==
  ASSUME NEW f, NEW S, IsFiniteSet(S), \A x \in S : f[x] = 0
  PROVE  SumFunctionOnSet(f, S) = 0
<1> DEFINE H == {T \in SUBSET S : SumFunctionOnSet(f, T) = 0}
<1>1. ASSUME NEW T \in SUBSET S, \A x \in T : T \ {x} \in H
      PROVE  T \in H
  <2>1. CASE T = {}
    BY <2>1, SumEmpty
  <2>2. CASE T # {}
    <3>1. Pick(T) \in T /\ IsFiniteSet(T)
      BY <2>2, PickIn, FS_Subset
    <3>2. SumFunctionOnSet(f, T \ {Pick(T)}) = 0 /\ f[Pick(T)] = 0
      BY <1>1, <3>1
    <3> QED  BY <2>2, <3>1, <3>2, SumPick
  <2> QED  BY <2>1, <2>2
<1>2. \A T \in SUBSET S : T \in H
  <2> HIDE DEF H
  <2> QED  BY <1>1, AllSubsets
<1> QED  BY <1>2

\* Two functions added up separately or together.
LEMMA SumAdd ==
  ASSUME NEW f, NEW g, NEW h, NEW S, IsFiniteSet(S), IntOn(f, S), IntOn(g, S),
         \A x \in S : h[x] = f[x] + g[x]
  PROVE  SumFunctionOnSet(h, S) = SumFunctionOnSet(f, S) + SumFunctionOnSet(g, S)
<1> DEFINE H == {T \in SUBSET S :
                   SumFunctionOnSet(h, T) = SumFunctionOnSet(f, T) + SumFunctionOnSet(g, T)}
<1>1. ASSUME NEW T \in SUBSET S, \A x \in T : T \ {x} \in H
      PROVE  T \in H
  <2>1. CASE T = {}
    BY <2>1, SumEmpty
  <2>2. CASE T # {}
    <3> DEFINE R == T \ {Pick(T)}
    <3>1. Pick(T) \in T /\ IsFiniteSet(T) /\ IsFiniteSet(R)
      BY <2>2, PickIn, FS_Subset, FS_RemoveElement
    <3>2. SumFunctionOnSet(h, R) = SumFunctionOnSet(f, R) + SumFunctionOnSet(g, R)
      BY <1>1, <3>1
    <3>3. h[Pick(T)] = f[Pick(T)] + g[Pick(T)] /\ f[Pick(T)] \in Int /\ g[Pick(T)] \in Int
      BY <3>1 DEF IntOn
    <3>4. SumFunctionOnSet(f, R) \in Int /\ SumFunctionOnSet(g, R) \in Int
      <4>1. IntOn(f, R) /\ IntOn(g, R)
        BY DEF IntOn
      <4> QED  BY <3>1, <4>1, SumInt
    <3>5. /\ SumFunctionOnSet(f, T) = f[Pick(T)] + SumFunctionOnSet(f, R)
          /\ SumFunctionOnSet(g, T) = g[Pick(T)] + SumFunctionOnSet(g, R)
          /\ SumFunctionOnSet(h, T) = h[Pick(T)] + SumFunctionOnSet(h, R)
      BY <2>2, <3>1, SumPick
    <3> QED  BY <3>2, <3>3, <3>4, <3>5
  <2> QED  BY <2>1, <2>2
<1>2. \A T \in SUBSET S : T \in H
  <2> HIDE DEF H
  <2> QED  BY <1>1, AllSubsets
<1> QED  BY <1>2

\* The sum over two disjoint sets.
LEMMA SumUnion ==
  ASSUME NEW f, NEW S, NEW T, IsFiniteSet(S), IsFiniteSet(T), S \cap T = {}, IntOn(f, S \cup T)
  PROVE  SumFunctionOnSet(f, S \cup T) = SumFunctionOnSet(f, S) + SumFunctionOnSet(f, T)
<1> DEFINE H == {U \in SUBSET T :
                   SumFunctionOnSet(f, S \cup U) = SumFunctionOnSet(f, S) + SumFunctionOnSet(f, U)}
<1>0. SumFunctionOnSet(f, S) \in Int
  BY SumInt DEF IntOn
<1>1. ASSUME NEW U \in SUBSET T, \A x \in U : U \ {x} \in H
      PROVE  U \in H
  <2>1. CASE U = {}
    <3>1. S \cup U = S
      BY <2>1
    <3> QED  BY <1>0, <2>1, <3>1, SumEmpty
  <2>2. CASE U # {}
    <3> DEFINE R == U \ {Pick(U)}
               W == S \cup U
    <3>1. Pick(U) \in U /\ IsFiniteSet(U) /\ IsFiniteSet(R)
      BY <2>2, PickIn, FS_Subset, FS_RemoveElement
    <3>2. SumFunctionOnSet(f, S \cup R) = SumFunctionOnSet(f, S) + SumFunctionOnSet(f, R)
      BY <1>1, <3>1
    <3>3. IsFiniteSet(W) /\ IntOn(f, W) /\ Pick(U) \in W /\ W \ {Pick(U)} = S \cup R
      <4>1. IsFiniteSet(W)
        BY <3>1, FS_Union
      <4> QED  BY <3>1, <4>1 DEF IntOn
    <3>4. SumFunctionOnSet(f, W) = f[Pick(U)] + SumFunctionOnSet(f, W \ {Pick(U)})
      <4> HIDE DEF W
      <4> QED  BY <3>3, SumRemove
    <3>5. SumFunctionOnSet(f, U) = f[Pick(U)] + SumFunctionOnSet(f, R)
      BY <2>2, <3>1, SumPick
    <3>6. f[Pick(U)] \in Int /\ SumFunctionOnSet(f, R) \in Int
      <4>1. IntOn(f, R) /\ f[Pick(U)] \in Int
        BY <3>1 DEF IntOn
      <4> QED  BY <3>1, <4>1, SumInt
    <3>7. SumFunctionOnSet(f, W) = SumFunctionOnSet(f, S) + SumFunctionOnSet(f, U)
      <4>1. SumFunctionOnSet(f, W \ {Pick(U)}) = SumFunctionOnSet(f, S \cup R)
        BY <3>3, Zenon
      <4>2. SumFunctionOnSet(f, W) = f[Pick(U)] + SumFunctionOnSet(f, S \cup R)
        BY <3>4, <4>1, Zenon
      <4> HIDE DEF W, R
      <4> QED  BY <1>0, <3>2, <3>5, <3>6, <4>2
    <3> QED  BY <3>7
  <2> QED  BY <2>1, <2>2
<1>2. \A U \in SUBSET T : U \in H
  <2> HIDE DEF H
  <2> QED  BY <1>1, AllSubsets
<1> QED  BY <1>2
=============================================================================
