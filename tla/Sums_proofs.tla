---------------------------- MODULE Sums_proofs ----------------------------
(***************************************************************************)
(* Facts about sums over finite sets that conservation needs: a sum does   *)
(* not depend on the order of its terms, and when one term changes the     *)
(* sum changes by as much.  Induction is by the least counterexample.      *)
(***************************************************************************)
EXTENDS Integers, FiniteSets, Functions, FiniteSetTheorems, WellFoundedInduction, TLAPS

\* A set of natural numbers with 0 and every successor has them all.
LEMMA NaturalsAll ==
  ASSUME NEW P \in SUBSET Nat, 0 \in P, \A n \in P : n + 1 \in P
  PROVE  \A n \in Nat : n \in P
<1> SUFFICES ASSUME Nat \ P # {} PROVE FALSE
  OBVIOUS
<1>1. PICK m \in Nat \ P : \A l \in Nat \ P : ~(<<l, m>> \in OpToRel(<, Nat))
  BY WFMin, NatLessThanWellFounded
<1>2. \A l \in Nat \ P : ~(l < m)
  BY <1>1 DEF OpToRel
<1>3. m # 0 /\ m - 1 \in Nat
  OBVIOUS
<1>4. m - 1 \in P
  BY <1>2, <1>3
<1>5. (m - 1) + 1 \in P
  BY <1>4
<1> QED
  BY <1>3, <1>5

-----------------------------------------------------------------------------
(***************************************************************************)
(* The recursive function behind SumFunctionOnSet.                         *)
(***************************************************************************)
pick(T) == CHOOSE x \in T : TRUE

step(f, g, T) == IF T = {} THEN 0 ELSE f[pick(T)] + g[T \ {pick(T)}]

partial(f, S) == CHOOSE g : g = [T \in SUBSET S |-> step(f, g, T)]

LEMMA SumIsPartial ==
  ASSUME NEW f, NEW S
  PROVE  SumFunctionOnSet(f, S) = partial(f, S)[S]
BY Zenon DEF SumFunctionOnSet, FoldFunctionOnSet, MapThenFoldSet, partial, step, pick

LEMMA PickRemoves ==
  ASSUME NEW T, IsFiniteSet(T), T # {}
  PROVE  /\ pick(T) \in T /\ IsFiniteSet(T \ {pick(T)})
         /\ Cardinality(T) \in Nat /\ Cardinality(T \ {pick(T)}) \in Nat
         /\ Cardinality(T \ {pick(T)}) = Cardinality(T) - 1
<1>1. pick(T) \in T
  BY DEF pick
<1> QED
  BY <1>1, FS_RemoveElement, FS_CardinalityType

LEMMA PartialStep ==
  ASSUME NEW f, NEW S, IsFiniteSet(S)
  PROVE  \A T \in SUBSET S : partial(f, S)[T] = step(f, partial(f, S), T)
<1> DEFINE Level(n) == {T \in SUBSET S : Cardinality(T) <= n}
           P == {n \in Nat : \E g : g = [T \in Level(n) |-> step(f, g, T)]}
<1>1. \A T \in SUBSET S : IsFiniteSet(T) /\ Cardinality(T) \in Nat /\ Cardinality(T) <= Cardinality(S)
  BY FS_Subset, FS_CardinalityType
<1>2. 0 \in P
  <2> DEFINE g == [T \in Level(0) |-> 0]
  <2>1. \A T \in Level(0) : T = {}
    BY <1>1, FS_EmptySet
  <2>2. g = [T \in Level(0) |-> step(f, g, T)]
    BY <2>1 DEF step
  <2> QED
    BY <2>2
<1>3. ASSUME NEW n \in P PROVE n + 1 \in P
  <2>1. n \in Nat
    OBVIOUS
  <2>2. PICK g : g = [T \in Level(n) |-> step(f, g, T)]
    OBVIOUS
  <2> DEFINE h == [T \in Level(n + 1) |-> step(f, g, T)]
  <2>3. ASSUME NEW T \in Level(n) PROVE T \in Level(n + 1) /\ h[T] = g[T]
    <3>1. T \in Level(n + 1)
      BY <1>1, <2>1
    <3> QED
      BY <2>2, <3>1
  <2>4. ASSUME NEW T \in Level(n + 1) PROVE step(f, h, T) = step(f, g, T)
    <3>1. CASE T = {}
      BY <3>1 DEF step
    <3>2. CASE T # {}
      <4>1. T \ {pick(T)} \in Level(n)
        <5>1. Cardinality(T) <= n + 1 /\ Cardinality(T) \in Nat /\ IsFiniteSet(T)
          BY <1>1
        <5>2. Cardinality(T \ {pick(T)}) = Cardinality(T) - 1
          BY <3>2, <5>1, PickRemoves
        <5> QED
          BY <2>1, <5>1, <5>2
      <4>2. h[T \ {pick(T)}] = g[T \ {pick(T)}]
        BY <2>3, <4>1
      <4> QED
        BY <4>2 DEF step
    <3> QED
      BY <3>1, <3>2
  <2>5. h = [T \in Level(n + 1) |-> step(f, h, T)]
    BY <2>4
  <2>6. \E i : i = [T \in Level(n + 1) |-> step(f, i, T)]
    <3> HIDE DEF h
    <3> QED
      BY <2>5
  <2>7. n + 1 \in Nat
    BY <2>1
  <2> QED
    BY <2>6, <2>7, Zenon
<1>4. Cardinality(S) \in P
  <2>1. \A n \in Nat : n \in P
    <3> HIDE DEF P
    <3>1. P \in SUBSET Nat
      BY DEF P
    <3> QED
      BY <1>2, <1>3, <3>1, NaturalsAll
  <2> QED
    BY <2>1, FS_CardinalityType
<1>5. Level(Cardinality(S)) = SUBSET S
  BY <1>1
<1>6. \E g : g = [T \in SUBSET S |-> step(f, g, T)]
  BY <1>4, <1>5
<1>7. partial(f, S) = [T \in SUBSET S |-> step(f, partial(f, S), T)]
  BY <1>6 DEF partial
<1> QED
  BY <1>7

-----------------------------------------------------------------------------
\* Partial sums of a set depend on its terms only.
LEMMA PartialSame ==
  ASSUME NEW f, NEW g, NEW S, IsFiniteSet(S), NEW U, IsFiniteSet(U),
         NEW V \in SUBSET S, V \in SUBSET U, \A x \in V : f[x] = g[x]
  PROVE  partial(f, S)[V] = partial(g, U)[V]
<1> DEFINE P == {n \in Nat : \A T \in SUBSET V : Cardinality(T) = n => partial(f, S)[T] = partial(g, U)[T]}
<1>1. \A T \in SUBSET V : /\ IsFiniteSet(T) /\ Cardinality(T) \in Nat /\ T \in SUBSET S /\ T \in SUBSET U
  BY FS_Subset, FS_CardinalityType
<1>2. ASSUME NEW T \in SUBSET V
      PROVE  partial(f, S)[T] = step(f, partial(f, S), T) /\ partial(g, U)[T] = step(g, partial(g, U), T)
  BY <1>1, <1>2, PartialStep
<1>3. 0 \in P
  <2>1. \A T \in SUBSET V : Cardinality(T) = 0 => T = {}
    BY <1>1, FS_EmptySet
  <2> QED
    BY <1>2, <2>1 DEF step
<1>4. ASSUME NEW n \in P PROVE n + 1 \in P
  <2>1. n \in Nat
    OBVIOUS
  <2>2. ASSUME NEW T \in SUBSET V, Cardinality(T) = n + 1
        PROVE  partial(f, S)[T] = partial(g, U)[T]
    <3>1. T # {} /\ IsFiniteSet(T)
      BY <1>1, <2>1, <2>2, FS_EmptySet
    <3>2. pick(T) \in T /\ T \ {pick(T)} \in SUBSET V /\ Cardinality(T \ {pick(T)}) = n
      <4>1. pick(T) \in T /\ Cardinality(T \ {pick(T)}) = Cardinality(T) - 1
        BY <3>1, PickRemoves
      <4> QED
        BY <2>1, <2>2, <4>1
    <3>3. partial(f, S)[T \ {pick(T)}] = partial(g, U)[T \ {pick(T)}]
      BY <3>2
    <3>4. f[pick(T)] = g[pick(T)]
      BY <3>2
    <3> QED
      BY <1>2, <3>1, <3>3, <3>4 DEF step
  <2> QED
    BY <2>1, <2>2
<1>5. \A n \in Nat : n \in P
  <2> HIDE DEF P
  <2>1. P \in SUBSET Nat
    BY DEF P
  <2> QED
    BY <1>3, <1>4, <2>1, NaturalsAll
<1>6. Cardinality(V) \in P
  BY <1>1, <1>5
<1> QED
  BY <1>6

\* Equal terms, equal sums.
LEMMA SumSame ==
  ASSUME NEW f, NEW g, NEW S, IsFiniteSet(S), \A x \in S : f[x] = g[x]
  PROVE  SumFunctionOnSet(f, S) = SumFunctionOnSet(g, S)
BY SumIsPartial, PartialSame

LEMMA SumEmpty ==
  ASSUME NEW f
  PROVE  SumFunctionOnSet(f, {}) = 0
<1>1. partial(f, {})[{}] = step(f, partial(f, {}), {})
  BY PartialStep, FS_EmptySet
<1>2. partial(f, {})[{}] = 0
  BY <1>1 DEF step
<1> QED
  BY <1>2, SumIsPartial

LEMMA SumPicked ==
  ASSUME NEW f, NEW S, IsFiniteSet(S), S # {}
  PROVE  SumFunctionOnSet(f, S) = f[pick(S)] + SumFunctionOnSet(f, S \ {pick(S)})
<1> DEFINE R == S \ {pick(S)}
<1>1. IsFiniteSet(R) /\ R \in SUBSET S
  BY PickRemoves
<1>2. partial(f, S)[S] = f[pick(S)] + partial(f, S)[R]
  BY PartialStep DEF step
<1>3. partial(f, S)[R] = partial(f, R)[R]
  BY <1>1, PartialSame
<1> QED
  BY <1>2, <1>3, SumIsPartial

\* Sums of integers are integers, and of natural numbers natural numbers.
LEMMA SumType ==
  ASSUME NEW f, NEW S, IsFiniteSet(S), \A x \in S : f[x] \in Int
  PROVE  /\ SumFunctionOnSet(f, S) \in Int
         /\ (\A x \in S : f[x] >= 0) => SumFunctionOnSet(f, S) >= 0
<1> DEFINE Good(T) == /\ SumFunctionOnSet(f, T) \in Int
                      /\ (\A x \in S : f[x] >= 0) => SumFunctionOnSet(f, T) >= 0
           P == {n \in Nat : \A T \in SUBSET S : Cardinality(T) = n => Good(T)}
<1>1. \A T \in SUBSET S : IsFiniteSet(T) /\ Cardinality(T) \in Nat
  BY FS_Subset, FS_CardinalityType
<1>2. 0 \in P
  <2>1. \A T \in SUBSET S : Cardinality(T) = 0 => T = {}
    BY <1>1, FS_EmptySet
  <2> QED
    BY <2>1, SumEmpty
<1>3. ASSUME NEW n \in P PROVE n + 1 \in P
  <2>1. n \in Nat
    OBVIOUS
  <2>2. ASSUME NEW T \in SUBSET S, Cardinality(T) = n + 1 PROVE Good(T)
    <3>1. T # {} /\ IsFiniteSet(T)
      BY <1>1, <2>1, <2>2, FS_EmptySet
    <3>2. pick(T) \in S /\ T \ {pick(T)} \in SUBSET S /\ Cardinality(T \ {pick(T)}) = n
      BY <2>1, <2>2, <3>1, PickRemoves
    <3>3. Good(T \ {pick(T)})
      BY <3>2
    <3>4. SumFunctionOnSet(f, T) = f[pick(T)] + SumFunctionOnSet(f, T \ {pick(T)})
      BY <3>1, SumPicked
    <3>5. f[pick(T)] \in Int
      BY <3>2
    <3>6. SumFunctionOnSet(f, T) \in Int
      BY <3>3, <3>4, <3>5
    <3>7. ASSUME \A x \in S : f[x] >= 0 PROVE SumFunctionOnSet(f, T) >= 0
      <4>1. f[pick(T)] >= 0 /\ SumFunctionOnSet(f, T \ {pick(T)}) >= 0
        BY <3>2, <3>3, <3>7
      <4> QED
        BY <3>3, <3>4, <3>5, <4>1
    <3> QED
      BY <3>6, <3>7
  <2> QED
    BY <2>1, <2>2
<1>4. \A n \in Nat : n \in P
  <2> HIDE DEF P
  <2>1. P \in SUBSET Nat
    BY DEF P
  <2> QED
    BY <1>2, <1>3, <2>1, NaturalsAll
<1>5. Cardinality(S) \in P
  BY <1>1, <1>4
<1> QED
  BY <1>5

\* The order of the terms does not matter: any of them can be the first.
LEMMA SumRemove ==
  ASSUME NEW f, NEW S, IsFiniteSet(S), \A x \in S : f[x] \in Int, NEW y \in S
  PROVE  SumFunctionOnSet(f, S) = f[y] + SumFunctionOnSet(f, S \ {y})
<1> DEFINE Sum(T) == SumFunctionOnSet(f, T)
           Good(T) == \A x \in T : Sum(T) = f[x] + Sum(T \ {x})
           P == {n \in Nat : \A T \in SUBSET S : Cardinality(T) = n => Good(T)}
<1>1. \A T \in SUBSET S : IsFiniteSet(T) /\ Cardinality(T) \in Nat /\ Sum(T) \in Int
  <2>1. \A T \in SUBSET S : IsFiniteSet(T) /\ Cardinality(T) \in Nat
    BY FS_Subset, FS_CardinalityType
  <2> QED
    BY <2>1, SumType
<1>2. 0 \in P
  <2>1. \A T \in SUBSET S : Cardinality(T) = 0 => T = {}
    BY <1>1, FS_EmptySet
  <2> QED
    BY <2>1
<1>3. ASSUME NEW n \in P PROVE n + 1 \in P
  <2>1. n \in Nat
    OBVIOUS
  <2>2. ASSUME NEW T \in SUBSET S, Cardinality(T) = n + 1, NEW x \in T
        PROVE  Sum(T) = f[x] + Sum(T \ {x})
    <3> DEFINE p == pick(T)
               R == (T \ {p}) \ {x}
    <3>1. T # {} /\ IsFiniteSet(T)
      BY <1>1
    <3>2. p \in T /\ T \ {p} \in SUBSET S /\ Cardinality(T \ {p}) = n
      BY <2>1, <2>2, <3>1, PickRemoves
    <3>3. Sum(T) = f[p] + Sum(T \ {p})
      BY <3>1, SumPicked
    <3>4. CASE x = p
      BY <3>3, <3>4
    <3>5. CASE x # p
      <4>1. Sum(T \ {p}) = f[x] + Sum(R)
        <5>1. Good(T \ {p})
          BY <3>2
        <5> QED
          BY <3>5, <5>1
      <4>2. Sum(T \ {x}) = f[p] + Sum((T \ {x}) \ {p})
        <5>1. T \ {x} \in SUBSET S /\ Cardinality(T \ {x}) = n
          <6>1. Cardinality(T \ {x}) = Cardinality(T) - 1
            BY <3>1, FS_RemoveElement
          <6> QED
            BY <2>1, <2>2, <6>1
        <5>2. Good(T \ {x})
          BY <5>1
        <5> QED
          BY <3>2, <3>5, <5>2
      <4>3. (T \ {x}) \ {p} = R
        OBVIOUS
      <4>4. f[x] \in Int /\ f[p] \in Int /\ Sum(R) \in Int
        BY <1>1, <3>2
      <4>5. f[p] + (f[x] + Sum(R)) = f[x] + (f[p] + Sum(R))
        BY <4>4
      <4> QED
        BY <3>3, <4>1, <4>2, <4>3, <4>5
    <3> QED
      BY <3>4, <3>5
  <2> QED
    BY <2>1, <2>2
<1>4. \A n \in Nat : n \in P
  <2> HIDE DEF P
  <2>1. P \in SUBSET Nat
    BY DEF P
  <2> QED
    BY <1>2, <1>3, <2>1, NaturalsAll
<1>5. Cardinality(S) \in P
  BY <1>1, <1>4
<1> QED
  BY <1>5

\* When one term changes, the sum changes by as much.
LEMMA SumChange ==
  ASSUME NEW f, NEW g, NEW S, IsFiniteSet(S), \A x \in S : f[x] \in Int /\ g[x] \in Int,
         NEW y \in S, \A x \in S \ {y} : f[x] = g[x]
  PROVE  SumFunctionOnSet(g, S) = SumFunctionOnSet(f, S) + (g[y] - f[y])
<1>1. IsFiniteSet(S \ {y})
  BY FS_RemoveElement
<1>2. SumFunctionOnSet(f, S \ {y}) = SumFunctionOnSet(g, S \ {y}) /\ SumFunctionOnSet(f, S \ {y}) \in Int
  BY <1>1, SumSame, SumType
<1>3. SumFunctionOnSet(f, S) = f[y] + SumFunctionOnSet(f, S \ {y})
  BY SumRemove
<1>4. SumFunctionOnSet(g, S) = g[y] + SumFunctionOnSet(g, S \ {y})
  BY SumRemove
<1> QED
  BY <1>2, <1>3, <1>4

-----------------------------------------------------------------------------
(***************************************************************************)
(* Sums over several sets.  Induction over the subsets of a finite set is  *)
(* about a set P of subsets.                                               *)
(***************************************************************************)
LEMMA SubsetsAll ==
  ASSUME NEW S, IsFiniteSet(S), NEW P \in SUBSET (SUBSET S), {} \in P,
         \A T \in P : \A x \in S \ T : T \cup {x} \in P
  PROVE  S \in P
<1> DEFINE N == {n \in Nat : \A T \in SUBSET S : Cardinality(T) = n => T \in P}
<1>1. \A T \in SUBSET S : IsFiniteSet(T) /\ Cardinality(T) \in Nat
  BY FS_Subset, FS_CardinalityType
<1>2. 0 \in N
  BY <1>1, FS_EmptySet
<1>3. ASSUME NEW n \in N PROVE n + 1 \in N
  <2>1. n \in Nat
    OBVIOUS
  <2>2. ASSUME NEW T \in SUBSET S, Cardinality(T) = n + 1 PROVE T \in P
    <3>1. T # {} /\ IsFiniteSet(T)
      BY <1>1, <2>1, <2>2, FS_EmptySet
    <3>2. pick(T) \in T /\ Cardinality(T \ {pick(T)}) = n
      <4>1. pick(T) \in T /\ Cardinality(T \ {pick(T)}) = Cardinality(T) - 1
        BY <3>1, PickRemoves
      <4> QED
        BY <2>1, <2>2, <4>1
    <3>3. T \ {pick(T)} \in P
      BY <3>2
    <3>4. pick(T) \in S \ (T \ {pick(T)}) /\ (T \ {pick(T)}) \cup {pick(T)} = T
      BY <3>2
    <3> QED
      BY <3>3, <3>4
  <2> QED
    BY <2>1, <2>2
<1>4. \A n \in Nat : n \in N
  <2>1. N \in SUBSET Nat
    OBVIOUS
  <2> HIDE DEF N
  <2> QED
    BY <1>2, <1>3, <2>1, NaturalsAll
<1> QED
  BY <1>1, <1>4

\* One more term.
LEMMA SumAdd ==
  ASSUME NEW f, NEW S, IsFiniteSet(S), NEW y, y \notin S, \A x \in S \cup {y} : f[x] \in Int
  PROVE  /\ IsFiniteSet(S \cup {y}) /\ SumFunctionOnSet(f, S) \in Int
         /\ SumFunctionOnSet(f, S \cup {y}) = f[y] + SumFunctionOnSet(f, S)
<1> DEFINE T == S \cup {y}
<1>1. IsFiniteSet(T) /\ SumFunctionOnSet(f, S) \in Int
  BY FS_AddElement, SumType
<1>2. T \ {y} = S /\ y \in T /\ \A x \in T : f[x] \in Int
  OBVIOUS
<1> HIDE DEF T
<1>3. SumFunctionOnSet(f, T) = f[y] + SumFunctionOnSet(f, T \ {y})
  BY <1>1, <1>2, SumRemove
<1> QED
  BY <1>1, <1>2, <1>3 DEF T

\* h renames the terms f of S, one to one, to the terms g of F.
Renames(h, f, S, g, F) ==
  /\ \A x \in S : f[x] \in Int /\ g[h[x]] = f[x] /\ h[x] \in F
  /\ \A x, y \in S : h[x] = h[y] => x = y
  /\ \A k \in F : \E x \in S : k = h[x]

\* Terms may be counted under other names.
LEMMA SumReindex ==
  ASSUME NEW S, IsFiniteSet(S), NEW F, NEW f, NEW g, NEW h, Renames(h, f, S, g, F)
  PROVE  IsFiniteSet(F) /\ SumFunctionOnSet(g, F) = SumFunctionOnSet(f, S)
<1> USE DEF Renames
<1> DEFINE image(T) == {h[x] : x \in T}
           P == {T \in SUBSET S : IsFiniteSet(image(T)) /\ SumFunctionOnSet(g, image(T)) = SumFunctionOnSet(f, T)}
<1>1. {} \in P
  <2>1. image({}) = {}
    OBVIOUS
  <2> QED
    BY <2>1, SumEmpty, FS_EmptySet
<1>2. ASSUME NEW T \in P, NEW x \in S \ T PROVE T \cup {x} \in P
  <2>1. T \in SUBSET S /\ IsFiniteSet(T) /\ IsFiniteSet(image(T)) /\ SumFunctionOnSet(g, image(T)) = SumFunctionOnSet(f, T)
    BY FS_Subset
  <2>2. image(T \cup {x}) = image(T) \cup {h[x]} /\ h[x] \notin image(T)
    BY <2>1
  <2>3. SumFunctionOnSet(f, T \cup {x}) = f[x] + SumFunctionOnSet(f, T)
    BY <2>1, SumAdd
  <2>4. \A y \in image(T) \cup {h[x]} : g[y] \in Int
    BY <2>1
  <2> DEFINE U == image(T)
  <2>5. IsFiniteSet(U) /\ h[x] \notin U /\ \A y \in U \cup {h[x]} : g[y] \in Int
    BY <2>1, <2>2, <2>4
  <2> HIDE DEF U
  <2>6. IsFiniteSet(U \cup {h[x]}) /\ SumFunctionOnSet(g, U \cup {h[x]}) = g[h[x]] + SumFunctionOnSet(g, U)
    BY <2>5, SumAdd
  <2>7. g[h[x]] = f[x]
    OBVIOUS
  <2>8. IsFiniteSet(image(T \cup {x})) /\ SumFunctionOnSet(g, image(T \cup {x})) = SumFunctionOnSet(f, T \cup {x})
    BY <2>1, <2>2, <2>3, <2>6, <2>7 DEF U
  <2> HIDE DEF image
  <2> QED
    BY <2>8
<1>3. S \in P
  <2>1. P \in SUBSET (SUBSET S)
    OBVIOUS
  <2> HIDE DEF P
  <2> QED
    BY <1>1, <1>2, <2>1, SubsetsAll
<1>4. image(S) = F
  OBVIOUS
<1>5. IsFiniteSet(image(S)) /\ SumFunctionOnSet(g, image(S)) = SumFunctionOnSet(f, S)
  BY <1>3
<1> HIDE DEF image
<1> QED
  BY <1>4, <1>5

\* The terms of two sets.
LEMMA SumUnion ==
  ASSUME NEW f, NEW S, IsFiniteSet(S), NEW U, IsFiniteSet(U), S \cap U = {},
         \A x \in S \cup U : f[x] \in Int
  PROVE  /\ SumFunctionOnSet(f, S \cup U) = SumFunctionOnSet(f, S) + SumFunctionOnSet(f, U)
         /\ SumFunctionOnSet(f, S) \in Int /\ SumFunctionOnSet(f, U) \in Int
<1> DEFINE Sum(T) == SumFunctionOnSet(f, T)
           P == {T \in SUBSET U : Sum(S \cup T) = Sum(S) + Sum(T)}
<1>1. Sum(S) \in Int /\ Sum(U) \in Int
  BY SumType
<1>2. {} \in P
  BY <1>1, SumEmpty
<1>3. ASSUME NEW T \in P, NEW x \in U \ T PROVE T \cup {x} \in P
  <2>1. T \in SUBSET U /\ IsFiniteSet(T) /\ IsFiniteSet(S \cup T) /\ Sum(S \cup T) = Sum(S) + Sum(T)
    BY FS_Subset, FS_Union
  <2>2. Sum(T) \in Int /\ Sum(T \cup {x}) = f[x] + Sum(T)
    BY <2>1, SumAdd
  <2> DEFINE V == S \cup T
  <2>3. IsFiniteSet(V) /\ x \notin V /\ \A y \in V \cup {x} : f[y] \in Int
    BY <2>1
  <2> HIDE DEF V
  <2>4. Sum(V \cup {x}) = f[x] + Sum(V)
    BY <2>3, SumAdd
  <2>5. S \cup (T \cup {x}) = V \cup {x} /\ f[x] \in Int
    BY DEF V
  <2>6. Sum(S \cup (T \cup {x})) = Sum(S) + Sum(T \cup {x})
    <3>1. Sum(S \cup (T \cup {x})) = Sum(V \cup {x})
      BY <2>5
    <3>2. Sum(V) = Sum(S) + Sum(T)
      BY <2>1 DEF V
    <3> HIDE DEF Sum
    <3> QED
      BY <1>1, <2>2, <2>4, <2>5, <3>1, <3>2
  <2> QED
    BY <2>1, <2>6
<1>4. U \in P
  <2>1. P \in SUBSET (SUBSET U)
    OBVIOUS
  <2> HIDE DEF P
  <2> QED
    BY <1>2, <1>3, <2>1, SubsetsAll
<1> QED
  BY <1>1, <1>4

\* A sum of nothing but zeros.
LEMMA SumZero ==
  ASSUME NEW f, NEW S, IsFiniteSet(S), \A x \in S : f[x] = 0
  PROVE  SumFunctionOnSet(f, S) = 0
<1> DEFINE P == {T \in SUBSET S : SumFunctionOnSet(f, T) = 0}
<1>1. {} \in P
  BY SumEmpty
<1>2. ASSUME NEW T \in P, NEW x \in S \ T PROVE T \cup {x} \in P
  <2>1. T \in SUBSET S /\ IsFiniteSet(T) /\ SumFunctionOnSet(f, T) = 0
    BY FS_Subset
  <2>2. SumFunctionOnSet(f, T \cup {x}) = f[x] + SumFunctionOnSet(f, T)
    BY <2>1, SumAdd
  <2>3. SumFunctionOnSet(f, T \cup {x}) = 0
    BY <2>1, <2>2
  <2> QED
    BY <2>3
<1>3. S \in P
  <2>1. P \in SUBSET (SUBSET S)
    OBVIOUS
  <2> HIDE DEF P
  <2> QED
    BY <1>1, <1>2, <2>1, SubsetsAll
<1> QED
  BY <1>3

\* A sum of differences.
LEMMA SumMinus ==
  ASSUME NEW S, IsFiniteSet(S), NEW f, NEW g, NEW d,
         \A x \in S : f[x] \in Int /\ g[x] \in Int /\ d[x] = f[x] - g[x]
  PROVE  SumFunctionOnSet(d, S) = SumFunctionOnSet(f, S) - SumFunctionOnSet(g, S)
<1> DEFINE P == {T \in SUBSET S : SumFunctionOnSet(d, T) = SumFunctionOnSet(f, T) - SumFunctionOnSet(g, T)}
<1>1. {} \in P
  BY SumEmpty
<1>2. ASSUME NEW T \in P, NEW x \in S \ T PROVE T \cup {x} \in P
  <2>1. /\ T \in SUBSET S /\ IsFiniteSet(T)
        /\ SumFunctionOnSet(d, T) = SumFunctionOnSet(f, T) - SumFunctionOnSet(g, T)
    BY FS_Subset
  <2>2. \A y \in T \cup {x} : f[y] \in Int /\ g[y] \in Int /\ d[y] \in Int /\ d[y] = f[y] - g[y]
    BY <2>1
  <2>3. SumFunctionOnSet(f, T) \in Int /\ SumFunctionOnSet(f, T \cup {x}) = f[x] + SumFunctionOnSet(f, T)
    BY <2>1, <2>2, SumAdd
  <2>4. SumFunctionOnSet(g, T) \in Int /\ SumFunctionOnSet(g, T \cup {x}) = g[x] + SumFunctionOnSet(g, T)
    BY <2>1, <2>2, SumAdd
  <2>5. SumFunctionOnSet(d, T \cup {x}) = d[x] + SumFunctionOnSet(d, T)
    BY <2>1, <2>2, SumAdd
  <2>6. SumFunctionOnSet(d, T \cup {x}) = SumFunctionOnSet(f, T \cup {x}) - SumFunctionOnSet(g, T \cup {x})
    BY <2>1, <2>2, <2>3, <2>4, <2>5
  <2> QED
    BY <2>6
<1>3. S \in P
  <2>1. P \in SUBSET (SUBSET S)
    OBVIOUS
  <2> HIDE DEF P
  <2> QED
    BY <1>1, <1>2, <2>1, SubsetsAll
<1> QED
  BY <1>3

\* A sum of sums.
LEMMA SumPlus ==
  ASSUME NEW S, IsFiniteSet(S), NEW f, NEW g, NEW d,
         \A x \in S : f[x] \in Int /\ g[x] \in Int /\ d[x] = f[x] + g[x]
  PROVE  /\ SumFunctionOnSet(d, S) = SumFunctionOnSet(f, S) + SumFunctionOnSet(g, S)
         /\ SumFunctionOnSet(f, S) \in Int /\ SumFunctionOnSet(g, S) \in Int
<1>1. \A x \in S : d[x] \in Int /\ g[x] \in Int /\ f[x] = d[x] - g[x]
  OBVIOUS
<1>2. SumFunctionOnSet(f, S) = SumFunctionOnSet(d, S) - SumFunctionOnSet(g, S)
  BY <1>1, SumMinus
<1>3. SumFunctionOnSet(f, S) \in Int /\ SumFunctionOnSet(g, S) \in Int /\ SumFunctionOnSet(d, S) \in Int
  BY <1>1, SumType
<1> QED
  BY <1>2, <1>3

\* c[x] is the class of x: the members of the classes K, and s[k] the sum of the class k.
of_classes(S, c, K) == {x \in S : c[x] \in K}

SumsOfClasses(s, f, S, c, K) == \A k \in K : s[k] = SumFunctionOnSet(f, {x \in S : c[x] = k})

\* Terms may be summed by classes.
LEMMA SumClasses ==
  ASSUME NEW S, IsFiniteSet(S), NEW K, IsFiniteSet(K), NEW f, \A x \in S : f[x] \in Int, NEW c, NEW s,
         SumsOfClasses(s, f, S, c, K)
  PROVE  SumFunctionOnSet(s, K) = SumFunctionOnSet(f, of_classes(S, c, K))
<1> USE DEF SumsOfClasses
<1> DEFINE of(T) == {x \in S : c[x] \in T}
           P == {T \in SUBSET K : SumFunctionOnSet(s, T) = SumFunctionOnSet(f, of(T))}
<1>1. {} \in P
  <2>1. of({}) = {}
    OBVIOUS
  <2> QED
    BY <2>1, SumEmpty
<1>2. ASSUME NEW T \in P, NEW k \in K \ T PROVE T \cup {k} \in P
  <2> DEFINE A == of(T)
             B == {x \in S : c[x] = k}
  <2>1. T \in SUBSET K /\ IsFiniteSet(T) /\ SumFunctionOnSet(s, T) = SumFunctionOnSet(f, A)
    BY FS_Subset
  <2>2. /\ IsFiniteSet(A) /\ IsFiniteSet(B) /\ A \cap B = {} /\ of(T \cup {k}) = A \cup B
        /\ \A x \in A \cup B : f[x] \in Int
    BY FS_Subset
  <2>3. s[k] = SumFunctionOnSet(f, B) /\ \A j \in T \cup {k} : s[j] \in Int
    <3>1. ASSUME NEW j \in K PROVE s[j] \in Int
      <4> DEFINE C == {x \in S : c[x] = j}
      <4>1. IsFiniteSet(C) /\ \A x \in C : f[x] \in Int
        BY FS_Subset
      <4> QED
        BY <4>1, SumType
    <3> QED
      BY <2>1, <3>1
  <2> HIDE DEF A, B
  <2>4. /\ SumFunctionOnSet(f, A \cup B) = SumFunctionOnSet(f, A) + SumFunctionOnSet(f, B)
        /\ SumFunctionOnSet(f, A) \in Int /\ SumFunctionOnSet(f, B) \in Int
    BY <2>2, SumUnion
  <2>5. SumFunctionOnSet(s, T \cup {k}) = s[k] + SumFunctionOnSet(s, T)
    BY <2>1, <2>3, SumAdd
  <2>6. SumFunctionOnSet(s, T \cup {k}) = SumFunctionOnSet(f, of(T \cup {k}))
    <3>1. SumFunctionOnSet(f, of(T \cup {k})) = SumFunctionOnSet(f, A \cup B)
      BY <2>2
    <3> HIDE DEF of
    <3> QED
      BY <2>1, <2>3, <2>4, <2>5, <3>1
  <2> HIDE DEF of
  <2> QED
    BY <2>6
<1>3. K \in P
  <2>1. P \in SUBSET (SUBSET K)
    OBVIOUS
  <2> HIDE DEF P
  <2> QED
    BY <1>1, <1>2, <2>1, SubsetsAll
<1> QED
  BY <1>3 DEF of_classes

\* A sum of ones counts.
LEMMA SumOnes ==
  ASSUME NEW S, IsFiniteSet(S), NEW f, \A x \in S : f[x] = 1
  PROVE  SumFunctionOnSet(f, S) = Cardinality(S)
<1> DEFINE P == {T \in SUBSET S : SumFunctionOnSet(f, T) = Cardinality(T)}
<1>1. {} \in P
  BY SumEmpty, FS_EmptySet
<1>2. ASSUME NEW T \in P, NEW x \in S \ T PROVE T \cup {x} \in P
  <2>1. T \in SUBSET S /\ IsFiniteSet(T) /\ SumFunctionOnSet(f, T) = Cardinality(T) /\ Cardinality(T) \in Nat
    BY FS_Subset, FS_CardinalityType
  <2>2. x \notin T /\ T \cup {x} \in SUBSET S /\ \A y \in T \cup {x} : f[y] \in Int
    BY <2>1
  <2>3. SumFunctionOnSet(f, T \cup {x}) = f[x] + SumFunctionOnSet(f, T)
    BY <2>1, <2>2, SumAdd
  <2>4. Cardinality(T \cup {x}) = Cardinality(T) + 1
    BY <2>1, <2>2, FS_AddElement
  <2>5. SumFunctionOnSet(f, T \cup {x}) = Cardinality(T \cup {x})
    BY <2>1, <2>3, <2>4
  <2> QED
    BY <2>2, <2>5
<1>3. S \in P
  <2>1. P \in SUBSET (SUBSET S)
    OBVIOUS
  <2> HIDE DEF P
  <2> QED
    BY <1>1, <1>2, <2>1, SubsetsAll
<1> QED
  BY <1>3

\* Terms outside of a subset that are zero.
Within(f, T, g, S) ==
  T \in SUBSET S /\ (\A x \in T : f[x] \in Int /\ g[x] = f[x]) /\ \A x \in S \ T : g[x] = 0

LEMMA SumWithin ==
  ASSUME NEW S, IsFiniteSet(S), NEW T, NEW f, NEW g, Within(f, T, g, S)
  PROVE  SumFunctionOnSet(g, S) = SumFunctionOnSet(f, T)
<1> USE DEF Within
<1> DEFINE R == S \ T
<1>1. IsFiniteSet(T) /\ IsFiniteSet(R)
  BY FS_Subset
<1>2. T \cap R = {} /\ T \cup R = S /\ (\A x \in T \cup R : g[x] \in Int) /\ \A x \in R : g[x] = 0
  OBVIOUS
<1> HIDE DEF R
<1>3. /\ SumFunctionOnSet(g, T \cup R) = SumFunctionOnSet(g, T) + SumFunctionOnSet(g, R)
      /\ SumFunctionOnSet(g, T) \in Int
  BY <1>1, <1>2, SumUnion
<1>4. SumFunctionOnSet(g, R) = 0
  BY <1>1, <1>2, SumZero
<1>5. SumFunctionOnSet(g, T) = SumFunctionOnSet(f, T)
  BY <1>1, SumSame
<1>6. SumFunctionOnSet(g, T \cup R) = SumFunctionOnSet(g, S)
  BY <1>2, Zenon
<1> QED
  BY <1>3, <1>4, <1>5, <1>6

\* Each member m of M gets the shares s[k] of the ranks 1..r[m]; the share k has as many holders as there
\* are members of that rank or above.
ranked(M, r, k) == {m \in M : r[m] >= k}

Shared(M, r, K, s) ==
  /\ IsFiniteSet(M) /\ IsFiniteSet(K) /\ K \in SUBSET Int
  /\ \A k \in K : s[k] \in Int
  /\ \A m \in M : r[m] \in Nat /\ 1..r[m] \subseteq K
  /\ \A k \in K : k >= 1

shares_of(M, r, s) == [m \in M |-> SumFunctionOnSet(s, 1..r[m])]
parts_of(M, r, K, s) == [k \in K |-> s[k] * Cardinality(ranked(M, r, k))]

LEMMA CountedTwice ==
  ASSUME NEW M, NEW r, NEW K, NEW s, Shared(M, r, K, s)
  PROVE  SumFunctionOnSet(shares_of(M, r, s), M) = SumFunctionOnSet(parts_of(M, r, K, s), K)
<1> DEFINE P == {T \in SUBSET M : SumFunctionOnSet(shares_of(M, r, s), T) = SumFunctionOnSet(parts_of(T, r, K, s), K)}
           a == shares_of(M, r, s)
<1>1. /\ IsFiniteSet(M) /\ IsFiniteSet(K) /\ K \in SUBSET Int
      /\ \A k \in K : s[k] \in Int /\ k >= 1
      /\ \A m \in M : r[m] \in Nat /\ 1..r[m] \subseteq K
  BY DEF Shared
<1>2. \A m \in M : a[m] = SumFunctionOnSet(s, 1..r[m]) /\ a[m] \in Int
  <2> SUFFICES ASSUME NEW m \in M PROVE a[m] = SumFunctionOnSet(s, 1..r[m]) /\ a[m] \in Int
    OBVIOUS
  <2>1. a[m] = SumFunctionOnSet(s, 1..r[m])
    BY DEF shares_of
  <2> DEFINE R == 1..r[m]
  <2>2. IsFiniteSet(R) /\ \A k \in R : s[k] \in Int
    <3>1. r[m] \in Nat /\ R \subseteq K
      BY <1>1
    <3>2. IsFiniteSet(R)
      BY <3>1, FS_Interval
    <3> QED
      BY <1>1, <3>1, <3>2
  <2> HIDE DEF R
  <2>3. SumFunctionOnSet(s, R) \in Int
    BY <2>2, SumType
  <2> QED
    BY <2>1, <2>3 DEF R
<1> HIDE DEF a
<1>3. {} \in P
  <2>1. \A k \in K : parts_of({}, r, K, s)[k] = 0
    <3> SUFFICES ASSUME NEW k \in K PROVE parts_of({}, r, K, s)[k] = 0
      OBVIOUS
    <3>1. ranked({}, r, k) = {}
      BY DEF ranked
    <3>2. parts_of({}, r, K, s)[k] = s[k] * 0
      BY <3>1, FS_EmptySet DEF parts_of
    <3> QED
      BY <1>1, <3>2
  <2>2. SumFunctionOnSet(parts_of({}, r, K, s), K) = 0
    BY <1>1, <2>1, SumZero
  <2> QED
    BY <2>2, SumEmpty
<1>4. ASSUME NEW T \in P, NEW x \in M \ T PROVE T \cup {x} \in P
  <2> DEFINE p == parts_of(T, r, K, s)
             q == parts_of(T \cup {x}, r, K, s)
             h == [k \in K |-> IF k <= r[x] THEN s[k] ELSE 0]
  <2>1. T \in SUBSET M /\ IsFiniteSet(T) /\ x \notin T /\ T \cup {x} \in SUBSET M
        /\ SumFunctionOnSet(a, T) = SumFunctionOnSet(p, K)
    BY <1>1, FS_Subset DEF a
  <2>2. ASSUME NEW k \in K PROVE p[k] \in Int /\ q[k] \in Int /\ h[k] \in Int /\ p[k] = q[k] - h[k]
    <3> DEFINE A == ranked(T, r, k)
               B == ranked(T \cup {x}, r, k)
    <3>1. IsFiniteSet(A) /\ Cardinality(A) \in Nat /\ x \notin A
      <4>1. A \in SUBSET T
        BY DEF ranked
      <4> QED
        BY <2>1, <4>1, FS_Subset, FS_CardinalityType
    <3>2. p[k] = s[k] * Cardinality(A) /\ q[k] = s[k] * Cardinality(B)
      BY DEF parts_of
    <3>3. s[k] \in Int /\ k \in Int /\ r[x] \in Nat
      BY <1>1
    <3>4. CASE k <= r[x]
      <4>1. B = A \cup {x}
        BY <3>3, <3>4 DEF ranked
      <4>2. Cardinality(B) = Cardinality(A) + 1
        BY <3>1, <4>1, FS_AddElement
      <4>3. h[k] = s[k]
        BY <3>4
      <4> DEFINE n == Cardinality(A)
                 y == s[k]
      <4>4. p[k] = y * n /\ q[k] = y * (n + 1) /\ h[k] = y /\ y \in Int /\ n \in Int
        BY <3>1, <3>2, <3>3, <4>2, <4>3
      <4> HIDE DEF n, y, p, q, h
      <4>5. y * (n + 1) = y * n + y /\ y * n \in Int
        BY <4>4
      <4> QED
        BY <4>4, <4>5
    <3>5. CASE ~(k <= r[x])
      <4>1. B = A
        BY <3>3, <3>5 DEF ranked
      <4>2. h[k] = 0
        BY <3>5
      <4> DEFINE n == Cardinality(A)
                 y == s[k]
      <4>3. p[k] = y * n /\ q[k] = y * n /\ y \in Int /\ n \in Int
        BY <3>1, <3>2, <3>3, <4>1
      <4> HIDE DEF n, y, p, q, h
      <4>4. y * n \in Int
        BY <4>3
      <4> QED
        BY <4>2, <4>3, <4>4
    <3> QED
      BY <3>4, <3>5
  <2>3. SumFunctionOnSet(h, K) = SumFunctionOnSet(s, 1..r[x])
    <3> DEFINE R == 1..r[x]
    <3>1. R \in SUBSET K /\ r[x] \in Nat
      BY <1>1
    <3>2. \A k \in R : s[k] \in Int /\ h[k] = s[k]
      BY <1>1, <3>1
    <3>3. \A k \in K \ R : h[k] = 0
      BY <1>1, <3>1
    <3> HIDE DEF h, R
    <3>4. Within(s, R, h, K)
      BY <3>1, <3>2, <3>3 DEF Within
    <3>5. SumFunctionOnSet(h, K) = SumFunctionOnSet(s, R)
      BY <1>1, <3>4, SumWithin
    <3> QED
      BY <3>5 DEF R
  <2> HIDE DEF p, q, h
  <2>4. SumFunctionOnSet(p, K) = SumFunctionOnSet(q, K) - SumFunctionOnSet(h, K)
    <3>1. \A k \in K : q[k] \in Int /\ h[k] \in Int /\ p[k] = q[k] - h[k]
      BY <2>2
    <3> QED
      BY <1>1, <3>1, SumMinus
  <2>5. SumFunctionOnSet(q, K) \in Int /\ SumFunctionOnSet(h, K) \in Int
    <3>1. \A k \in K : q[k] \in Int /\ h[k] \in Int
      BY <2>2
    <3> QED
      BY <1>1, <3>1, SumType
  <2>6. SumFunctionOnSet(a, T \cup {x}) = a[x] + SumFunctionOnSet(a, T)
    <3>1. \A y \in T \cup {x} : a[y] \in Int
      BY <1>2, <2>1
    <3> QED
      BY <2>1, <3>1, SumAdd
  <2>7. SumFunctionOnSet(a, T \cup {x}) = SumFunctionOnSet(q, K)
    <3>1. a[x] = SumFunctionOnSet(h, K)
      BY <1>2, <2>3
    <3> QED
      BY <2>1, <2>4, <2>5, <2>6, <3>1
  <2> QED
    BY <2>1, <2>7 DEF a, q
<1>5. M \in P
  <2>1. P \in SUBSET (SUBSET M)
    OBVIOUS
  <2> HIDE DEF P
  <2> QED
    BY <1>1, <1>3, <1>4, <2>1, SubsetsAll
<1> QED
  BY <1>5 DEF a

\* A sum of one term.
LEMMA SumSingle ==
  ASSUME NEW f, NEW x, f[x] \in Int
  PROVE  SumFunctionOnSet(f, {x}) = f[x]
<1> DEFINE E == {}
<1>1. IsFiniteSet(E) /\ x \notin E /\ E \cup {x} = {x} /\ \A y \in E \cup {x} : f[y] \in Int
  BY FS_EmptySet
<1>2. SumFunctionOnSet(f, E) = 0
  BY SumEmpty
<1> HIDE DEF E
<1>3. SumFunctionOnSet(f, E \cup {x}) = f[x] + SumFunctionOnSet(f, E)
  BY <1>1, SumAdd
<1>4. SumFunctionOnSet(f, E \cup {x}) = SumFunctionOnSet(f, {x})
  BY <1>1, Zenon
<1> QED
  BY <1>2, <1>3, <1>4
=============================================================================
