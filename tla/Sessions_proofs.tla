-------------------------- MODULE Sessions_proofs --------------------------
(***************************************************************************)
(* Proofs about Sessions: no sequence number is accepted twice, gc finds   *)
(* every expired session, and the micro chain shows every session.  All    *)
(* follow from one invariant, SInv.  What it adds for sequence numbers is  *)
(* that a number accepted before is either remembered or below a window    *)
(* that is full (Remembered); for the rest, that an account has a key      *)
(* once and that the contract's row is indexed by its earliest expiration. *)
(***************************************************************************)
EXTENDS Sessions, SequenceTheorems, FiniteSetTheorems, WellFoundedInduction, TLAPS

-----------------------------------------------------------------------------
(***************************************************************************)
(* Positions.                                                              *)
(***************************************************************************)
LEMMA LeastExists ==
  ASSUME NEW S \in SUBSET Nat, S # {}
  PROVE  \E m \in S : \A l \in S : m <= l
<1>1. PICK m \in S : \A l \in S : ~(<<l, m>> \in OpToRel(<, Nat))
  BY WFMin, NatLessThanWellFounded
<1>2. \A l \in S : ~(l < m)
  BY <1>1 DEF OpToRel
<1> QED
  BY <1>2

upto(P, k) == {j \in P : j <= k}

LEMMA UptoCounts ==
  ASSUME NEW n \in Nat, NEW P \in SUBSET (1..n)
  PROVE  /\ IsFiniteSet(P) /\ Cardinality(P) \in Nat
         /\ upto(P, 0) = {} /\ upto(P, n) = P
         /\ \A k \in Nat : IsFiniteSet(upto(P, k)) /\ Cardinality(upto(P, k)) \in Nat
         /\ \A k \in Nat : Cardinality(upto(P, k + 1)) =
                            Cardinality(upto(P, k)) + IF k + 1 \in P THEN 1 ELSE 0
<1>1. IsFiniteSet(1..n) /\ \A j \in P : j \in Nat /\ 1 <= j /\ j <= n
  BY FS_Interval
<1>2. IsFiniteSet(P)
  BY <1>1, FS_Subset
<1>3. ASSUME NEW k \in Nat PROVE IsFiniteSet(upto(P, k))
  BY <1>2, FS_Subset DEF upto
<1>4. ASSUME NEW k \in Nat, k + 1 \in P
      PROVE  Cardinality(upto(P, k + 1)) = Cardinality(upto(P, k)) + 1
  <2>1. upto(P, k + 1) = upto(P, k) \cup {k + 1}
    <3>1. \A j \in P : j <= k + 1 <=> j <= k \/ j = k + 1
      BY <1>1
    <3> QED
      BY <1>4, <3>1, Zenon DEF upto
  <2>2. k + 1 \notin upto(P, k)
    BY DEF upto
  <2> QED
    BY <1>3, <2>1, <2>2, FS_AddElement
<1>5. upto(P, 0) = {} /\ upto(P, n) = P
  <2>1. \A j \in P : ~(j <= 0) /\ j <= n
    BY <1>1
  <2> QED
    BY <2>1, Zenon DEF upto
<1>6. ASSUME NEW k \in Nat, k + 1 \notin P PROVE upto(P, k + 1) = upto(P, k)
  <2>1. \A j \in P : j <= k + 1 <=> j <= k
    BY <1>1, <1>6
  <2> QED
    BY <2>1, Zenon DEF upto
<1>7. Cardinality(P) \in Nat /\ \A k \in Nat : Cardinality(upto(P, k)) \in Nat
  BY <1>2, <1>3, FS_CardinalityType
<1> QED
  BY <1>2, <1>3, <1>4, <1>5, <1>6, <1>7

\* There is an m-th element.
LEMMA Counted ==
  ASSUME NEW n \in Nat, NEW P \in SUBSET (1..n), NEW m \in 1..Cardinality(P)
  PROVE  \E k \in P : Cardinality(upto(P, k)) = m
<1> DEFINE c(k) == Cardinality(upto(P, k))
           B == {k \in Nat : c(k) >= m}
<1>1. Cardinality(P) \in Nat /\ c(0) = 0 /\ c(n) = Cardinality(P)
  BY UptoCounts, FS_EmptySet
<1>2. \A k \in Nat : c(k) \in Nat
  BY UptoCounts
<1>3. \A k \in Nat : c(k + 1) = c(k) + IF k + 1 \in P THEN 1 ELSE 0
  BY UptoCounts
<1> HIDE DEF c
<1>4. n \in B
  BY <1>1
<1>5. PICK k \in B : \A l \in B : k <= l
  BY <1>4, LeastExists
<1>6. k # 0 /\ k \in Nat
  BY <1>1, <1>5
<1>7. k - 1 \in Nat /\ k - 1 \notin B /\ (k - 1) + 1 = k
  BY <1>5, <1>6
<1>8. c(k - 1) < m /\ c(k) >= m
  BY <1>2, <1>5, <1>7
<1>9. k \in P /\ c(k) = m
  BY <1>2, <1>3, <1>7, <1>8
<1> QED
  BY <1>9 DEF c

LEMMA KeptFrom ==
  ASSUME NEW S, NEW s \in Seq(S), NEW P \in SUBSET DOMAIN s
  PROVE  /\ kept(s, P) \in Seq(S)
         /\ \E f \in [DOMAIN kept(s, P) -> P] : IsInjective(f) /\ \A n \in DOMAIN f : kept(s, P)[n] = s[f[n]]
<1> DEFINE f == [n \in 1..Cardinality(P) |-> CHOOSE k \in P : Cardinality(upto(P, k)) = n]
           t == kept(s, P)
<1>1. Len(s) \in Nat /\ DOMAIN s = 1..Len(s) /\ Cardinality(P) \in Nat
  BY LenProperties, UptoCounts
<1>2. \A n \in 1..Cardinality(P) : f[n] \in P /\ Cardinality(upto(P, f[n])) = n
  BY <1>1, Counted
<1>3. f \in [1..Cardinality(P) -> P] /\ IsInjective(f)
  <2>1. DOMAIN f = 1..Cardinality(P) /\ f = [n \in 1..Cardinality(P) |-> f[n]]
    OBVIOUS
  <2> HIDE DEF f
  <2> QED
    BY <1>2, <2>1 DEF IsInjective
<1>4. t = [n \in 1..Cardinality(P) |-> s[f[n]]]
  <2>1. \A n \in 1..Cardinality(P) : f[n] = CHOOSE k \in P : Cardinality({j \in P : j <= k}) = n
    BY Zenon DEF upto
  <2>2. t = [n \in 1..Cardinality(P) |-> s[CHOOSE k \in P : Cardinality({j \in P : j <= k}) = n]]
    BY Zenon DEF kept
  <2> DEFINE g(n) == CHOOSE k \in P : Cardinality({j \in P : j <= k}) = n
  <2>3. \A n \in 1..Cardinality(P) : f[n] = g(n)
    BY <2>1, Zenon
  <2>4. t = [n \in 1..Cardinality(P) |-> s[g(n)]]
    BY <2>2, Zenon
  <2> HIDE DEF f, g, t
  <2> QED
    BY <2>3, <2>4
<1> HIDE DEF f, t
<1>5. t \in [1..Cardinality(P) -> S]
  <2>1. \A i \in DOMAIN s : s[i] \in S
    BY <1>1, ElementOfSeq
  <2> QED
    BY <1>2, <1>4, <2>1
<1>6. t \in Seq(S) /\ DOMAIN t = 1..Cardinality(P) /\ DOMAIN f = 1..Cardinality(P)
  BY <1>1, <1>3, <1>5
<1> QED
  BY <1>3, <1>4, <1>6 DEF t

-----------------------------------------------------------------------------
(***************************************************************************)
(* The window of sequence numbers.                                         *)
(***************************************************************************)
Window(w) ==
  /\ w \in Seq(Nat) /\ Len(w) <= MaxSequences
  /\ \A i, j \in 1..Len(w) : i < j => w[i] < w[j]

\* A number accepted before is in the window, or below one that is full.
Remembered(h, w) ==
  /\ h \in Seq(Nat) /\ IsInjective(h)
  /\ \A i \in DOMAIN h : \/ \E j \in 1..Len(w) : w[j] = h[i]
                         \/ Len(w) = MaxSequences /\ h[i] < w[1]

LEMMA EmptyWindow == Window(<< >>) /\ Remembered(<< >>, << >>)
BY SessionsAssumption DEF Window, Remembered, IsInjective

\* The numbers below s are the first ones.
LEMMA BelowCounted ==
  ASSUME NEW w, Window(w), NEW s \in Nat
  PROVE  LET b == Cardinality({i \in DOMAIN w : w[i] < s})
         IN  /\ b \in 0..Len(w)
             /\ \A i \in 1..b : w[i] < s
             /\ \A i \in (b + 1)..Len(w) : w[i] >= s
<1> DEFINE L == {i \in DOMAIN w : w[i] < s}
           G == {k \in Nat : \A i \in L : i <= k}
<1>1. Len(w) \in Nat /\ DOMAIN w = 1..Len(w) /\ \A i \in 1..Len(w) : w[i] \in Nat
  BY LenProperties, ElementOfSeq DEF Window
<1>2. Len(w) \in G
  BY <1>1
<1>3. PICK b \in G : \A k \in G : b <= k
  BY <1>2, LeastExists
<1>4. b \in 0..Len(w)
  BY <1>1, <1>2, <1>3
<1>5. \A i \in 1..Len(w) : w[i] < s => i <= b
  BY <1>1, <1>3
<1>6. \A i \in 1..b : w[i] < s
  <2>1. CASE b = 0
    BY <2>1
  <2>2. CASE b # 0
    <3>1. b - 1 \in Nat /\ b - 1 \notin G
      BY <1>3, <1>4, <2>2
    <3>2. PICK i \in L : ~(i <= b - 1)
      BY <3>1
    <3>3. i = b /\ b \in 1..Len(w) /\ w[b] < s
      BY <1>1, <1>3, <1>4, <3>2
    <3>4. ASSUME NEW j \in 1..b PROVE w[j] < s
      <4>1. j = b \/ w[j] < w[b]
        BY <1>1, <1>4, <3>3 DEF Window
      <4> QED
        BY <1>1, <1>4, <3>3, <4>1
    <3> QED
      BY <3>4
  <2> QED
    BY <2>1, <2>2
<1>7. L = 1..b
  <2>1. \A i \in DOMAIN w : w[i] < s => i \in 1..b
    BY <1>1, <1>4, <1>5
  <2>2. \A i \in 1..b : i \in DOMAIN w /\ w[i] < s
    BY <1>1, <1>4, <1>6
  <2> QED
    BY <2>1, <2>2, Zenon
<1>8. Cardinality(L) = b
  <2>1. Cardinality(1..b) = b
    BY <1>4, FS_Interval
  <2> QED
    BY <1>7, <2>1, Zenon
<1>9. \A i \in (b + 1)..Len(w) : w[i] >= s
  BY <1>1, <1>4, <1>5
<1> HIDE DEF L
<1>10. /\ Cardinality(L) \in 0..Len(w)
       /\ \A i \in 1..Cardinality(L) : w[i] < s
       /\ \A i \in (Cardinality(L) + 1)..Len(w) : w[i] >= s
  BY <1>4, <1>6, <1>8, <1>9
<1> QED
  BY <1>10, Zenon DEF L

LEMMA FirstOf ==
  ASSUME NEW S, NEW w \in Seq(S), NEW b \in 0..Len(w)
  PROVE  /\ SubSeq(w, 1, b) \in Seq(S) /\ Len(SubSeq(w, 1, b)) = b
         /\ \A i \in 1..b : SubSeq(w, 1, b)[i] = w[i]
<1> DEFINE x == SubSeq(w, 1, b)
<1>1. Len(w) \in Nat /\ b \in Int /\ \A i \in 1..b : w[i] \in S
  BY LenProperties, ElementOfSeq
<1>2. /\ x \in Seq(S)
      /\ Len(x) = IF 1 <= b THEN b - 1 + 1 ELSE 0
      /\ \A i \in 1..(b - 1 + 1) : x[i] = w[1 + i - 1]
  BY <1>1, SubSeqProperties
<1> HIDE DEF x
<1>3. b - 1 + 1 = b /\ \A i \in 1..b : 1 + i - 1 = i
  BY <1>1
<1>4. x \in Seq(S) /\ Len(x) = b /\ \A i \in 1..b : x[i] = w[i]
  BY <1>1, <1>2, <1>3
<1> QED
  BY <1>4 DEF x

LEMMA LastOf ==
  ASSUME NEW S, NEW w \in Seq(S), NEW b \in 0..Len(w)
  PROVE  LET y == SubSeq(w, b + 1, Len(w))
         IN  y \in Seq(S) /\ Len(y) = Len(w) - b /\ \A i \in 1..(Len(w) - b) : y[i] = w[b + i]
<1> DEFINE c == b + 1
           n == Len(w)
           y == SubSeq(w, c, n)
<1>1. n \in Nat /\ c \in Int /\ \A i \in c..n : w[i] \in S
  BY LenProperties, ElementOfSeq
<1>0. c = b + 1 /\ b \in 0..n
  OBVIOUS
<1> HIDE DEF c, n
<1>2. /\ y \in Seq(S)
      /\ Len(y) = IF c <= n THEN n - c + 1 ELSE 0
      /\ \A i \in 1..(n - c + 1) : y[i] = w[c + i - 1]
  BY <1>1, SubSeqProperties
<1> HIDE DEF y
<1>3. n - c + 1 = n - b /\ \A i \in 1..(n - b) : c + i - 1 = b + i
  BY <1>0, <1>1
<1>4. Len(y) = n - b /\ \A i \in 1..(n - b) : y[i] = w[b + i]
  BY <1>0, <1>1, <1>2, <1>3
<1> QED
  BY <1>2, <1>4 DEF y, c, n

LEMMA Inserted ==
  ASSUME NEW w \in Seq(Nat), NEW b \in 0..Len(w), NEW s \in Nat
  PROVE  LET m == InsertAt(w, b + 1, s)
         IN  /\ m \in Seq(Nat) /\ Len(m) = Len(w) + 1
             /\ \A i \in 1..b : m[i] = w[i]
             /\ m[b + 1] = s
             /\ \A i \in (b + 2)..(Len(w) + 1) : m[i] = w[i - 1]
<1> DEFINE x == SubSeq(w, 1, b)
           y == SubSeq(w, b + 1, Len(w))
           z == x \o <<s>>
           m == z \o y
<1>1. Len(w) \in Nat
  BY LenProperties
<1>2. x \in Seq(Nat) /\ Len(x) = b /\ \A i \in 1..b : x[i] = w[i]
  BY <1>1, FirstOf
<1>3. y \in Seq(Nat) /\ Len(y) = Len(w) - b /\ \A i \in 1..(Len(w) - b) : y[i] = w[b + i]
  BY <1>1, LastOf
<1> HIDE DEF x, y
<1>4. z \in Seq(Nat) /\ Len(z) = b + 1 /\ (\A i \in 1..b : z[i] = w[i]) /\ z[b + 1] = s
  <2>1. z = Append(x, s)
    BY <1>2, AppendIsConcat
  <2> HIDE DEF z
  <2> QED
    BY <1>1, <1>2, <2>1, AppendProperties
<1> HIDE DEF z
<1>5. /\ m \in Seq(Nat) /\ Len(m) = Len(z) + Len(y)
      /\ \A i \in 1..(Len(z) + Len(y)) : m[i] = IF i <= Len(z) THEN z[i] ELSE y[i - Len(z)]
  BY <1>3, <1>4, ConcatProperties
<1>m. m = z \o y
  OBVIOUS
<1> HIDE DEF m
<1>6. /\ Len(m) = Len(w) + 1
      /\ \A i \in 1..(b + 1) : m[i] = z[i]
      /\ \A i \in (b + 2)..(Len(w) + 1) : m[i] = y[i - (b + 1)]
  <2>1. Len(z) + Len(y) = Len(w) + 1
    BY <1>1, <1>3, <1>4
  <2>2. \A i \in 1..(Len(w) + 1) : m[i] = IF i <= b + 1 THEN z[i] ELSE y[i - (b + 1)]
    BY <1>4, <1>5, <2>1
  <2> QED
    BY <1>1, <1>5, <2>1, <2>2
<1>7. \A i \in (b + 2)..(Len(w) + 1) : y[i - (b + 1)] = w[i - 1]
  <2> SUFFICES ASSUME NEW i \in (b + 2)..(Len(w) + 1) PROVE y[i - (b + 1)] = w[i - 1]
    OBVIOUS
  <2>1. i - (b + 1) \in 1..(Len(w) - b) /\ b + (i - (b + 1)) = i - 1
    BY <1>1
  <2> QED
    BY <1>3, <2>1
<1>8. (b + 1) - 1 = b
  BY <1>1
<1>9. m = InsertAt(w, b + 1, s)
  BY <1>m, <1>8 DEF InsertAt, z, x, y
<1>10. (\A i \in 1..b : m[i] = w[i]) /\ m[b + 1] = s
  BY <1>1, <1>4, <1>6
<1> QED
  BY <1>5, <1>6, <1>7, <1>9, <1>10

\* A number that passes the checks of run was not accepted before.
LEMMA FreshNumber ==
  ASSUME NEW w, Window(w), NEW h, Remembered(h, w), NEW s \in Nat, acceptable(w, s)
  PROVE  /\ \A i \in DOMAIN h : h[i] # s
         /\ \A i \in 1..Len(w) : w[i] # s
         /\ Len(w) = MaxSequences => w[1] < s
<1>1. Len(w) \in Nat /\ DOMAIN w = 1..Len(w) /\ \A i \in 1..Len(w) : w[i] \in Nat
  BY LenProperties, ElementOfSeq DEF Window
<1>2. \A i \in 1..Len(w) : w[i] # s
  BY <1>1 DEF acceptable
<1>3. ASSUME Len(w) = MaxSequences PROVE w[1] < s
  <2>1. 1 \in 1..Len(w) /\ w # << >>
    BY <1>1, <1>3, SessionsAssumption
  <2>2. ~(s < w[1])
    BY <1>1, <1>3, <2>1, SessionsAssumption DEF acceptable
  <2> QED
    BY <1>1, <1>2, <2>1, <2>2
<1>4. ASSUME NEW i \in DOMAIN h PROVE h[i] # s
  <2>1. h[i] \in Nat
    BY LenProperties, ElementOfSeq DEF Remembered
  <2>2. (\E j \in 1..Len(w) : w[j] = h[i]) \/ (Len(w) = MaxSequences /\ h[i] < w[1])
    BY DEF Remembered
  <2>3. Len(w) = MaxSequences => w[1] \in Nat
    BY <1>1, SessionsAssumption
  <2> QED
    BY <1>2, <1>3, <2>1, <2>2, <2>3
<1> QED
  BY <1>2, <1>3, <1>4

LEMMA NumberRemembered ==
  ASSUME NEW w, Window(w), NEW h, Remembered(h, w), NEW s \in Nat, acceptable(w, s)
  PROVE  Window(remember(w, s)) /\ Remembered(Append(h, s), remember(w, s))
<1> DEFINE b == Cardinality({i \in DOMAIN w : w[i] < s})
           m == InsertAt(w, b + 1, s)
           r == remember(w, s)
           g == Append(h, s)
<1>1. Len(w) \in Nat /\ w \in Seq(Nat) /\ Len(w) <= MaxSequences /\ \A i \in 1..Len(w) : w[i] \in Nat
  BY LenProperties, ElementOfSeq DEF Window
<1>2. b \in 0..Len(w) /\ (\A i \in 1..b : w[i] < s) /\ (\A i \in (b + 1)..Len(w) : w[i] >= s)
  BY BelowCounted
<1>3. r = IF Len(m) > MaxSequences THEN Tail(m) ELSE m
  BY Zenon DEF remember
<1> HIDE DEF b
<1>4. /\ m \in Seq(Nat) /\ Len(m) = Len(w) + 1
      /\ \A i \in 1..b : m[i] = w[i]
      /\ m[b + 1] = s
      /\ \A i \in (b + 2)..(Len(w) + 1) : m[i] = w[i - 1]
  BY <1>1, <1>2, Inserted
<1> HIDE DEF m, r
<1>5. /\ \A i \in DOMAIN h : h[i] # s
      /\ \A i \in 1..Len(w) : w[i] # s
      /\ Len(w) = MaxSequences => w[1] < s
  BY FreshNumber
<1>6. \A i \in 1..Len(m) : m[i] \in Nat
  BY <1>4, ElementOfSeq
<1>7. ASSUME NEW i \in 1..Len(m), NEW j \in 1..Len(m), i < j PROVE m[i] < m[j]
  <2>0. \A k, l \in 1..Len(w) : k < l => w[k] < w[l]
    BY DEF Window
  <2>n. b \in Nat /\ Len(w) \in Nat /\ b <= Len(w) /\ i \in Nat /\ j \in Nat /\ 1 <= i /\ j <= Len(w) + 1
    BY <1>1, <1>2, <1>4
  <2>f. i <= b => i \in 1..Len(w) /\ m[i] = w[i] /\ w[i] < s
    <3>1. i <= b => i \in 1..Len(w) /\ i \in 1..b
      BY <2>n
    <3> QED
      BY <1>2, <1>4, <3>1
  <2>1. CASE j <= b
    <3>1. i \in 1..b /\ j \in 1..b /\ i \in 1..Len(w) /\ j \in 1..Len(w)
      BY <1>7, <2>n, <2>1
    <3>2. m[i] = w[i] /\ m[j] = w[j]
      BY <1>4, <3>1
    <3>3. w[i] < w[j]
      BY <1>7, <2>0, <3>1
    <3> QED
      BY <3>2, <3>3
  <2>2. CASE j = b + 1
    <3>1. i <= b /\ m[j] = s
      BY <1>4, <1>7, <2>n, <2>2
    <3> QED
      BY <2>f, <3>1
  <2>3. CASE j > b + 1
    <3>1. j - 1 \in (b + 1)..Len(w) /\ m[j] = w[j - 1] /\ w[j - 1] > s
      <4>1. j - 1 \in (b + 1)..Len(w) /\ j - 1 \in 1..Len(w) /\ j \in (b + 2)..(Len(w) + 1)
        BY <1>1, <1>2, <1>4, <2>3
      <4>2. m[j] = w[j - 1] /\ w[j - 1] >= s /\ w[j - 1] # s /\ w[j - 1] \in Nat
        BY <1>1, <1>2, <1>4, <1>5, <4>1
      <4> QED
        BY <4>1, <4>2
    <3>2. CASE i <= b
      <4>1. m[i] < s /\ m[i] \in Nat /\ m[j] > s /\ m[j] \in Nat
        BY <1>6, <2>f, <3>1, <3>2
      <4> QED
        BY <4>1
    <3>3. CASE i = b + 1
      BY <1>4, <3>1, <3>3
    <3>4. CASE i > b + 1
      <4>1. i - 1 \in 1..Len(w) /\ j - 1 \in 1..Len(w) /\ i - 1 < j - 1 /\ i \in (b + 2)..(Len(w) + 1)
        BY <1>1, <1>2, <1>4, <1>7, <3>1, <3>4
      <4> QED
        BY <1>4, <2>0, <3>1, <4>1
    <3> QED
      BY <1>1, <1>2, <3>2, <3>3, <3>4
  <2> QED
    BY <1>1, <1>2, <2>1, <2>2, <2>3
<1>8. \A k \in 1..Len(w) : \E j \in 1..Len(m) : m[j] = w[k]
  <2> SUFFICES ASSUME NEW k \in 1..Len(w) PROVE \E j \in 1..Len(m) : m[j] = w[k]
    OBVIOUS
  <2>1. CASE k <= b
    BY <1>1, <1>2, <1>4, <2>1
  <2>2. CASE k > b
    <3>1. k + 1 \in (b + 2)..(Len(w) + 1) /\ (k + 1) - 1 = k /\ k + 1 \in 1..Len(m)
      BY <1>1, <1>2, <1>4, <2>2
    <3>2. m[k + 1] = w[(k + 1) - 1]
      BY <1>4, <3>1
    <3> QED
      BY <3>1, <3>2
  <2> QED
    BY <1>1, <1>2, <2>1, <2>2
<1>9. b + 1 \in 1..Len(m) /\ m[b + 1] = s
  BY <1>1, <1>2, <1>4
<1>10. /\ h \in Seq(Nat) /\ IsInjective(h) /\ Len(h) \in Nat /\ DOMAIN h = 1..Len(h)
       /\ g \in Seq(Nat) /\ DOMAIN g = 1..(Len(h) + 1) /\ g[Len(h) + 1] = s
       /\ \A i \in 1..Len(h) : g[i] = h[i]
  <2>1. h \in Seq(Nat) /\ IsInjective(h)
    BY DEF Remembered
  <2>2. g \in Seq(Nat) /\ Len(g) = Len(h) + 1 /\ g[Len(h) + 1] = s /\ \A i \in 1..Len(h) : g[i] = h[i]
    BY <2>1, AppendProperties
  <2> HIDE DEF g
  <2> QED
    BY <2>1, <2>2, LenProperties
<1> HIDE DEF g
<1>11. IsInjective(g)
  <2> SUFFICES ASSUME NEW i \in DOMAIN g, NEW j \in DOMAIN g, g[i] = g[j] PROVE i = j
    BY DEF IsInjective
  <2>1. ASSUME NEW k \in DOMAIN g PROVE (k \in DOMAIN h /\ g[k] = h[k] /\ g[k] # s) \/ (k = Len(h) + 1 /\ g[k] = s)
    BY <1>5, <1>10
  <2>2. \A k, l \in DOMAIN h : h[k] = h[l] => k = l
    BY <1>10 DEF IsInjective
  <2> QED
    BY <2>1, <2>2
<1>12. \A i \in DOMAIN g : \/ \E j \in 1..Len(m) : m[j] = g[i]
                           \/ Len(w) = MaxSequences /\ g[i] < w[1]
  <2> SUFFICES ASSUME NEW i \in DOMAIN g
               PROVE  \/ \E j \in 1..Len(m) : m[j] = g[i]
                      \/ Len(w) = MaxSequences /\ g[i] < w[1]
    OBVIOUS
  <2>1. CASE i = Len(h) + 1
    BY <1>9, <1>10, <2>1
  <2>2. CASE i \in 1..Len(h)
    <3>1. g[i] = h[i] /\ i \in DOMAIN h
      BY <1>10, <2>2
    <3>2. (\E j \in 1..Len(w) : w[j] = h[i]) \/ (Len(w) = MaxSequences /\ h[i] < w[1])
      BY <3>1 DEF Remembered
    <3> QED
      BY <1>8, <3>1, <3>2
  <2> QED
    BY <1>10, <2>1, <2>2
<1>13. CASE Len(m) <= MaxSequences
  <2>1. r = m /\ Len(w) # MaxSequences
    BY <1>1, <1>3, <1>4, <1>13, SessionsAssumption
  <2>2. Window(m)
    BY <1>4, <1>7, <1>13 DEF Window
  <2>3. Remembered(g, m)
    BY <1>10, <1>11, <1>12, <2>1 DEF Remembered
  <2> QED
    BY <2>1, <2>2, <2>3 DEF r, g
<1>14. CASE Len(m) > MaxSequences
  <2>1. Len(w) = MaxSequences /\ r = Tail(m) /\ m # << >>
    BY <1>1, <1>3, <1>4, <1>14, SessionsAssumption
  <2>2. r \in Seq(Nat) /\ Len(r) = Len(w) /\ \A i \in 1..Len(w) : r[i] = m[i + 1]
    <3>1. /\ Tail(m) \in Seq(Nat) /\ Len(Tail(m)) = Len(m) - 1
          /\ \A i \in 1..Len(Tail(m)) : Tail(m)[i] = m[i + 1]
      BY <1>4, <2>1, HeadTailProperties
    <3> QED
      BY <1>1, <1>4, <2>1, <3>1
  <2>3. \A i, j \in 1..Len(w) : i < j => r[i] < r[j]
    <3> SUFFICES ASSUME NEW i \in 1..Len(w), NEW j \in 1..Len(w), i < j PROVE r[i] < r[j]
      OBVIOUS
    <3>1. i + 1 \in 1..Len(m) /\ j + 1 \in 1..Len(m) /\ i + 1 < j + 1
      BY <1>1, <1>4
    <3> QED
      BY <1>7, <2>2, <3>1
  <2>4. Window(r)
    BY <1>1, <2>2, <2>3 DEF Window
  <2>5. 1 \in 1..Len(w) /\ r[1] = m[2] /\ m[1] < m[2] /\ m[1] \in Nat /\ m[2] \in Nat
    <3>1. 1 \in 1..Len(w) /\ 1 \in 1..Len(m) /\ 2 \in 1..Len(m)
      BY <1>1, <1>4, <2>1, SessionsAssumption
    <3> QED
      BY <1>6, <1>7, <2>2, <3>1
  <2>6. m[1] = w[1]
    <3>1. b # 0
      <4> SUFFICES ASSUME b = 0 PROVE FALSE
        OBVIOUS
      <4>1. 1 \in (b + 1)..Len(w) /\ w[1] >= s
        BY <1>1, <1>2, <2>5
      <4> QED
        BY <1>1, <1>5, <2>1, <2>5, <4>1
    <3> QED
      BY <1>1, <1>2, <1>4, <3>1
  <2>7. ASSUME NEW i \in DOMAIN g
        PROVE  (\E j \in 1..Len(r) : r[j] = g[i]) \/ (Len(r) = MaxSequences /\ g[i] < r[1])
    <3>0. g[i] \in Nat
      BY <1>10, ElementOfSeq, LenProperties
    <3>1. ASSUME NEW j \in 1..Len(m), m[j] = g[i] PROVE (\E l \in 1..Len(r) : r[l] = g[i]) \/ g[i] < r[1]
      <4>1. CASE j = 1
        BY <2>5, <3>1, <4>1
      <4>2. CASE j # 1
        <5>1. j - 1 \in 1..Len(w) /\ (j - 1) + 1 = j
          BY <1>1, <1>4, <4>2
        <5> QED
          BY <2>2, <3>1, <5>1
      <4> QED
        BY <4>1, <4>2
    <3>2. g[i] < w[1] => g[i] < r[1]
      BY <2>5, <2>6, <3>0
    <3> QED
      BY <1>12, <2>1, <2>2, <3>1, <3>2
  <2>8. Remembered(g, r)
    BY <1>10, <1>11, <2>7 DEF Remembered
  <2> QED
    BY <2>4, <2>8 DEF r, g
<1> QED
  BY <1>1, <1>4, <1>13, <1>14, SessionsAssumption

-----------------------------------------------------------------------------
(***************************************************************************)
(* Lists of sessions.                                                      *)
(***************************************************************************)
Session == [key : Key, expiration : Nat, sequences : Seq(Nat)]

\* An account has a key once.
Listed(l) == l \in Seq(Session) /\ \A i, j \in DOMAIN l : l[i].key = l[j].key => i = j

\* Every session of l is one of r that is not of a key in K.
From(l, r, K) == \A j \in DOMAIN l : \E i \in DOMAIN r : l[j] = r[i] /\ r[i].key \notin K

LEMMA ListFacts ==
  ASSUME NEW l, Listed(l)
  PROVE  /\ Len(l) \in Nat /\ DOMAIN l = 1..Len(l)
         /\ \A i \in DOMAIN l : /\ l[i] \in Session /\ l[i].key \in Key /\ l[i].expiration \in Nat
                                /\ l[i].sequences \in Seq(Nat)
<1>1. l \in Seq(Session)
  BY DEF Listed
<1>2. Len(l) \in Nat /\ DOMAIN l = 1..Len(l) /\ \A i \in DOMAIN l : l[i] \in Session
  BY <1>1, LenProperties, ElementOfSeq
<1> QED
  BY <1>2 DEF Session

LEMMA FromAgain ==
  ASSUME NEW l, NEW r, NEW t, NEW K, NEW M, From(l, r, K), From(r, t, M)
  PROVE  From(l, t, K) /\ From(l, t, M)
BY DEF From

LEMMA KeptListed ==
  ASSUME NEW l, Listed(l), NEW P \in SUBSET DOMAIN l
  PROVE  /\ Listed(kept(l, P))
         /\ \A n \in DOMAIN kept(l, P) : \E i \in P : kept(l, P)[n] = l[i]
<1> DEFINE t == kept(l, P)
<1>1. l \in Seq(Session) /\ \A i, j \in DOMAIN l : l[i].key = l[j].key => i = j
  BY DEF Listed
<1>2. t \in Seq(Session) /\ \E f \in [DOMAIN t -> P] : IsInjective(f) /\ \A n \in DOMAIN f : t[n] = l[f[n]]
  BY <1>1, KeptFrom
<1> HIDE DEF t
<1>3. PICK f \in [DOMAIN t -> P] : IsInjective(f) /\ \A n \in DOMAIN f : t[n] = l[f[n]]
  BY <1>2
<1>4. \A n \in DOMAIN t : f[n] \in P /\ t[n] = l[f[n]] /\ f[n] \in DOMAIN l
  BY <1>3
<1>5. \A m, n \in DOMAIN t : f[m] = f[n] => m = n
  BY <1>3 DEF IsInjective
<1>6. ASSUME NEW m \in DOMAIN t, NEW n \in DOMAIN t, t[m].key = t[n].key PROVE m = n
  <2>1. l[f[m]].key = l[f[n]].key
    BY <1>4, <1>6
  <2>2. f[m] = f[n]
    BY <1>1, <1>4, <2>1
  <2> QED
    BY <1>5, <2>2
<1>7. Listed(t) /\ \A n \in DOMAIN t : \E i \in P : t[n] = l[i]
  BY <1>2, <1>4, <1>6 DEF Listed
<1> QED
  BY <1>7 DEF t

LEMMA NotExpired ==
  ASSUME NEW l, Listed(l), now \in Nat, NEW i \in DOMAIN l, l[i].expiration > now
  PROVE  l[i].key \notin expired_keys(l)
<1> SUFFICES ASSUME NEW j \in DOMAIN l, l[j].expiration <= now, l[i].key = l[j].key PROVE FALSE
  BY DEF expired_keys
<1>1. i = j
  BY DEF Listed
<1>2. l[i].expiration \in Nat
  BY ListFacts
<1> QED
  BY <1>1, <1>2

\* expire keeps sessions that have not expired.
LEMMA AliveListed ==
  ASSUME NEW l, Listed(l), now \in Nat
  PROVE  /\ Listed(alive(l)) /\ From(alive(l), l, expired_keys(l))
         /\ \A j \in DOMAIN alive(l) : alive(l)[j].expiration > now
<1> DEFINE P == {i \in DOMAIN l : l[i].expiration > now}
<1>1. Listed(kept(l, P)) /\ \A n \in DOMAIN kept(l, P) : \E i \in P : kept(l, P)[n] = l[i]
  <2>1. P \in SUBSET DOMAIN l
    OBVIOUS
  <2> HIDE DEF P
  <2> QED
    BY <2>1, KeptListed
<1>2. \A i \in P : i \in DOMAIN l /\ l[i].key \notin expired_keys(l) /\ l[i].expiration > now
  BY NotExpired
<1>3. alive(l) = kept(l, P)
  BY DEF alive
<1> HIDE DEF P
<1>4. Listed(alive(l)) /\ \A n \in DOMAIN alive(l) : \E i \in P : alive(l)[n] = l[i]
  BY <1>1, <1>3
<1> QED
  BY <1>2, <1>4 DEF From

LEMMA RemovedListed ==
  ASSUME NEW l, Listed(l), NEW p \in DOMAIN l
  PROVE  Listed(RemoveAt(l, p)) /\ From(RemoveAt(l, p), l, {l[p].key})
<1> DEFINE x == SubSeq(l, 1, p - 1)
           y == SubSeq(l, p + 1, Len(l))
           t == x \o y
<1>1. Len(l) \in Nat /\ DOMAIN l = 1..Len(l) /\ l \in Seq(Session) /\ p \in Nat /\ p - 1 \in 0..Len(l) /\ p \in 0..Len(l)
  BY ListFacts DEF Listed
<1>2. x \in Seq(Session) /\ Len(x) = p - 1 /\ \A i \in 1..(p - 1) : x[i] = l[i]
  BY <1>1, FirstOf
<1>3. y \in Seq(Session) /\ Len(y) = Len(l) - p /\ \A i \in 1..(Len(l) - p) : y[i] = l[p + i]
  BY <1>1, LastOf
<1>4. t = RemoveAt(l, p)
  BY DEF RemoveAt
<1> HIDE DEF x, y
<1>5. /\ t \in Seq(Session) /\ Len(t) = Len(x) + Len(y)
      /\ \A i \in 1..(Len(x) + Len(y)) : t[i] = IF i <= Len(x) THEN x[i] ELSE y[i - Len(x)]
  BY <1>2, <1>3, ConcatProperties
<1> HIDE DEF t
<1>6. Len(t) = Len(l) - 1 /\ DOMAIN t = 1..(Len(l) - 1)
  BY <1>1, <1>2, <1>3, <1>5, LenProperties
<1> DEFINE f(i) == IF i < p THEN i ELSE i + 1
<1>7. \A i \in DOMAIN t : f(i) \in DOMAIN l /\ f(i) # p /\ t[i] = l[f(i)]
  <2> SUFFICES ASSUME NEW i \in DOMAIN t PROVE f(i) \in DOMAIN l /\ f(i) # p /\ t[i] = l[f(i)]
    OBVIOUS
  <2>1. i \in 1..(Len(l) - 1) /\ i \in 1..(Len(x) + Len(y))
    BY <1>1, <1>2, <1>3, <1>6
  <2>2. CASE i < p
    <3>1. i \in 1..(p - 1) /\ i <= Len(x) /\ i \in 1..Len(l)
      BY <1>1, <1>2, <2>1, <2>2
    <3>2. t[i] = x[i] /\ x[i] = l[i]
      BY <1>2, <1>5, <2>1, <3>1
    <3> QED
      BY <1>1, <2>2, <3>1, <3>2
  <2>3. CASE ~(i < p)
    <3>1. /\ i - (p - 1) \in 1..(Len(l) - p) /\ ~(i <= Len(x)) /\ i + 1 \in 1..Len(l)
          /\ p + (i - (p - 1)) = i + 1 /\ i + 1 # p
      BY <1>1, <1>2, <2>1, <2>3
    <3>2. t[i] = y[i - (p - 1)]
      BY <1>2, <1>5, <2>1, <3>1
    <3>3. y[i - (p - 1)] = l[p + (i - (p - 1))]
      BY <1>3, <3>1
    <3> QED
      BY <1>1, <2>3, <3>1, <3>2, <3>3
  <2> QED
    BY <2>2, <2>3
<1>8. \A i, j \in DOMAIN t : f(i) = f(j) => i = j
  BY <1>1, <1>6
<1> HIDE DEF f
<1>9. \A i, j \in DOMAIN l : l[i].key = l[j].key => i = j
  BY DEF Listed
<1>10. \A i, j \in DOMAIN t : t[i].key = t[j].key => i = j
  BY <1>7, <1>8, <1>9
<1>11. \A i \in DOMAIN t : l[f(i)].key \notin {l[p].key}
  BY <1>7, <1>9
<1> QED
  BY <1>4, <1>5, <1>7, <1>10, <1>11 DEF Listed, From

LEMMA AppendedListed ==
  ASSUME NEW l, Listed(l), NEW s \in Session, s.key \notin keys(l)
  PROVE  Listed(Append(l, s)) /\ \A j \in DOMAIN Append(l, s) : Append(l, s)[j] = s \/ \E i \in DOMAIN l : Append(l, s)[j] = l[i]
<1> DEFINE t == Append(l, s)
<1>1. Len(l) \in Nat /\ DOMAIN l = 1..Len(l) /\ l \in Seq(Session)
  BY ListFacts DEF Listed
<1>2. t \in Seq(Session) /\ Len(t) = Len(l) + 1 /\ t[Len(l) + 1] = s /\ \A i \in 1..Len(l) : t[i] = l[i]
  BY <1>1, AppendProperties
<1> HIDE DEF t
<1>3. DOMAIN t = 1..(Len(l) + 1)
  BY <1>1, <1>2, LenProperties
<1>4. \A i \in DOMAIN t : (i = Len(l) + 1 /\ t[i] = s) \/ (i \in DOMAIN l /\ t[i] = l[i])
  BY <1>1, <1>2, <1>3
<1>5. \A i \in DOMAIN l : l[i].key # s.key
  BY DEF keys
<1>6. \A i, j \in DOMAIN l : l[i].key = l[j].key => i = j
  BY DEF Listed
<1>7. \A i, j \in DOMAIN t : t[i].key = t[j].key => i = j
  BY <1>4, <1>5, <1>6
<1> QED
  BY <1>2, <1>4, <1>7 DEF Listed, t

LEMMA TailListed ==
  ASSUME NEW l, Listed(l), l # << >>
  PROVE  Listed(Tail(l)) /\ From(Tail(l), l, {})
<1> DEFINE t == Tail(l)
<1>1. Len(l) \in Nat /\ DOMAIN l = 1..Len(l) /\ l \in Seq(Session)
  BY ListFacts DEF Listed
<1>2. t \in Seq(Session) /\ Len(t) = Len(l) - 1 /\ \A i \in 1..Len(t) : t[i] = l[i + 1]
  BY <1>1, HeadTailProperties
<1> HIDE DEF t
<1>3. DOMAIN t = 1..(Len(l) - 1)
  BY <1>1, <1>2, LenProperties
<1>4. \A i \in DOMAIN t : i + 1 \in DOMAIN l /\ t[i] = l[i + 1]
  BY <1>1, <1>2, <1>3
<1>5. \A i, j \in DOMAIN l : l[i].key = l[j].key => i = j
  BY DEF Listed
<1>6. ASSUME NEW i \in DOMAIN t, NEW j \in DOMAIN t, t[i].key = t[j].key PROVE i = j
  <2>1. i + 1 = j + 1
    BY <1>4, <1>5, <1>6
  <2> QED
    BY <1>3, <2>1
<1> QED
  BY <1>2, <1>4, <1>6 DEF Listed, From, t

\* The index by earliest expiration finds a row as soon as one session has expired.
LEMMA EarliestFound ==
  ASSUME NEW l, Listed(l), NEW i \in DOMAIN l
  PROVE  set_expiration(l) \in Nat /\ set_expiration(l) <= l[i].expiration
<1> DEFINE T == {l[j].expiration : j \in DOMAIN l} \cup {Never}
<1>1. T \in SUBSET Nat /\ T # {} /\ l[i].expiration \in T
  BY ListFacts, SessionsAssumption DEF Never
<1>2. set_expiration(l) = CHOOSE t \in T : \A u \in T : t <= u
  BY Zenon DEF set_expiration
<1> HIDE DEF T
<1>3. \E t \in T : \A u \in T : t <= u
  BY <1>1, LeastExists
<1>4. set_expiration(l) \in T /\ \A u \in T : set_expiration(l) <= u
  BY <1>2, <1>3
<1> QED
  BY <1>1, <1>4

\* A session of the list is given other sequence numbers.
LEMMA ReplacedListed ==
  ASSUME NEW l, Listed(l), NEW p \in DOMAIN l, NEW s \in Session, s.key = l[p].key
  PROVE  LET t == [l EXCEPT ![p] = s]
         IN  /\ Listed(t) /\ DOMAIN t = DOMAIN l /\ t[p] = s
             /\ \A i \in DOMAIN l \ {p} : t[i] = l[i]
<1> DEFINE t == [l EXCEPT ![p] = s]
<1>1. Len(l) \in Nat /\ DOMAIN l = 1..Len(l) /\ l \in Seq(Session)
  BY ListFacts DEF Listed
<1>2. t \in Seq(Session) /\ DOMAIN t = DOMAIN l /\ t[p] = s /\ \A i \in DOMAIN l \ {p} : t[i] = l[i]
  BY <1>1, ExceptSeq
<1> HIDE DEF t
<1>3. \A i \in DOMAIN t : t[i].key = l[i].key
  BY <1>2
<1>4. Listed(t)
  BY <1>2, <1>3 DEF Listed
<1> QED
  BY <1>2, <1>4 DEF t

-----------------------------------------------------------------------------
(***************************************************************************)
(* The invariant.                                                          *)
(***************************************************************************)
Known(h, a, s) == Window(s.sequences) /\ Remembered(h[<<a, s.key>>], s.sequences)

entry(a, s) == [account |-> a, key |-> s.key, expiration |-> s.expiration]
Shown(v, a, l) == \A i \in DOMAIN l : entry(a, l[i]) \in v

RowsListed ==
  /\ DOMAIN sessions \subseteq Account /\ DOMAIN sessions \subseteq members
  /\ \A a \in DOMAIN sessions :
       Listed(sessions[a].list) /\ sessions[a].earliest_expiration = set_expiration(sessions[a].list)

NumbersKnown ==
  /\ DOMAIN accepted = registered(sessions)
  /\ \A a \in DOMAIN sessions : \A i \in DOMAIN sessions[a].list : Known(accepted, a, sessions[a].list[i])

SInv ==
  /\ now \in Nat /\ aborted \in BOOLEAN
  /\ RowsListed /\ NumbersKnown
  /\ ~aborted => \A a \in DOMAIN sessions : Shown(view, a, sessions[a].list)

LEMMA Registered ==
  ASSUME NEW f, DOMAIN f \subseteq Account, \A a \in DOMAIN f : Listed(f[a].list)
  PROVE  /\ \A a \in DOMAIN f : \A i \in DOMAIN f[a].list : <<a, f[a].list[i].key>> \in registered(f)
         /\ \A p \in registered(f) : \E a \in DOMAIN f : \E i \in DOMAIN f[a].list : p = <<a, f[a].list[i].key>>
<1>1. ASSUME NEW a \in DOMAIN f, NEW i \in DOMAIN f[a].list PROVE <<a, f[a].list[i].key>> \in registered(f)
  <2>1. a \in Account /\ f[a].list[i].key \in Key
    BY ListFacts
  <2> QED
    BY <2>1 DEF registered, keys
<1>2. ASSUME NEW p \in registered(f)
      PROVE  \E a \in DOMAIN f : \E i \in DOMAIN f[a].list : p = <<a, f[a].list[i].key>>
  <2>1. p \in Account \X Key /\ p[1] \in DOMAIN f /\ p[2] \in keys(f[p[1]].list)
    BY DEF registered
  <2>2. PICK i \in DOMAIN f[p[1]].list : f[p[1]].list[i].key = p[2]
    BY <2>1 DEF keys
  <2>3. p = <<p[1], p[2]>>
    BY <2>1
  <2> QED
    BY <2>1, <2>2, <2>3
<1> QED
  BY <1>1, <1>2

LEMMA SInvProperties ==
  ASSUME SInv
  PROVE  NoReplay /\ SessionsShown
<1>1. NoReplay
  <2> SUFFICES ASSUME NEW p \in DOMAIN accepted PROVE IsInjective(accepted[p])
    BY DEF NoReplay
  <2>1. PICK a \in DOMAIN sessions : \E i \in DOMAIN sessions[a].list : p = <<a, sessions[a].list[i].key>>
    BY Registered DEF SInv, RowsListed, NumbersKnown
  <2>2. PICK i \in DOMAIN sessions[a].list : p = <<a, sessions[a].list[i].key>>
    BY <2>1
  <2>3. Known(accepted, a, sessions[a].list[i])
    BY DEF SInv, NumbersKnown
  <2> QED
    BY <2>2, <2>3 DEF Known, Remembered
<1>2. ExpiredAreFound
  <2> SUFFICES ASSUME NEW a \in DOMAIN sessions, expired_keys(sessions[a].list) # {}
               PROVE  sessions[a].earliest_expiration <= now
    BY DEF ExpiredAreFound
  <2>1. PICK i \in DOMAIN sessions[a].list : sessions[a].list[i].expiration <= now
    BY DEF expired_keys
  <2>2. /\ sessions[a].earliest_expiration \in Nat /\ sessions[a].list[i].expiration \in Nat /\ now \in Nat
        /\ sessions[a].earliest_expiration <= sessions[a].list[i].expiration
    BY EarliestFound, ListFacts DEF SInv, RowsListed
  <2> QED
    BY <2>1, <2>2
<1>3. AllShown
  BY DEF AllShown, SInv, RowsListed, Shown, entry
<1> QED
  BY <1>1, <1>2, <1>3 DEF SessionsShown

LEMMA SInvInit == Init => SInv
<1> SUFFICES ASSUME Init PROVE SInv
  OBVIOUS
<1>1. DOMAIN sessions = {} /\ DOMAIN accepted = {} /\ now = 0 /\ aborted = FALSE
  BY DEF Init
<1>2. registered(sessions) = {}
  BY <1>1 DEF registered
<1> QED
  BY <1>1, <1>2 DEF SInv, RowsListed, NumbersKnown

LEMMA ShownWithout ==
  ASSUME NEW v, NEW a, NEW K
  PROVE  /\ \A l, r : Shown(v, a, r) /\ From(l, r, K) => Shown(without(v, a, K), a, l)
         /\ \A b, l : b # a /\ Shown(v, b, l) => Shown(without(v, a, K), b, l)
<1>1. \A b, s : entry(b, s).account = b /\ entry(b, s).key = s.key
  BY DEF entry
<1>2. ASSUME NEW l, NEW r, Shown(v, a, r), From(l, r, K), NEW j \in DOMAIN l PROVE entry(a, l[j]) \in without(v, a, K)
  <2>1. PICK i \in DOMAIN r : l[j] = r[i] /\ r[i].key \notin K
    BY <1>2 DEF From
  <2>2. entry(a, r[i]) \in v
    BY <1>2 DEF Shown
  <2> QED
    BY <1>1, <2>1, <2>2 DEF without
<1>3. ASSUME NEW b, NEW l, b # a, Shown(v, b, l), NEW j \in DOMAIN l PROVE entry(b, l[j]) \in without(v, a, K)
  BY <1>1, <1>3 DEF without, Shown
<1> QED
  BY <1>2, <1>3 DEF Shown

\* Sessions only go, and no numbers are accepted.
LEMMA SessionsGo ==
  ASSUME SInv, now' = now, aborted' = aborted,
         DOMAIN sessions' \subseteq DOMAIN sessions, DOMAIN sessions' \subseteq members',
         \A a \in DOMAIN sessions' :
           /\ Listed(sessions'[a].list) /\ sessions'[a].earliest_expiration = set_expiration(sessions'[a].list)
           /\ From(sessions'[a].list, sessions[a].list, {}),
         accepted' = [p \in registered(sessions') |-> accepted[p]],
         ~aborted => \A a \in DOMAIN sessions' : Shown(view', a, sessions'[a].list)
  PROVE  SInv'
<1>1. RowsListed'
  BY DEF SInv, RowsListed
<1>2. ASSUME NEW a \in DOMAIN sessions', NEW j \in DOMAIN sessions'[a].list
      PROVE  Known(accepted', a, sessions'[a].list[j])
  <2>1. PICK i \in DOMAIN sessions[a].list : sessions'[a].list[j] = sessions[a].list[i]
    BY DEF From
  <2>2. Known(accepted, a, sessions[a].list[i])
    BY DEF SInv, NumbersKnown
  <2>3. <<a, sessions'[a].list[j].key>> \in registered(sessions')
    BY <1>1, Registered DEF RowsListed
  <2>4. accepted'[<<a, sessions'[a].list[j].key>>] = accepted[<<a, sessions'[a].list[j].key>>]
    BY <2>3
  <2> QED
    BY <2>1, <2>2, <2>4 DEF Known
<1>3. NumbersKnown'
  BY <1>2 DEF NumbersKnown
<1> QED
  BY <1>1, <1>3 DEF SInv

-----------------------------------------------------------------------------
(***************************************************************************)
(* The actions.                                                            *)
(***************************************************************************)
LEMMA RowContained ==
  ASSUME NEW l
  PROVE  container(l).list = l /\ container(l).earliest_expiration = set_expiration(l)
BY DEF container

\* What is stored for an account whose sessions are l: no row if there are none.
LEMMA Stored ==
  ASSUME NEW a, NEW l, sessions' = IF l = << >> THEN without_rows({a}) ELSE with_row(a, container(l)),
         a \in DOMAIN sessions
  PROVE  /\ DOMAIN sessions' \subseteq DOMAIN sessions
         /\ a \in DOMAIN sessions' => sessions'[a] = container(l)
         /\ \A b \in DOMAIN sessions' \ {a} : sessions'[b] = sessions[b]
<1>1. CASE l = << >>
  <2>1. sessions' = [b \in DOMAIN sessions \ {a} |-> sessions[b]]
    BY <1>1 DEF without_rows
  <2> QED
    BY <2>1
<1>2. CASE l # << >>
  <2>1. sessions' = [b \in DOMAIN sessions \cup {a} |-> IF b = a THEN container(l) ELSE sessions[b]]
    BY <1>2 DEF with_row
  <2> QED
    BY <2>1
<1> QED
  BY <1>1, <1>2

\* The sessions of one account are now l, a part of those there were.
LEMMA ListShrinks ==
  ASSUME SInv, now' = now, aborted' = aborted, members' = members,
         NEW a \in DOMAIN sessions, NEW l, NEW K, Listed(l), From(l, sessions[a].list, K),
         sessions' = IF l = << >> THEN without_rows({a}) ELSE with_row(a, container(l)),
         view' = IF aborted THEN view ELSE without(view, a, K),
         accepted' = [p \in registered(sessions') |-> accepted[p]]
  PROVE  SInv'
<1>1. /\ DOMAIN sessions' \subseteq DOMAIN sessions
      /\ a \in DOMAIN sessions' => sessions'[a].list = l /\ sessions'[a].earliest_expiration = set_expiration(l)
      /\ \A b \in DOMAIN sessions' \ {a} : sessions'[b] = sessions[b]
  <2>1. /\ DOMAIN sessions' \subseteq DOMAIN sessions
        /\ a \in DOMAIN sessions' => sessions'[a] = container(l)
        /\ \A b \in DOMAIN sessions' \ {a} : sessions'[b] = sessions[b]
    BY Stored, Zenon
  <2>2. container(l).list = l /\ container(l).earliest_expiration = set_expiration(l)
    BY RowContained
  <2> QED
    BY <2>1, <2>2, Zenon
<1>2. ASSUME NEW b \in DOMAIN sessions'
      PROVE  /\ Listed(sessions'[b].list) /\ sessions'[b].earliest_expiration = set_expiration(sessions'[b].list)
             /\ From(sessions'[b].list, sessions[b].list, {})
  <2>1. CASE b = a
    BY <1>1, <2>1 DEF From
  <2>2. CASE b # a
    BY <1>1, <2>2 DEF From, SInv, RowsListed
  <2> QED
    BY <2>1, <2>2
<1>3. ASSUME ~aborted, NEW b \in DOMAIN sessions' PROVE Shown(view', b, sessions'[b].list)
  <2>1. view' = without(view, a, K) /\ Shown(view, b, sessions[b].list)
    BY <1>1, <1>3 DEF SInv
  <2>2. CASE b = a
    BY <1>1, <2>1, <2>2, ShownWithout
  <2>3. CASE b # a
    BY <1>1, <2>1, <2>3, ShownWithout
  <2> QED
    BY <2>2, <2>3
<1>4. DOMAIN sessions' \subseteq members'
  BY <1>1 DEF SInv, RowsListed
<1> QED
  BY <1>1, <1>2, <1>3, <1>4, SessionsGo

LEMMA DelSession ==
  ASSUME SInv, NEW a \in Account, NEW k \in Key, delsession(a, k)
  PROVE  SInv'
<1> DEFINE list == sessions[a].list
           p == position(list, k)
           r == RemoveAt(list, p)
           l == alive(r)
<1>1. /\ a \in DOMAIN sessions /\ k \in keys(list)
      /\ sessions' = IF l = << >> THEN without_rows({a}) ELSE with_row(a, container(l))
      /\ view' = IF aborted THEN view ELSE without(view, a, {k} \cup expired_keys(list))
      /\ accepted' = [q \in registered(sessions') |-> accepted[q]]
      /\ now' = now /\ members' = members /\ aborted' = aborted
  BY Zenon DEF delsession
<1>2. now \in Nat /\ Listed(list)
  BY <1>1 DEF SInv, RowsListed
<1>3. p \in DOMAIN list /\ list[p].key = k
  BY <1>1 DEF keys, position
<1> HIDE DEF p
<1>4. Listed(r) /\ From(r, list, {k})
  BY <1>2, <1>3, RemovedListed
<1> HIDE DEF r
<1>5. Listed(l) /\ From(l, r, expired_keys(r)) /\ \A j \in DOMAIN l : l[j].expiration > now
  BY <1>2, <1>4, AliveListed
<1> HIDE DEF l
<1>6. From(l, list, {k})
  BY <1>4, <1>5, FromAgain
<1> HIDE DEF list
<1>7. From(l, list, {k} \cup expired_keys(list))
  <2> SUFFICES ASSUME NEW j \in DOMAIN l
               PROVE  \E i \in DOMAIN list : l[j] = list[i] /\ list[i].key \notin {k} \cup expired_keys(list)
    BY DEF From
  <2>1. PICK i \in DOMAIN list : l[j] = list[i] /\ list[i].key \notin {k}
    BY <1>6 DEF From
  <2>2. list[i].expiration > now
    BY <1>5, <2>1
  <2>3. list[i].key \notin expired_keys(list)
    BY <1>2, <2>2, NotExpired
  <2> QED
    BY <2>1, <2>3
<1> DEFINE K == {k} \cup expired_keys(list)
<1>8. From(l, sessions[a].list, K) /\ view' = IF aborted THEN view ELSE without(view, a, K)
  BY <1>1, <1>7 DEF list
<1> HIDE DEF K
<1> QED
  BY <1>1, <1>5, <1>8, ListShrinks

LEMMA RemoveMember ==
  ASSUME SInv, NEW a \in Account, remove_member(a)
  PROVE  SInv'
<1> DEFINE K == IF a \in DOMAIN sessions THEN keys(sessions[a].list) ELSE {}
<1>1. /\ members' = members \ {a} /\ sessions' = [b \in DOMAIN sessions \ {a} |-> sessions[b]]
      /\ view' = IF aborted THEN view ELSE without(view, a, K)
      /\ accepted' = [q \in registered(sessions') |-> accepted[q]]
      /\ now' = now /\ aborted' = aborted
  BY Zenon DEF remove_member, without_rows
<1> HIDE DEF K
<1>2. DOMAIN sessions' = DOMAIN sessions \ {a} /\ \A b \in DOMAIN sessions' : sessions'[b] = sessions[b]
  BY <1>1
<1>3. DOMAIN sessions' \subseteq members'
  BY <1>1, <1>2 DEF SInv, RowsListed
<1>4. \A b \in DOMAIN sessions' :
        /\ Listed(sessions'[b].list) /\ sessions'[b].earliest_expiration = set_expiration(sessions'[b].list)
        /\ From(sessions'[b].list, sessions[b].list, {})
  BY <1>2 DEF From, SInv, RowsListed
<1>5. ASSUME ~aborted, NEW b \in DOMAIN sessions' PROVE Shown(view', b, sessions'[b].list)
  <2>1. b # a /\ sessions'[b] = sessions[b] /\ Shown(view, b, sessions[b].list) /\ view' = without(view, a, K)
    BY <1>1, <1>2, <1>5 DEF SInv
  <2> QED
    BY <2>1, ShownWithout
<1> QED
  BY <1>1, <1>2, <1>3, <1>4, <1>5, SessionsGo

LEMMA Collected ==
  ASSUME SInv, NEW n, gc_sessions(n)
  PROVE  SInv'
<1> DEFINE due == {a \in DOMAIN sessions : sessions[a].earliest_expiration <= now}
           gone(A) == {a \in A : alive(sessions[a].list) = << >>}
<1>0. \E A \in SUBSET due :
        /\ sessions' = [a \in DOMAIN sessions \ gone(A) |->
                          IF a \in A THEN container(alive(sessions[a].list)) ELSE sessions[a]]
        /\ view' = IF aborted THEN view
                   ELSE {s \in view : ~(s.account \in A /\ s.key \in expired_keys(sessions[s.account].list))}
        /\ accepted' = [p \in registered(sessions') |-> accepted[p]]
        /\ now' = now /\ members' = members /\ aborted' = aborted
  BY Zenon DEF gc_sessions
<1>1. PICK A \in SUBSET due :
        /\ sessions' = [a \in DOMAIN sessions \ gone(A) |->
                          IF a \in A THEN container(alive(sessions[a].list)) ELSE sessions[a]]
        /\ view' = IF aborted THEN view
                   ELSE {s \in view : ~(s.account \in A /\ s.key \in expired_keys(sessions[s.account].list))}
        /\ accepted' = [p \in registered(sessions') |-> accepted[p]]
        /\ now' = now /\ members' = members /\ aborted' = aborted
  BY <1>0, Zenon
<1> HIDE DEF due, gone
<1>2. /\ DOMAIN sessions' \subseteq DOMAIN sessions
      /\ \A a \in DOMAIN sessions' : sessions'[a] = IF a \in A THEN container(alive(sessions[a].list)) ELSE sessions[a]
  BY <1>1
<1>3. now \in Nat /\ \A a \in DOMAIN sessions : Listed(sessions[a].list)
  BY DEF SInv, RowsListed
<1>4. ASSUME NEW a \in DOMAIN sessions'
      PROVE  /\ Listed(sessions'[a].list) /\ sessions'[a].earliest_expiration = set_expiration(sessions'[a].list)
             /\ From(sessions'[a].list, sessions[a].list, IF a \in A THEN expired_keys(sessions[a].list) ELSE {})
  <2>1. CASE a \in A
    <3>1. sessions'[a].list = alive(sessions[a].list) /\ sessions'[a].earliest_expiration = set_expiration(sessions'[a].list)
      BY <1>2, <2>1, RowContained
    <3> QED
      BY <1>2, <1>3, <2>1, <3>1, AliveListed
  <2>2. CASE a \notin A
    BY <1>2, <2>2 DEF From, SInv, RowsListed
  <2> QED
    BY <2>1, <2>2
<1>5. \A a \in DOMAIN sessions' : From(sessions'[a].list, sessions[a].list, {})
  BY <1>4 DEF From
<1>6. ASSUME ~aborted, NEW a \in DOMAIN sessions' PROVE Shown(view', a, sessions'[a].list)
  <2> SUFFICES ASSUME NEW j \in DOMAIN sessions'[a].list PROVE entry(a, sessions'[a].list[j]) \in view'
    BY DEF Shown
  <2> DEFINE r == sessions[a].list
  <2>1. PICK i \in DOMAIN r : sessions'[a].list[j] = r[i] /\ (a \in A => r[i].key \notin expired_keys(r))
    BY <1>4 DEF From
  <2>2. entry(a, r[i]) \in view
    BY <1>2, <1>6 DEF SInv, Shown
  <2>3. entry(a, r[i]).account = a /\ entry(a, r[i]).key = r[i].key
    BY DEF entry
  <2> QED
    BY <1>1, <1>6, <2>1, <2>2, <2>3
<1>7. DOMAIN sessions' \subseteq members'
  BY <1>1, <1>2 DEF SInv, RowsListed
<1> QED
  BY <1>1, <1>2, <1>4, <1>5, <1>6, <1>7, SessionsGo

\* One account has the sessions l, the others what they had; what is left to show of l.
LEMMA OneListChanges ==
  ASSUME SInv, now' = now, members' = members, aborted' \in BOOLEAN, aborted => aborted',
         NEW a \in Account, a \in members, NEW l, Listed(l),
         DOMAIN sessions' \subseteq DOMAIN sessions \cup {a},
         a \in DOMAIN sessions' => sessions'[a] = container(l),
         \A b \in DOMAIN sessions' \ {a} : sessions'[b] = sessions[b],
         DOMAIN accepted' = registered(sessions'),
         \A p \in DOMAIN accepted \cap DOMAIN accepted' : p[1] # a => accepted'[p] = accepted[p],
         a \in DOMAIN sessions' => \A j \in DOMAIN l : Known(accepted', a, l[j]),
         ~aborted' => /\ a \in DOMAIN sessions' => Shown(view', a, l)
                      /\ \A b \in DOMAIN sessions \ {a} : Shown(view', b, sessions[b].list)
  PROVE  SInv'
<1>1. a \in DOMAIN sessions' => sessions'[a].list = l /\ sessions'[a].earliest_expiration = set_expiration(l)
  BY RowContained
<1>2. RowsListed'
  <2>1. ASSUME NEW b \in DOMAIN sessions'
        PROVE  /\ Listed(sessions'[b].list) /\ sessions'[b].earliest_expiration = set_expiration(sessions'[b].list)
               /\ b \in Account /\ b \in members
    <3>1. CASE b = a
      BY <1>1, <3>1
    <3>2. CASE b # a
      BY <3>2 DEF SInv, RowsListed
    <3> QED
      BY <3>1, <3>2
  <2> QED
    BY <2>1 DEF RowsListed
<1>3. ASSUME NEW b \in DOMAIN sessions', NEW j \in DOMAIN sessions'[b].list
      PROVE  Known(accepted', b, sessions'[b].list[j])
  <2>1. CASE b = a
    BY <1>1, <2>1
  <2>2. CASE b # a
    <3> DEFINE s == sessions[b].list[j]
    <3>1. b \in DOMAIN sessions /\ sessions'[b] = sessions[b]
      BY <2>2
    <3>2. Known(accepted, b, s)
      BY <3>1 DEF SInv, NumbersKnown
    <3>3. <<b, s.key>> \in registered(sessions) /\ <<b, s.key>> \in registered(sessions')
      <4>1. <<b, s.key>> \in registered(sessions)
        BY <3>1, Registered DEF SInv, RowsListed
      <4>2. <<b, sessions'[b].list[j].key>> \in registered(sessions')
        BY <1>2, Registered DEF RowsListed
      <4> QED
        BY <3>1, <4>1, <4>2
    <3>4. <<b, s.key>>[1] = b
      OBVIOUS
    <3>5. accepted'[<<b, s.key>>] = accepted[<<b, s.key>>]
      BY <2>2, <3>3, <3>4 DEF SInv, NumbersKnown
    <3> QED
      BY <3>1, <3>2, <3>5 DEF Known
  <2> QED
    BY <2>1, <2>2
<1>4. NumbersKnown'
  BY <1>3 DEF NumbersKnown
<1>5. ASSUME ~aborted', NEW b \in DOMAIN sessions' PROVE Shown(view', b, sessions'[b].list)
  <2>1. CASE b = a
    BY <1>1, <1>5, <2>1
  <2>2. CASE b # a
    BY <1>5, <2>2
  <2> QED
    BY <2>1, <2>2
<1> QED
  BY <1>2, <1>4, <1>5 DEF SInv

LEMMA NewSession ==
  ASSUME SInv, NEW a \in Account, NEW k \in Key, NEW e \in Nat, newsession(a, k, e)
  PROVE  SInv'
<1> DEFINE session == [key |-> k, expiration |-> e, sequences |-> << >>]
           old == IF a \in DOMAIN sessions THEN sessions[a].list ELSE << >>
           viewed == without(view, a, expired_keys(old))
           grown == Append(alive(old), session)
           l == IF old = << >> THEN <<session>> ELSE IF Len(grown) > MaxSessions THEN Tail(grown) ELSE grown
<1>1. /\ a \in members /\ k \notin keys(alive(old))
      /\ sessions' = with_row(a, IF old = << >> THEN container(<<session>>) ELSE appended(sessions[a], session))
      /\ aborted' = (aborted \/ \E s \in viewed : s.account = a /\ s.key = k)
      /\ view' = IF aborted' THEN view
                 ELSE viewed \cup {[account |-> a, key |-> k, expiration |-> e]}
      /\ accepted' = [p \in registered(sessions') |-> IF p = <<a, k>> \/ p \notin DOMAIN accepted THEN << >>
                                                      ELSE accepted[p]]
      /\ now' = now /\ members' = members
  BY Zenon DEF newsession
<1>2. session \in Session /\ session.key = k /\ session.sequences = << >> /\ session.expiration = e
  BY DEF Session
<1>3. Listed(<< >>)
  BY DEF Listed
<1>4. now \in Nat /\ Listed(old)
  BY <1>3 DEF SInv, RowsListed
<1>5. sessions' = with_row(a, container(l))
  <2>1. CASE old = << >>
    BY <1>1, <2>1
  <2>2. CASE old # << >>
    <3>1. old = sessions[a].list
      BY <2>2
    <3>2. appended(sessions[a], session) = container(IF Len(grown) > MaxSessions THEN Tail(grown) ELSE grown)
      BY <3>1, Zenon DEF appended
    <3> QED
      BY <1>1, <2>2, <3>2, Zenon
  <2> QED
    BY <2>1, <2>2
<1>o. \A i \in DOMAIN old : a \in DOMAIN sessions /\ old[i] = sessions[a].list[i] /\ i \in DOMAIN sessions[a].list
  OBVIOUS
<1>s. (a \in DOMAIN sessions => old = sessions[a].list) /\ (a \notin DOMAIN sessions => old = << >>)
  OBVIOUS
<1> HIDE DEF old, session, viewed
<1>6. /\ Listed(alive(old)) /\ From(alive(old), old, expired_keys(old))
  BY <1>4, AliveListed
<1>7. Listed(grown) /\ \A j \in DOMAIN grown : grown[j] = session \/ \E i \in DOMAIN alive(old) : grown[j] = alive(old)[i]
  BY <1>1, <1>2, <1>6, AppendedListed
<1>8. \A i \in DOMAIN alive(old) : alive(old)[i].key # k
  BY <1>1 DEF keys
<1> DEFINE Right(t) == t = session \/ \E i \in DOMAIN old : t = old[i] /\ old[i].key \notin expired_keys(old) /\ old[i].key # k
<1>9. \A j \in DOMAIN grown : Right(grown[j])
  BY <1>6, <1>7, <1>8 DEF From
<1>g. grown # << >>
  <2>1. alive(old) \in Seq(Session)
    BY <1>6 DEF Listed
  <2> QED
    BY <1>2, <2>1, AppendProperties
<1> HIDE DEF grown
<1>10. Listed(l) /\ \A j \in DOMAIN l : Right(l[j])
  <2>1. CASE old = << >>
    <3>1. l = <<session>>
      BY <2>1
    <3>2. Listed(<<session>>) /\ \A j \in DOMAIN <<session>> : <<session>>[j] = session
      BY <1>2 DEF Listed
    <3> QED
      BY <3>1, <3>2
  <2>2. CASE old # << >> /\ Len(grown) > MaxSessions
    <3>1. l = Tail(grown)
      BY <2>2
    <3>2. Listed(Tail(grown)) /\ From(Tail(grown), grown, {})
      BY <1>7, <1>g, TailListed
    <3> HIDE DEF Right
    <3> QED
      BY <1>9, <3>1, <3>2 DEF From
  <2>3. CASE old # << >> /\ ~(Len(grown) > MaxSessions)
    BY <1>7, <1>9, <2>3
  <2> QED
    BY <2>1, <2>2, <2>3
<1> HIDE DEF l
<1>11. /\ DOMAIN sessions' = DOMAIN sessions \cup {a} /\ sessions'[a] = container(l)
       /\ \A b \in DOMAIN sessions' \ {a} : sessions'[b] = sessions[b]
  BY <1>5 DEF with_row
<1>12. DOMAIN accepted' = registered(sessions')
  BY <1>1
<1>13. \A p \in DOMAIN accepted \cap DOMAIN accepted' : p # <<a, k>> => accepted'[p] = accepted[p]
  BY <1>1
<1>14. \A p \in DOMAIN accepted \cap DOMAIN accepted' : p[1] # a => accepted'[p] = accepted[p]
  BY <1>13
<1>15. \A j \in DOMAIN l : <<a, l[j].key>> \in registered(sessions')
  <2> SUFFICES ASSUME NEW j \in DOMAIN l PROVE <<a, l[j].key>> \in registered(sessions')
    OBVIOUS
  <2>1. sessions'[a].list = l /\ l[j].key \in Key
    BY <1>10, <1>11, RowContained, ListFacts
  <2> QED
    BY <1>11, <2>1 DEF registered, keys
<1>16. ASSUME NEW j \in DOMAIN l PROVE Known(accepted', a, l[j])
  <2>1. CASE l[j] = session
    <3>1. accepted'[<<a, k>>] = << >>
      BY <1>1, <1>2, <1>15, <2>1
    <3> QED
      BY <1>2, <2>1, <3>1, EmptyWindow DEF Known
  <2>2. CASE \E i \in DOMAIN old : l[j] = old[i] /\ old[i].key # k
    <3>1. PICK i \in DOMAIN old : l[j] = old[i] /\ old[i].key # k
      BY <2>2
    <3>2. Known(accepted, a, old[i])
      BY <1>o DEF SInv, NumbersKnown
    <3>3. <<a, old[i].key>> \in registered(sessions)
      <4>1. \A b \in DOMAIN sessions : \A n \in DOMAIN sessions[b].list : <<b, sessions[b].list[n].key>> \in registered(sessions)
        BY Registered DEF SInv, RowsListed
      <4> QED
        BY <1>o, <4>1
    <3>4. <<a, old[i].key>> \in DOMAIN accepted \cap DOMAIN accepted'
      BY <1>12, <1>15, <3>1, <3>3 DEF SInv, NumbersKnown
    <3>5. <<a, old[i].key>> # <<a, k>>
      BY <3>1
    <3>6. accepted'[<<a, old[i].key>>] = accepted[<<a, old[i].key>>]
      BY <1>13, <3>4, <3>5
    <3> QED
      BY <3>1, <3>2, <3>6 DEF Known
  <2> QED
    BY <1>10, <2>1, <2>2
<1>17. aborted' \in BOOLEAN /\ (aborted => aborted')
  BY <1>1 DEF SInv
<1>18. ASSUME ~aborted' PROVE ~aborted /\ view' = viewed \cup {entry(a, session)}
  BY <1>1, <1>2, <1>17, <1>18 DEF entry, SInv
<1>19. ASSUME ~aborted', NEW j \in DOMAIN l PROVE entry(a, l[j]) \in view'
  <2>1. CASE l[j] = session
    BY <1>18, <1>19, <2>1
  <2>2. ASSUME NEW i \in DOMAIN old, l[j] = old[i], old[i].key \notin expired_keys(old) PROVE entry(a, l[j]) \in view'
    <3>1. entry(a, old[i]) \in view
      BY <1>o, <1>18, <1>19 DEF SInv, Shown
    <3>2. entry(a, old[i]).account = a /\ entry(a, old[i]).key = old[i].key
      BY DEF entry
    <3>3. entry(a, old[i]) \in viewed
      BY <2>2, <3>1, <3>2 DEF viewed, without
    <3> QED
      BY <1>18, <1>19, <2>2, <3>3
  <2> QED
    BY <1>10, <2>1, <2>2
<1>20. ASSUME ~aborted', NEW b \in DOMAIN sessions \ {a} PROVE Shown(view', b, sessions[b].list)
  <2>1. Shown(view, b, sessions[b].list)
    BY <1>18, <1>20 DEF SInv
  <2>2. Shown(viewed, b, sessions[b].list)
    BY <2>1, ShownWithout DEF viewed
  <2> QED
    BY <1>18, <1>20, <2>2 DEF Shown
<1>21. ~aborted' => Shown(view', a, l)
  BY <1>19 DEF Shown
<1> QED
  BY <1>1, <1>10, <1>11, <1>12, <1>14, <1>16, <1>17, <1>20, <1>21, OneListChanges

LEMMA Run ==
  ASSUME SInv, NEW a \in Account, NEW k \in Key, NEW s \in Nat, NEW deleted, run(a, k, s, deleted)
  PROVE  SInv'
<1> DEFINE old == sessions[a].list
           list == alive(old)
           p == position(list, k)
           new == with_sequence(list[p], s)
           used == [list EXCEPT ![p] = new]
           P == {j \in DOMAIN used : used[j].key \notin deleted}
           rest == kept(used, P)
           K == deleted \cup expired_keys(old)
           h == accepted[<<a, k>>]
<1>1. /\ a \in DOMAIN sessions /\ k \in keys(list) /\ acceptable(list[p].sequences, s)
      /\ sessions' = IF rest = << >> THEN without_rows({a}) ELSE with_row(a, container(rest))
      /\ view' = IF aborted THEN view ELSE without(view, a, K)
      /\ accepted' = [q \in registered(sessions') |-> IF q = <<a, k>> THEN Append(accepted[q], s) ELSE accepted[q]]
      /\ now' = now /\ members' = members /\ aborted' = aborted
  BY Zenon DEF run
<1>2. now \in Nat /\ Listed(old) /\ a \in members /\ aborted \in BOOLEAN
  BY <1>1 DEF SInv, RowsListed
<1>3. Listed(list) /\ From(list, old, expired_keys(old))
  BY <1>2, AliveListed
<1>4. p \in DOMAIN list /\ list[p].key = k
  BY <1>1 DEF keys, position
<1>5. \A j \in DOMAIN list : Known(accepted, a, list[j]) /\ <<a, list[j].key>> \in DOMAIN accepted
  <2> SUFFICES ASSUME NEW j \in DOMAIN list PROVE Known(accepted, a, list[j]) /\ <<a, list[j].key>> \in DOMAIN accepted
    OBVIOUS
  <2> HIDE DEF list
  <2>1. PICK i \in DOMAIN old : list[j] = old[i]
    BY <1>3 DEF From
  <2>2. Known(accepted, a, old[i])
    BY <1>1 DEF SInv, NumbersKnown
  <2>3. <<a, old[i].key>> \in registered(sessions)
    <3>1. \A b \in DOMAIN sessions : \A n \in DOMAIN sessions[b].list : <<b, sessions[b].list[n].key>> \in registered(sessions)
      BY Registered DEF SInv, RowsListed
    <3> QED
      BY <1>1, <3>1
  <2> QED
    BY <2>1, <2>2, <2>3 DEF SInv, NumbersKnown
<1> HIDE DEF list, p
<1>6. list[p] \in Session /\ Window(list[p].sequences) /\ Remembered(h, list[p].sequences)
  BY <1>3, <1>4, <1>5, ListFacts DEF Known
<1> HIDE DEF h
<1>7. Window(remember(list[p].sequences, s)) /\ Remembered(Append(h, s), remember(list[p].sequences, s))
  BY <1>1, <1>6, NumberRemembered
<1>8. /\ new \in Session /\ new.key = k /\ new.expiration = list[p].expiration
      /\ new.sequences = remember(list[p].sequences, s)
  <2> DEFINE w == remember(list[p].sequences, s)
  <2>1. w \in Seq(Nat)
    BY <1>7 DEF Window
  <2>2. new = [list[p] EXCEPT !.sequences = w]
    BY DEF with_sequence
  <2> HIDE DEF w, new
  <2>3. new \in Session /\ new.key = k /\ new.expiration = list[p].expiration /\ new.sequences = w
    BY <1>4, <1>6, <2>1, <2>2 DEF Session
  <2> QED
    BY <2>3 DEF w
<1> HIDE DEF new
<1>9. Listed(used) /\ DOMAIN used = DOMAIN list /\ used[p] = new /\ \A i \in DOMAIN list \ {p} : used[i] = list[i]
  BY <1>3, <1>4, <1>8, ReplacedListed
<1> HIDE DEF used
<1>10. \A i \in DOMAIN used : used[i].key = list[i].key /\ used[i].expiration = list[i].expiration
  BY <1>4, <1>8, <1>9
<1>11. Listed(rest) /\ \A j \in DOMAIN rest : \E i \in P : rest[j] = used[i]
  <2>1. P \in SUBSET DOMAIN used
    OBVIOUS
  <2> HIDE DEF P
  <2> QED
    BY <1>9, <2>1, KeptListed
<1>12. \A i \in P : i \in DOMAIN used /\ used[i].key \notin deleted
  OBVIOUS
<1> HIDE DEF P, rest
<1>13. /\ DOMAIN sessions' \subseteq DOMAIN sessions
       /\ a \in DOMAIN sessions' => sessions'[a] = container(rest)
       /\ \A b \in DOMAIN sessions' \ {a} : sessions'[b] = sessions[b]
  BY <1>1, Stored
<1>14. DOMAIN accepted' = registered(sessions')
  BY <1>1
<1>15. \A q \in DOMAIN accepted' : accepted'[q] = IF q = <<a, k>> THEN Append(h, s) ELSE accepted[q]
  BY <1>1 DEF h
<1>16. \A q \in DOMAIN accepted \cap DOMAIN accepted' : q[1] # a => accepted'[q] = accepted[q]
  BY <1>15
<1>17. ASSUME a \in DOMAIN sessions', NEW j \in DOMAIN rest PROVE Known(accepted', a, rest[j])
  <2>1. sessions'[a].list = rest /\ rest[j].key \in Key
    BY <1>11, <1>13, <1>17, RowContained, ListFacts
  <2>2. <<a, rest[j].key>> \in DOMAIN accepted'
    BY <1>14, <1>17, <2>1 DEF registered, keys
  <2>3. PICK i \in P : rest[j] = used[i]
    BY <1>11
  <2>4. CASE i = p
    <3>1. rest[j] = new /\ accepted'[<<a, k>>] = Append(h, s)
      BY <1>8, <1>9, <1>15, <2>2, <2>3, <2>4
    <3> QED
      BY <1>7, <1>8, <3>1 DEF Known
  <2>5. CASE i # p
    <3>1. i \in DOMAIN list /\ rest[j] = list[i]
      BY <1>9, <1>12, <2>3, <2>5
    <3>2. list[i].key # k
      BY <1>3, <1>4, <2>5, <3>1 DEF Listed
    <3>3. accepted'[<<a, list[i].key>>] = accepted[<<a, list[i].key>>]
      <4>1. <<a, list[i].key>> # <<a, k>>
        BY <3>2
      <4> QED
        BY <1>15, <2>2, <3>1, <4>1
    <3>4. Known(accepted, a, list[i])
      BY <1>5, <3>1
    <3> QED
      BY <3>1, <3>3, <3>4 DEF Known
  <2> QED
    BY <2>4, <2>5
<1>18. ASSUME ~aborted, NEW j \in DOMAIN rest PROVE entry(a, rest[j]) \in view'
  <2>1. PICK i \in P : rest[j] = used[i]
    BY <1>11
  <2>2. i \in DOMAIN list /\ list[i].key \notin deleted /\ entry(a, rest[j]) = entry(a, list[i])
    BY <1>9, <1>10, <1>12, <2>1 DEF entry
  <2>3. PICK n \in DOMAIN old : list[i] = old[n] /\ old[n].key \notin expired_keys(old)
    BY <1>3, <2>2 DEF From
  <2>4. entry(a, list[i]) \in view
    BY <1>1, <1>18, <2>3 DEF SInv, Shown
  <2>5. entry(a, list[i]).key = list[i].key /\ list[i].key \notin K
    BY <2>2, <2>3 DEF entry
  <2>6. view' = without(view, a, K)
    BY <1>1, <1>18
  <2> QED
    BY <2>2, <2>4, <2>5, <2>6 DEF without
<1>19. ASSUME ~aborted, NEW b \in DOMAIN sessions \ {a} PROVE Shown(view', b, sessions[b].list)
  <2>1. Shown(view, b, sessions[b].list) /\ view' = without(view, a, K)
    BY <1>1, <1>19 DEF SInv
  <2> HIDE DEF K
  <2> QED
    BY <2>1, ShownWithout
<1>20. ~aborted => Shown(view', a, rest)
  BY <1>18 DEF Shown
<1> QED
  BY <1>1, <1>2, <1>11, <1>13, <1>14, <1>16, <1>17, <1>19, <1>20, OneListChanges

LEMMA SInvNext == SInv /\ [Next]_vars => SInv'
<1> SUFFICES ASSUME SInv, [Next]_vars PROVE SInv'
  OBVIOUS
<1>1. ASSUME NEW a \in Account, NEW k \in Key, NEW d \in 1..MaxLife, newsession(a, k, now + d) PROVE SInv'
  <2> DEFINE e == now + d
  <2>1. e \in Nat /\ newsession(a, k, e)
    BY <1>1, SessionsAssumption DEF SInv
  <2> HIDE DEF e
  <2> QED
    BY <2>1, NewSession
<1>2. ASSUME NEW a \in Account, NEW k \in Key, delsession(a, k) PROVE SInv'
  BY <1>2, DelSession
<1>3. ASSUME NEW a \in Account, NEW k \in Key, NEW s \in 0..MaxSequence, NEW D, run(a, k, s, D) PROVE SInv'
  <2>1. s \in Nat
    BY SessionsAssumption
  <2> QED
    BY <1>3, <2>1, Run
<1>4. ASSUME NEW n, gc_sessions(n) PROVE SInv'
  BY <1>4, Collected
<1>5. ASSUME NEW a \in Account, remove_member(a) PROVE SInv'
  BY <1>5, RemoveMember
<1>6. ASSUME NEW a \in Account, create_member(a) PROVE SInv'
  <2>1. sessions' = sessions /\ accepted' = accepted /\ view' = view /\ now' = now /\ aborted' = aborted
        /\ members \subseteq members'
    BY <1>6 DEF create_member
  <2> QED
    BY <2>1 DEF SInv, RowsListed, NumbersKnown
<1>7. ASSUME clearall PROVE SInv'
  <2>1. DOMAIN sessions' = {} /\ DOMAIN accepted' = {} /\ now' = now /\ aborted' = aborted
    BY <1>7 DEF clearall
  <2>2. registered(sessions') = {}
    BY <2>1 DEF registered
  <2> QED
    BY <2>1, <2>2 DEF SInv, RowsListed, NumbersKnown
<1>8. ASSUME Tick PROVE SInv'
  <2>1. /\ sessions' = sessions /\ accepted' = accepted /\ view' = view /\ aborted' = aborted
        /\ members' = members /\ now' = now + 1
    BY <1>8 DEF Tick
  <2> QED
    BY <2>1 DEF SInv, RowsListed, NumbersKnown
<1>9. ASSUME UNCHANGED vars PROVE SInv'
  BY <1>9 DEF vars, SInv, RowsListed, NumbersKnown
<1> QED
  BY <1>1, <1>2, <1>3, <1>4, <1>5, <1>6, <1>7, <1>8, <1>9, Zenon DEF Next

LEMMA SInvHolds == Spec => []SInv
BY SInvInit, SInvNext, PTL DEF Spec

\* A signed message is accepted once for as long as its key stays registered: however many
\* numbers a session remembers and however messages are reordered, run refuses a number it
\* has taken before, even one that has left the window (sessions.cpp, run).
THEOREM NumbersAcceptedOnce == Spec => []NoReplay
<1>1. SInv => NoReplay
  BY SInvProperties
<1> QED
  BY <1>1, SInvHolds, PTL

\* gc finds every account with an expired session, sessions are of members, and the micro
\* chain shows each of them until an event stops it, whatever was added, evicted,
\* used, deleted and collected in between (sessions.cpp, eden-micro-chain.cpp).
THEOREM SessionsStayShown == Spec => []SessionsShown
<1>1. SInv => SessionsShown
  BY SInvProperties
<1> QED
  BY <1>1, SInvHolds, PTL
=============================================================================
