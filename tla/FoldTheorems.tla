---------------------------- MODULE FoldTheorems ----------------------------
(***************************************************************************)
(* Induction over the natural numbers and over the subsets of a finite set, *)
(* with the property given as a set, and the existence of functions that    *)
(* are defined by taking one element of a set after the other: what proofs  *)
(* about sums over a finite set rest on.  The same for trees, by the depth  *)
(* of a node, and for any definition by recursion on a depth; and the lists *)
(* of a finite set in a strict total order.                                 *)
(***************************************************************************)
EXTENDS Integers, Sequences, FiniteSets, FiniteSetTheorems, TLAPS

\* Induction, from the well-foundedness of < on the natural numbers.
LEMMA NaturalInduction ==
  ASSUME NEW P, 0 \in P, \A n \in Nat : n \in P => n + 1 \in P
  PROVE  Nat \subseteq P
<1> SUFFICES ASSUME ~(Nat \subseteq P) PROVE FALSE OBVIOUS
<1> DEFINE T == Nat \ P
<1>1. T \subseteq Nat /\ T # {} OBVIOUS
<1>2. \E n \in T : \A m \in T : <<m, n>> \notin OpToRel(<, Nat)
  <2> HIDE DEF T
  <2> QED BY <1>1, NatLessThanWellFounded, WFMin
<1>3. \E n \in T : \A m \in T : ~(m < n)
  BY <1>2 DEF OpToRel
<1>4. PICK n \in T : \A m \in T : ~(m < n) BY <1>3
<1>5. n \in Nat /\ n \notin P /\ n # 0 BY <1>4
<1>6. n - 1 \in Nat BY <1>5
<1>7. n - 1 \in P BY <1>4, <1>6
<1> QED BY <1>5, <1>6, <1>7

-----------------------------------------------------------------------------
\* A set has property Q when it has it without some element of its own.
Inherits(S, Q) == \A s \in (SUBSET S) \ {{}} : \E x \in s : s \ {x} \in Q => s \in Q

\* Then all subsets of a finite set have Q when the empty one has it.
LEMMA SubsetInduction ==
  ASSUME NEW S, IsFiniteSet(S), NEW Q, {} \in Q, Inherits(S, Q)
  PROVE  SUBSET S \subseteq Q
<1> DEFINE P == {n \in Nat : \A s \in SUBSET S : Cardinality(s) = n => s \in Q}
<1>0. \A s \in SUBSET S :
        IsFiniteSet(s) /\ Cardinality(s) \in Nat /\ (Cardinality(s) = 0 <=> s = {})
  BY FS_Subset, FS_CardinalityType, FS_EmptySet
<1>1. 0 \in P BY <1>0
<1>2. ASSUME NEW n \in Nat, n \in P PROVE n + 1 \in P
  <2> SUFFICES ASSUME NEW s \in SUBSET S, Cardinality(s) = n + 1 PROVE s \in Q
    OBVIOUS
  <2>1. s # {} BY <1>0
  <2>2. PICK x \in s : s \ {x} \in Q => s \in Q BY <2>1 DEF Inherits
  <2>3. Cardinality(s \ {x}) = n
    <3>1. Cardinality(s \ {x}) = Cardinality(s) - 1 BY <1>0, FS_RemoveElement
    <3> QED BY <3>1
  <2> QED BY <1>2, <2>2, <2>3
<1>3. Nat \subseteq P
  <2> HIDE DEF P
  <2> QED BY <1>1, <1>2, NaturalInduction
<1> QED BY <1>0, <1>3

-----------------------------------------------------------------------------
\* A fold over the finite set S, taking the elements in the order pick gives,
\* with the function H on pairs of an element and a value.
IsFold(f, H, b, pick, S) ==
  \A s \in SUBSET S :
    f[s] = IF s = {} THEN b ELSE H[<<pick[s], f[s \ {pick[s]}]>>]

\* A choice of an element of every nonempty subset.
Picks(S) == {p \in [(SUBSET S) \ {{}} -> S] : \A s \in (SUBSET S) \ {{}} : p[s] \in s}

\* Such a fold exists, with values in the set V of the function's.
LEMMA FoldExists ==
  ASSUME NEW S, IsFiniteSet(S), NEW pick \in Picks(S), NEW V, NEW b \in V,
         NEW H \in [S \X V -> V]
  PROVE  \E f \in [SUBSET S -> V] : IsFold(f, H, b, pick, S)
<1> DEFINE Small(n) == {s \in SUBSET S : Cardinality(s) <= n}
           Good(n) == \E f \in [Small(n) -> V] : \A s \in Small(n) :
                        f[s] = IF s = {} THEN b ELSE H[<<pick[s], f[s \ {pick[s]}]>>]
           P == {n \in Nat : Good(n)}
<1>0. \A s \in SUBSET S : IsFiniteSet(s) /\ Cardinality(s) \in Nat /\ (Cardinality(s) = 0 <=> s = {})
  BY FS_Subset, FS_CardinalityType, FS_EmptySet
<1>1. 0 \in P
  <2> DEFINE f == [s \in Small(0) |-> b]
  <2>1. \A s \in Small(0) : f[s] = IF s = {} THEN b ELSE H[<<pick[s], f[s \ {pick[s]}]>>]
    BY <1>0
  <2>2. f \in [Small(0) -> V] OBVIOUS
  <2> HIDE DEF f, Small
  <2> QED BY <2>1, <2>2
<1>2. ASSUME NEW n \in Nat, n \in P PROVE n + 1 \in P
  <2> PICK f \in [Small(n) -> V] : \A s \in Small(n) :
                        f[s] = IF s = {} THEN b ELSE H[<<pick[s], f[s \ {pick[s]}]>>]
    BY <1>2
  <2> DEFINE g == [s \in Small(n+1) |-> IF s \in Small(n) THEN f[s] ELSE H[<<pick[s], f[s \ {pick[s]}]>>]]
  <2>1. \A s \in Small(n+1) : s # {} => s \ {pick[s]} \in Small(n) /\ pick[s] \in S
    BY <1>0, FS_RemoveElement DEF Picks
  <2>2. \A s \in Small(n) : s \in Small(n+1) BY <1>0
  <2>3. {} \in Small(n) BY <1>0, FS_EmptySet
  <2>4. g \in [Small(n+1) -> V] BY <2>1, <2>3
  <2>5. \A s \in Small(n+1) : g[s] = IF s = {} THEN b ELSE H[<<pick[s], g[s \ {pick[s]}]>>]
    BY <2>1, <2>2, <2>3
  <2> HIDE DEF g, Small
  <2>6. Good(n+1) BY <2>4, <2>5
  <2> HIDE DEF Good
  <2> QED BY <2>6
<1>3. Cardinality(S) \in P
  <2> HIDE DEF P
  <2> QED BY <1>0, <1>1, <1>2, NaturalInduction
<1>4. Small(Cardinality(S)) = SUBSET S
  BY <1>0, FS_Subset
<1> QED BY <1>3, <1>4 DEF IsFold

-----------------------------------------------------------------------------
\* F and G are the same on all that is less deep than x.
SameBelow(F, G, x, S, Depth) == \A y \in S : Depth[y] < Depth[x] => F[y] = G[y]

\* The body of a definition by recursion: H makes a function on S of one, and
\* what it makes of F at x depends on what F is below x.
IsBody(H, S, V, Depth) ==
  /\ H \in [[S -> V] -> [S -> V]]
  /\ \A F, G \in [S -> V], x \in S : SameBelow(F, G, x, S, Depth) => H[F][x] = H[G][x]

LEMMA DepthRecursion ==
  ASSUME NEW S, NEW Depth \in [S -> Nat], NEW V, NEW v \in V, NEW H, IsBody(H, S, V, Depth)
  PROVE  \E F \in [S -> V] : F = H[F]
<1> DEFINE Upto(F, m) == \A x \in S : Depth[x] < m => F[x] = H[F][x]
           P == {m \in Nat : \E F \in [S -> V] : Upto(F, m)}
           G(m) == CHOOSE F \in [S -> V] : Upto(F, m)
<1>0. \A x \in S : Depth[x] \in Nat OBVIOUS
<1>1. \A F \in [S -> V] : H[F] \in [S -> V] BY DEF IsBody
<1>2. 0 \in P
  <2>1. [x \in S |-> v] \in [S -> V] /\ Upto([x \in S |-> v], 0) BY <1>0
  <2> QED BY <2>1
<1>3. ASSUME NEW m \in Nat, m \in P PROVE m + 1 \in P
  <2>1. PICK F \in [S -> V] : Upto(F, m) BY <1>3
  <2>2. H[F] \in [S -> V] BY <1>1
  <2>3. ASSUME NEW x \in S, Depth[x] < m + 1 PROVE H[F][x] = H[H[F]][x]
    <3>1. SameBelow(F, H[F], x, S, Depth)
      <4> SUFFICES ASSUME NEW y \in S, Depth[y] < Depth[x] PROVE F[y] = H[F][y]
        BY DEF SameBelow
      <4>1. Depth[y] < m BY <1>0, <2>3
      <4> QED BY <2>1, <4>1
    <3> QED BY <2>2, <3>1 DEF IsBody
  <2>4. Upto(H[F], m + 1) BY <2>3
  <2> QED BY <2>2, <2>4
<1>4. \A m \in Nat : G(m) \in [S -> V] /\ Upto(G(m), m)
  <2>1. Nat \subseteq P
    <3> HIDE DEF P
    <3> QED BY <1>2, <1>3, NaturalInduction
  <2> SUFFICES ASSUME NEW m \in Nat PROVE G(m) \in [S -> V] /\ Upto(G(m), m) OBVIOUS
  <2>2. \E F \in [S -> V] : Upto(F, m) BY <2>1
  <2> HIDE DEF Upto
  <2> QED BY <2>2
<1> HIDE DEF G
\* Any two of them agree as far as both go.
<1> DEFINE Q == {n \in Nat : \A x \in S : Depth[x] < n =>
                   \A l, m \in Nat : Depth[x] < l /\ Depth[x] < m => G(l)[x] = G(m)[x]}
<1>5. Nat \subseteq Q
  <2>1. 0 \in Q BY <1>0
  <2>2. ASSUME NEW n \in Nat, n \in Q PROVE n + 1 \in Q
    <3> SUFFICES ASSUME NEW x \in S, Depth[x] < n + 1, NEW l \in Nat, NEW m \in Nat,
                        Depth[x] < l, Depth[x] < m
                 PROVE  G(l)[x] = G(m)[x]
      OBVIOUS
    <3>1. SameBelow(G(l), G(m), x, S, Depth)
      <4> SUFFICES ASSUME NEW y \in S, Depth[y] < Depth[x] PROVE G(l)[y] = G(m)[y]
        BY DEF SameBelow
      <4>1. Depth[y] < n /\ Depth[y] < l /\ Depth[y] < m BY <1>0
      <4> QED BY <2>2, <4>1
    <3>2. H[G(l)][x] = H[G(m)][x] BY <1>4, <3>1 DEF IsBody
    <3> QED BY <1>4, <3>2
  <2> HIDE DEF Q
  <2> QED BY <2>1, <2>2, NaturalInduction
<1>6. ASSUME NEW x \in S, NEW l \in Nat, NEW m \in Nat, Depth[x] < l, Depth[x] < m
      PROVE  G(l)[x] = G(m)[x]
  <2>1. Depth[x] + 1 \in Nat /\ Depth[x] < Depth[x] + 1 BY <1>0
  <2> QED BY <1>5, <1>6, <2>1
<1> DEFINE F == [x \in S |-> G(Depth[x] + 1)[x]]
<1>7. F \in [S -> V]
  <2> SUFFICES ASSUME NEW x \in S PROVE G(Depth[x] + 1)[x] \in V OBVIOUS
  <2>1. Depth[x] + 1 \in Nat BY <1>0
  <2> QED BY <1>4, <2>1
<1>8. ASSUME NEW x \in S PROVE F[x] = H[F][x]
  <2>1. Depth[x] + 1 \in Nat /\ Depth[x] < Depth[x] + 1 BY <1>0
  <2>2. SameBelow(F, G(Depth[x] + 1), x, S, Depth)
    <3> SUFFICES ASSUME NEW y \in S, Depth[y] < Depth[x] PROVE F[y] = G(Depth[x] + 1)[y]
      BY DEF SameBelow
    <3>1. Depth[y] + 1 \in Nat /\ Depth[y] < Depth[y] + 1 /\ Depth[y] < Depth[x] + 1 BY <1>0
    <3> QED BY <1>6, <2>1, <3>1
  <2>3. F[x] = G(Depth[x] + 1)[x] OBVIOUS
  <2> HIDE DEF F
  <2>4. G(Depth[x] + 1)[x] = H[G(Depth[x] + 1)][x] BY <1>4, <2>1
  <2>5. H[F][x] = H[G(Depth[x] + 1)][x] BY <1>4, <1>7, <2>1, <2>2 DEF IsBody
  <2> QED BY <2>3, <2>4, <2>5
<1> HIDE DEF F
<1>9. H[F] \in [S -> V] BY <1>1, <1>7
<1> QED BY <1>7, <1>8, <1>9

-----------------------------------------------------------------------------
\* Trees: Parts[x] lists the parts of x, which are less deep than x.
AreTrees(S, Parts, Depth) ==
  /\ Parts \in [S -> Seq(S)] /\ Depth \in [S -> Nat]
  /\ \A x \in S : \A n \in DOMAIN Parts[x] : Depth[Parts[x][n]] < Depth[x]

\* A set contains all trees when it contains each whose parts it contains.
LEMMA TreeInduction ==
  ASSUME NEW S, NEW Parts, NEW Depth, AreTrees(S, Parts, Depth), NEW P,
         \A x \in S : (\A n \in DOMAIN Parts[x] : Parts[x][n] \in P) => x \in P
  PROVE  S \subseteq P
<1> DEFINE Q == {m \in Nat : \A x \in S : Depth[x] < m => x \in P}
<1>1. 0 \in Q BY DEF AreTrees
<1>2. ASSUME NEW m \in Nat, m \in Q PROVE m + 1 \in Q
  <2> SUFFICES ASSUME NEW x \in S, Depth[x] < m + 1 PROVE x \in P
    OBVIOUS
  <2>1. ASSUME NEW n \in DOMAIN Parts[x] PROVE Parts[x][n] \in P
    <3>1. Parts[x][n] \in S /\ Depth[Parts[x][n]] < Depth[x] BY <2>1 DEF AreTrees
    <3>2. Depth[Parts[x][n]] \in Nat /\ Depth[x] \in Nat BY <3>1 DEF AreTrees
    <3> QED BY <1>2, <3>1, <3>2
  <2> QED BY <2>1
<1>3. Nat \subseteq Q
  <2> HIDE DEF Q
  <2> QED BY <1>1, <1>2, NaturalInduction
<1> SUFFICES ASSUME NEW x \in S PROVE x \in P OBVIOUS
<1>4. Depth[x] \in Nat /\ Depth[x] + 1 \in Nat BY DEF AreTrees
<1> QED BY <1>3, <1>4

\* What F makes of the parts of x.
OfParts(F, Parts, x) == [n \in DOMAIN Parts[x] |-> F[Parts[x][n]]]

\* F is on every tree what H makes of it and of what F is on its parts.
IsTreeFold(F, H, Parts, S) == \A x \in S : F[x] = H[<<x, OfParts(F, Parts, x)>>]

\* A function on trees can be defined from what it is on their parts.
LEMMA TreeRecursion ==
  ASSUME NEW S, NEW Parts, NEW Depth, AreTrees(S, Parts, Depth),
         NEW V, NEW v \in V, NEW H \in [S \X Seq(V) -> V]
  PROVE  \E F \in [S -> V] : IsTreeFold(F, H, Parts, S)
<1> DEFINE B == [F \in [S -> V] |-> [x \in S |-> H[<<x, OfParts(F, Parts, x)>>]]]
<1>0. \A x \in S : Parts[x] \in Seq(S) BY DEF AreTrees
<1>1. \A F \in [S -> V], x \in S : OfParts(F, Parts, x) \in Seq(V)
  BY <1>0 DEF OfParts
<1>2. B \in [[S -> V] -> [S -> V]] BY <1>1
<1>3. ASSUME NEW F \in [S -> V], NEW G \in [S -> V], NEW x \in S, SameBelow(F, G, x, S, Depth)
      PROVE  B[F][x] = B[G][x]
  <2>1. OfParts(F, Parts, x) = OfParts(G, Parts, x) BY <1>3 DEF OfParts, AreTrees, SameBelow
  <2> QED BY <2>1
<1>4. Depth \in [S -> Nat] BY DEF AreTrees
<1>5. \A F \in [S -> V] : F = B[F] => IsTreeFold(F, H, Parts, S) BY DEF IsTreeFold
<1> HIDE DEF B
<1>6. IsBody(B, S, V, Depth) BY <1>2, <1>3 DEF IsBody
<1> QED BY <1>4, <1>5, <1>6, DepthRecursion

-----------------------------------------------------------------------------
\* The pairs in R order the elements of S, strictly and totally.
Orders(R, S) ==
  /\ \A x \in S : <<x, x>> \notin R
  /\ \A x, y, z \in S : <<x, y>> \in R /\ <<y, z>> \in R => <<x, z>> \in R
  /\ \A x, y \in S : x = y \/ <<x, y>> \in R \/ <<y, x>> \in R

Increasing(s, R) == \A i, j \in DOMAIN s : i < j => <<s[i], s[j]>> \in R

Elements(s) == {s[i] : i \in DOMAIN s}

\* A finite set has a last element.
LEMMA LastExists ==
  ASSUME NEW S, IsFiniteSet(S), S # {}, NEW R, Orders(R, S)
  PROVE  \E x \in S : \A y \in S \ {x} : <<y, x>> \in R
<1> DEFINE Last(s) == \E x \in s : \A y \in s \ {x} : <<y, x>> \in R
           Q == {s \in SUBSET S : s = {} \/ Last(s)}
<1>1. {} \in Q OBVIOUS
<1>2. ASSUME NEW s \in (SUBSET S) \ {{}} PROVE \E x \in s : s \ {x} \in Q => s \in Q
  <2>1. PICK x \in s : TRUE BY <1>2
  <2>2. ASSUME s \ {x} \in Q PROVE Last(s)
    <3>1. CASE s \ {x} = {}
      <4>1. \A y \in s \ {x} : <<y, x>> \in R BY <3>1
      <4> QED BY <2>1, <4>1
    <3>2. CASE Last(s \ {x})
      <4>1. PICK z \in s \ {x} : \A y \in (s \ {x}) \ {z} : <<y, z>> \in R BY <3>2
      <4>2. x \in S /\ z \in S /\ z # x BY <2>1, <4>1
      <4>3. CASE <<x, z>> \in R
        <5>1. \A y \in s \ {z} : <<y, z>> \in R BY <4>1, <4>3
        <5> QED BY <4>1, <5>1
      <4>4. CASE <<z, x>> \in R
        <5>1. \A y \in s \ {x} : y \in S /\ (y = z \/ <<y, z>> \in R) BY <4>1
        <5>2. \A y \in s \ {x} : <<y, x>> \in R BY <4>2, <4>4, <5>1 DEF Orders
        <5> QED BY <2>1, <5>2
      <4> QED BY <4>2, <4>3, <4>4 DEF Orders
    <3> QED BY <2>2, <3>1, <3>2
  <2> QED BY <2>1, <2>2
<1>3. Inherits(S, Q)
  <2> HIDE DEF Q
  <2> QED BY <1>2 DEF Inherits
<1>4. SUBSET S \subseteq Q
  <2> HIDE DEF Q
  <2> QED BY <1>1, <1>3, SubsetInduction
<1> QED BY <1>4

\* The elements of a finite set can be listed in order.
LEMMA AscendingExists ==
  ASSUME NEW S, IsFiniteSet(S), NEW R, Orders(R, S)
  PROVE  \E f \in [1..Cardinality(S) -> S] : Increasing(f, R)
<1> DEFINE Listed(s) == \E f \in [1..Cardinality(s) -> s] : Increasing(f, R)
           Q == {s \in SUBSET S : Listed(s)}
<1>0. \A s \in SUBSET S : IsFiniteSet(s) /\ Cardinality(s) \in Nat
  BY FS_Subset, FS_CardinalityType
<1>1. {} \in Q
  <2>1. Cardinality({}) = 0 BY FS_EmptySet
  <2> DEFINE f == [i \in 1..0 |-> i]
  <2>2. f \in [1..Cardinality({}) -> {}] /\ Increasing(f, R) BY <2>1 DEF Increasing
  <2> HIDE DEF f
  <2> QED BY <2>2
<1>2. ASSUME NEW s \in (SUBSET S) \ {{}} PROVE \E x \in s : s \ {x} \in Q => s \in Q
  <2>1. Orders(R, s) BY DEF Orders
  <2>2. PICK x \in s : \A y \in s \ {x} : <<y, x>> \in R BY <1>0, <2>1, LastExists
  <2>3. ASSUME s \ {x} \in Q PROVE Listed(s)
    <3> DEFINE n == Cardinality(s \ {x})
    <3>1. n \in Nat /\ Cardinality(s) = n + 1
      <4>1. IsFiniteSet(s) /\ n \in Nat BY <1>0
      <4>2. n = Cardinality(s) - 1 BY <4>1, FS_RemoveElement
      <4> QED BY <1>0, <4>1, <4>2
    <3>2. PICK f \in [1..n -> s \ {x}] : Increasing(f, R) BY <2>3
    <3> HIDE DEF n
    <3> DEFINE g == [i \in 1..(n + 1) |-> IF i <= n THEN f[i] ELSE x]
    <3>3. g \in [1..Cardinality(s) -> s] BY <3>1
    <3>4. Increasing(g, R)
      <4> SUFFICES ASSUME NEW i \in 1..(n + 1), NEW j \in 1..(n + 1), i < j
                   PROVE  <<g[i], g[j]>> \in R
        BY DEF Increasing
      <4>1. i \in 1..n BY <3>1
      <4>2. CASE j <= n BY <3>1, <3>2, <4>1, <4>2 DEF Increasing
      <4>3. CASE ~(j <= n) BY <2>2, <3>1, <3>2, <4>1, <4>3
      <4> QED BY <4>2, <4>3
    <3> HIDE DEF g
    <3> QED BY <3>3, <3>4
  <2> QED BY <2>2, <2>3
<1>3. Inherits(S, Q)
  <2> HIDE DEF Q
  <2> QED BY <1>2 DEF Inherits
<1>4. SUBSET S \subseteq Q
  <2> HIDE DEF Q
  <2> QED BY <1>1, <1>3, SubsetInduction
<1> QED BY <1>4

\* An increasing list names each of its elements once.
LEMMA IncreasingCounts ==
  ASSUME NEW S, NEW R, Orders(R, S), NEW m \in Nat, NEW h \in [1..m -> S], Increasing(h, R)
  PROVE  IsFiniteSet(Elements(h)) /\ Cardinality(Elements(h)) = m
<1>1. \A i, j \in 1..m : h[i] = h[j] => i = j
  <2> SUFFICES ASSUME NEW i \in 1..m, NEW j \in 1..m, h[i] = h[j], i # j PROVE FALSE
    OBVIOUS
  <2>1. i < j \/ j < i OBVIOUS
  <2>2. <<h[i], h[i]>> \in R BY <2>1 DEF Increasing
  <2> QED BY <2>2 DEF Orders
<1>2. h \in Bijection(1..m, Elements(h))
  BY <1>1 DEF Bijection, Injection, Surjection, IsInjective, Elements
<1>3. IsFiniteSet(1..m) /\ Cardinality(1..m) = m BY FS_Interval
<1>4. ExistsBijection(1..m, Elements(h)) BY <1>2 DEF ExistsBijection
<1> QED BY <1>3, <1>4, FS_Bijection

\* A list of all elements in order names every one.
LEMMA AscendingCovers ==
  ASSUME NEW S, IsFiniteSet(S), NEW R, Orders(R, S),
         NEW f \in [1..Cardinality(S) -> S], Increasing(f, R)
  PROVE  Elements(f) = S
<1>1. Cardinality(S) \in Nat BY FS_CardinalityType
<1>2. Cardinality(Elements(f)) = Cardinality(S) BY <1>1, IncreasingCounts
<1>3. Elements(f) \subseteq S BY DEF Elements
<1> QED BY <1>2, <1>3, FS_Subset

\* The elements of T, which come before all others of S, are listed alike in
\* a list of T and in one of S; there is one list of S.
LEMMA PrefixUnique ==
  ASSUME NEW S, NEW R, Orders(R, S), NEW T \in SUBSET S,
         \A x \in T, y \in S \ T : <<x, y>> \in R,
         NEW m \in Nat, NEW n \in Nat, m <= n,
         NEW h \in [1..m -> S], Increasing(h, R), Elements(h) = T,
         NEW f \in [1..n -> S], Increasing(f, R), Elements(f) = S
  PROVE  \A i \in 1..m : h[i] = f[i]
<1> SUFFICES ASSUME ~(\A i \in 1..m : h[i] = f[i]) PROVE FALSE OBVIOUS
<1> DEFINE D == {i \in 1..m : h[i] # f[i]}
<1>1. D \subseteq Nat /\ D # {} OBVIOUS
<1>2. \E i \in D : \A j \in D : <<j, i>> \notin OpToRel(<, Nat)
  <2> HIDE DEF D
  <2> QED BY <1>1, NatLessThanWellFounded, WFMin
<1>3. PICK i \in D : \A j \in D : ~(j < i) BY <1>1, <1>2 DEF OpToRel
<1>4. i \in 1..m /\ i \in 1..n /\ h[i] # f[i] BY <1>3
<1>5. \A j \in 1..m : j < i => h[j] = f[j] BY <1>3
<1>6. h[i] \in T /\ h[i] \in S /\ f[i] \in S BY <1>4 DEF Elements
<1>7. PICK j \in 1..n : f[j] = h[i] BY <1>6 DEF Elements
<1>8. ~(j < i)
  <2> SUFFICES ASSUME j < i PROVE FALSE OBVIOUS
  <2>1. j \in 1..m /\ h[j] = h[i] BY <1>4, <1>5, <1>7
  <2>2. <<h[j], h[i]>> \in R BY <1>4, <2>1 DEF Increasing
  <2> QED BY <1>6, <2>1, <2>2 DEF Orders
<1>9. <<f[i], h[i]>> \in R
  <2>1. j # i BY <1>4, <1>7
  <2>2. i < j BY <1>4, <1>8, <2>1
  <2> QED BY <1>4, <1>7, <2>2 DEF Increasing
<1>10. f[i] \in T
  <2> SUFFICES ASSUME f[i] \notin T PROVE FALSE OBVIOUS
  <2>1. <<h[i], f[i]>> \in R BY <1>6
  <2>2. <<h[i], h[i]>> \in R BY <1>6, <1>9, <2>1 DEF Orders
  <2> QED BY <1>6, <2>2 DEF Orders
<1>11. PICK l \in 1..m : h[l] = f[i] BY <1>10 DEF Elements
<1>12. CASE l < i
  <2>1. h[l] = f[l] /\ l \in 1..n BY <1>4, <1>5, <1>12
  <2>2. <<f[l], f[i]>> \in R BY <1>4, <1>12, <2>1 DEF Increasing
  <2> QED BY <1>6, <1>11, <2>1, <2>2 DEF Orders
<1>13. CASE i < l
  <2>1. <<h[i], f[i]>> \in R BY <1>4, <1>11, <1>13 DEF Increasing
  <2>2. <<h[i], h[i]>> \in R BY <1>6, <1>9, <2>1 DEF Orders
  <2> QED BY <1>6, <2>2 DEF Orders
<1> QED BY <1>4, <1>11, <1>12, <1>13

\* There is one list of all elements in order.
LEMMA ListUnique ==
  ASSUME NEW S, NEW R, Orders(R, S), NEW n \in Nat,
         NEW h \in [1..n -> S], Increasing(h, R), Elements(h) = S,
         NEW f \in [1..n -> S], Increasing(f, R), Elements(f) = S
  PROVE  \A i \in 1..n : h[i] = f[i]
<1>1. S \in SUBSET S /\ \A x \in S, y \in S \ S : <<x, y>> \in R OBVIOUS
<1>2. n <= n OBVIOUS
<1> QED BY <1>1, <1>2, PrefixUnique
=============================================================================
