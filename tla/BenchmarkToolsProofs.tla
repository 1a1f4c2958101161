--------------------------- MODULE BenchmarkToolsProofs ---------------------------
(***************************************************************************)
(* Proofs about the tools for benchmark results: PostprocessingPool, for   *)
(* any number of files and workers, and BenchmarkComparison, for any       *)
(* number of measurements and samples of any size.                         *)
(***************************************************************************)
EXTENDS PostprocessingPool, BenchmarkComparison, TLAPS, FiniteSetTheorems,
        FunctionTheorems, SequenceTheorems, IterationTheorems

(***************************************************************************)
(* BenchmarkComparison: sums, pairs and ranks.                             *)
(***************************************************************************)

LEMMA IntervalFinite ==
  ASSUME NEW a \in Int, NEW b \in Int
  PROVE  IsFiniteSet(a .. b)
BY FS_Interval

(* The sum over a finite set, of what adds up element by element. *)
SumOver(f, S) == MapThenSumSet(LAMBDA k : f[k], S)

Measures(mu, f, S) ==
  /\ mu \in [SUBSET S -> Int] /\ mu[{}] = 0
  /\ \A s \in SUBSET S : \A x \in s : mu[s] = f[x] + mu[s \ {x}]

LEMMA SumIs ==
  ASSUME NEW S, IsFiniteSet(S), NEW f, NEW mu, Measures(mu, f, S)
  PROVE  SumOver(f, S) = mu[S]
<1> DEFINE Def(g) == [s \in SUBSET S |->
             IF s = {} THEN 0
             ELSE LET x == CHOOSE x \in s : TRUE IN f[x] + g[s \ {x}]]
           h == CHOOSE g : g = Def(g)
<1>1. SumOver(f, S) = h[S]
  BY DEF SumOver, MapThenSumSet, MapThenFoldSet
<1>2. mu = Def(mu)
  <2>1. ASSUME NEW s \in SUBSET S, s # {}
        PROVE  mu[s] = LET x == CHOOSE x \in s : TRUE IN f[x] + mu[s \ {x}]
    <3>1. PICK x : x = CHOOSE y \in s : TRUE
      OBVIOUS
    <3>2. x \in s
      BY <2>1, <3>1
    <3>3. mu[s] = f[x] + mu[s \ {x}]
      BY <3>2 DEF Measures
    <3> QED
      BY <3>1, <3>3
  <2> QED
    BY <2>1 DEF Measures
<1> HIDE DEF h
<1>3. h = Def(h)
  BY <1>2 DEF h
<1>4. /\ h[{}] = 0
      /\ \A s \in SUBSET S : s # {} => \E x \in s : h[s] = f[x] + h[s \ {x}]
  <2>1. \A s \in SUBSET S :
          h[s] = IF s = {} THEN 0
                 ELSE LET x == CHOOSE x \in s : TRUE IN f[x] + h[s \ {x}]
    BY <1>3
  <2>2. {} \in SUBSET S
    OBVIOUS
  <2>3. ASSUME NEW s \in SUBSET S, s # {} PROVE \E x \in s : h[s] = f[x] + h[s \ {x}]
    <3>1. PICK x : x = CHOOSE y \in s : TRUE
      OBVIOUS
    <3>2. x \in s
      BY <2>3, <3>1
    <3>3. h[s] = f[x] + h[s \ {x}]
      BY <2>1, <2>3, <3>1
    <3> QED
      BY <3>2, <3>3
  <2> QED
    BY <2>1, <2>2, <2>3
<1> DEFINE N == {n \in Nat : \A s \in SUBSET S : Cardinality(s) = n => h[s] = mu[s]}
<1>5. \A s \in SUBSET S : IsFiniteSet(s) /\ Cardinality(s) \in Nat
                          /\ (Cardinality(s) = 0 <=> s = {})
  BY FS_Subset, FS_CardinalityType, FS_EmptySet
<1>6. 0 \in N
  BY <1>4, <1>5 DEF Measures
<1>7. ASSUME NEW n \in N PROVE n + 1 \in N
  <2>1. n \in Nat /\ n + 1 \in Nat /\ n + 1 # 0
    BY <1>7
  <2>2. ASSUME NEW s \in SUBSET S, Cardinality(s) = n + 1 PROVE h[s] = mu[s]
    <3>1. s # {}
      BY <1>5, <2>1, <2>2
    <3>2. PICK x \in s : h[s] = f[x] + h[s \ {x}]
      BY <1>4, <3>1
    <3>3. Cardinality(s \ {x}) = Cardinality(s) - 1
      BY <1>5, FS_RemoveElement
    <3>4. Cardinality(s \ {x}) = n
      BY <2>1, <2>2, <3>3
    <3>5. h[s \ {x}] = mu[s \ {x}]
      BY <1>7, <3>4
    <3> QED
      BY <3>2, <3>5 DEF Measures
  <2> QED
    BY <2>1, <2>2
<1> HIDE DEF N
<1>8. N \in SUBSET Nat
  BY DEF N
<1>9. N = Nat
  BY <1>6, <1>7, <1>8, AllNaturals
<1>10. Cardinality(S) \in N
  BY <1>5, <1>9
<1>11. h[S] = mu[S]
  BY <1>10 DEF N
<1> QED
  BY <1>1, <1>11

-----------------------------------------------------------------------------
(* Pairs of a place of one sequence and a place of another one. *)
Lower(v, X, w, Y) == {p \in X \X Y : v[p[1]] < w[p[2]]}
Higher(v, X, w, Y) == {p \in X \X Y : w[p[2]] < v[p[1]]}
Same(v, X, w, Y) == {p \in X \X Y : v[p[1]] = w[p[2]]}

(* Of finite sets, one is as large as its image under a bijection. *)
SameSize(A, B) == IsFiniteSet(B) /\ Cardinality(B) = Cardinality(A)

LEMMA Mapped ==
  ASSUME NEW A, IsFiniteSet(A), NEW B, NEW f \in [A -> B],
         \A x, y \in A : f[x] = f[y] => x = y, \A z \in B : \E x \in A : f[x] = z
  PROVE  SameSize(A, B)
<1>1. f \in Bijection(A, B)
  BY DEF Bijection, Injection, Surjection, IsInjective
<1>2. ExistsBijection(A, B)
  BY <1>1 DEF ExistsBijection
<1> QED
  BY <1>2, FS_Bijection DEF SameSize

LEMMA PairsFinite ==
  ASSUME NEW X, NEW Y, IsFiniteSet(X), IsFiniteSet(Y), NEW P \in SUBSET (X \X Y)
  PROVE  IsFiniteSet(P) /\ Cardinality(P) \in Nat
<1>1. IsFiniteSet(X \X Y)
  BY FS_Product
<1> QED
  BY <1>1, FS_Subset, FS_CardinalityType

Added(A, B) ==
  IsFiniteSet(A \cup B) /\ Cardinality(A \cup B) = Cardinality(A) + Cardinality(B)

LEMMA Apart ==
  ASSUME NEW A, NEW B, IsFiniteSet(A), IsFiniteSet(B), A \cap B = {}
  PROVE  Added(A, B)
<1>1. IsFiniteSet(A \cup B) /\ Cardinality(A \cup B) = Cardinality(A) + Cardinality(B) - 0
  BY FS_Union, FS_EmptySet
<1> QED
  BY <1>1, FS_CardinalityType DEF Added

LEMMA PairsSwapped ==
  ASSUME NEW X, NEW Y, IsFiniteSet(X), IsFiniteSet(Y), NEW v
  PROVE  Cardinality(Higher(v, X, v, Y)) = Cardinality(Lower(v, Y, v, X))
<1>1. PICK A, B : A = Higher(v, X, v, Y) /\ B = Lower(v, Y, v, X)
  OBVIOUS
<1>2. A \in SUBSET (X \X Y) /\ IsFiniteSet(A)
  <2>1. A \in SUBSET (X \X Y)
    BY <1>1 DEF Higher
  <2> QED
    BY <2>1, PairsFinite
<1>3. PICK f : f = [p \in A |-> <<p[2], p[1]>>]
  OBVIOUS
<1>4. f \in [A -> B]
  BY <1>1, <1>3 DEF Higher, Lower
<1>5. \A x, y \in A : f[x] = f[y] => x = y
  <2>1. ASSUME NEW x \in A, NEW y \in A, f[x] = f[y] PROVE x = y
    <3>1. <<x[2], x[1]>> = <<y[2], y[1]>>
      BY <1>3, <2>1
    <3>2. x[2] = y[2] /\ x[1] = y[1]
      BY <3>1
    <3>3. x \in X \X Y /\ y \in X \X Y
      BY <1>2
    <3>4. x = <<x[1], x[2]>> /\ y = <<y[1], y[2]>>
      BY <3>3
    <3> QED
      BY <3>2, <3>4
  <2> QED
    BY <2>1
<1>6. \A z \in B : \E x \in A : f[x] = z
  <2>1. ASSUME NEW z \in B PROVE \E x \in A : f[x] = z
    <3>1. z \in Y \X X /\ v[z[1]] < v[z[2]]
      BY <1>1 DEF Lower
    <3>2. PICK a \in Y, b \in X : z = <<a, b>>
      BY <3>1
    <3>3. <<b, a>> \in A
      BY <1>1, <3>1, <3>2 DEF Higher
    <3>4. f[<<b, a>>] = z
      BY <1>3, <3>2, <3>3
    <3> QED
      BY <3>3, <3>4
  <2> QED
    BY <2>1
<1>7. SameSize(A, B)
  BY <1>2, <1>4, <1>5, <1>6, Mapped
<1> QED
  BY <1>1, <1>7 DEF SameSize

(* Every pair is of a lower and a higher value, or of the same.            *)
LEMMA PairsSplit ==
  ASSUME NEW X, NEW Y, IsFiniteSet(X), IsFiniteSet(Y), NEW v, \A k \in X \cup Y : v[k] \in Int
  PROVE  Cardinality(X) * Cardinality(Y)
           = Cardinality(Lower(v, X, v, Y)) + Cardinality(Higher(v, X, v, Y))
             + Cardinality(Same(v, X, v, Y))
<1>1. PICK L, H, S : /\ L = Lower(v, X, v, Y) /\ H = Higher(v, X, v, Y)
                     /\ S = Same(v, X, v, Y)
  OBVIOUS
<1>2. L \in SUBSET (X \X Y) /\ H \in SUBSET (X \X Y) /\ S \in SUBSET (X \X Y)
  BY <1>1 DEF Lower, Higher, Same
<1>3. /\ IsFiniteSet(L) /\ Cardinality(L) \in Nat
      /\ IsFiniteSet(H) /\ Cardinality(H) \in Nat
      /\ IsFiniteSet(S) /\ Cardinality(S) \in Nat
  BY <1>2, PairsFinite
<1>4. \A p \in X \X Y : v[p[1]] \in Int /\ v[p[2]] \in Int
  OBVIOUS
<1>5. (L \cup H) \cup S = X \X Y
  BY <1>1, <1>2, <1>4 DEF Lower, Higher, Same
<1>6. L \cap H = {} /\ (L \cup H) \cap S = {}
  BY <1>1, <1>4 DEF Lower, Higher, Same
<1>7. IsFiniteSet(L \cup H) /\ Cardinality(L \cup H) = Cardinality(L) + Cardinality(H)
  BY <1>3, <1>6, Apart DEF Added
<1>8. Cardinality((L \cup H) \cup S) = Cardinality(L \cup H) + Cardinality(S)
  BY <1>3, <1>6, <1>7, Apart DEF Added
<1>9. Cardinality(X \X Y) = Cardinality(X) * Cardinality(Y)
  BY FS_Product
<1> QED
  BY <1>1, <1>3, <1>5, <1>7, <1>8, <1>9

(* What is counted in one set and in another one, disjoint. *)
CountsApart(v, X, Y, Z) ==
  /\ Cardinality(Higher(v, X, v, Y \cup Z))
       = Cardinality(Higher(v, X, v, Y)) + Cardinality(Higher(v, X, v, Z))
  /\ Cardinality(Same(v, X, v, Y \cup Z))
       = Cardinality(Same(v, X, v, Y)) + Cardinality(Same(v, X, v, Z))
  /\ Cardinality(Higher(v, Y \cup Z, v, X))
       = Cardinality(Higher(v, Y, v, X)) + Cardinality(Higher(v, Z, v, X))
  /\ Cardinality(Same(v, Y \cup Z, v, X))
       = Cardinality(Same(v, Y, v, X)) + Cardinality(Same(v, Z, v, X))

LEMMA PairsApart ==
  ASSUME NEW X, NEW Y, NEW Z, IsFiniteSet(X), IsFiniteSet(Y), IsFiniteSet(Z), Y \cap Z = {}, NEW v
  PROVE  CountsApart(v, X, Y, Z)
<1>1. ASSUME NEW A, NEW B, IsFiniteSet(A), IsFiniteSet(B), A \cap B = {}
      PROVE  Cardinality(A \cup B) = Cardinality(A) + Cardinality(B)
  BY <1>1, Apart DEF Added
<1>2. /\ Higher(v, X, v, Y \cup Z) = Higher(v, X, v, Y) \cup Higher(v, X, v, Z)
      /\ Same(v, X, v, Y \cup Z) = Same(v, X, v, Y) \cup Same(v, X, v, Z)
      /\ Higher(v, Y \cup Z, v, X) = Higher(v, Y, v, X) \cup Higher(v, Z, v, X)
      /\ Same(v, Y \cup Z, v, X) = Same(v, Y, v, X) \cup Same(v, Z, v, X)
  BY DEF Higher, Same
<1>3. /\ Higher(v, X, v, Y) \cap Higher(v, X, v, Z) = {}
      /\ Same(v, X, v, Y) \cap Same(v, X, v, Z) = {}
      /\ Higher(v, Y, v, X) \cap Higher(v, Z, v, X) = {}
      /\ Same(v, Y, v, X) \cap Same(v, Z, v, X) = {}
  BY DEF Higher, Same
<1>4. /\ IsFiniteSet(Higher(v, X, v, Y)) /\ IsFiniteSet(Higher(v, X, v, Z))
      /\ IsFiniteSet(Same(v, X, v, Y)) /\ IsFiniteSet(Same(v, X, v, Z))
      /\ IsFiniteSet(Higher(v, Y, v, X)) /\ IsFiniteSet(Higher(v, Z, v, X))
      /\ IsFiniteSet(Same(v, Y, v, X)) /\ IsFiniteSet(Same(v, Z, v, X))
  <2>1. /\ Higher(v, X, v, Y) \in SUBSET (X \X Y) /\ Higher(v, X, v, Z) \in SUBSET (X \X Z)
        /\ Same(v, X, v, Y) \in SUBSET (X \X Y) /\ Same(v, X, v, Z) \in SUBSET (X \X Z)
        /\ Higher(v, Y, v, X) \in SUBSET (Y \X X) /\ Higher(v, Z, v, X) \in SUBSET (Z \X X)
        /\ Same(v, Y, v, X) \in SUBSET (Y \X X) /\ Same(v, Z, v, X) \in SUBSET (Z \X X)
    BY DEF Higher, Same
  <2> QED
    BY <2>1, PairsFinite
<1> QED
  BY <1>1, <1>2, <1>3, <1>4 DEF CountsApart

(* r has twice the rank of the k-th of n ascending values, which is the    *)
(* same as those from a + 1 to b.                                          *)
Tied(v, n, k, a, b) ==
  /\ a < k /\ k <= b
  /\ \A l \in 1 .. a : v[l] < v[k]
  /\ \A l \in a + 1 .. b : v[l] = v[k]
  /\ \A l \in b + 1 .. n : v[k] < v[l]
Ranked(v, n, r, k) == \E a, b \in 0 .. n : Tied(v, n, k, a, b) /\ r[k] = a + 1 + b

LEMMA RankCounts ==
  ASSUME NEW n \in Nat, NEW v, \A k \in 1 .. n : v[k] \in Int,
         NEW r, NEW k \in 1 .. n, Ranked(v, n, r, k)
  PROVE  r[k] = 1 + 2 * Cardinality(Higher(v, {k}, v, 1 .. n))
                + Cardinality(Same(v, {k}, v, 1 .. n))
<1>1. PICK a \in 0 .. n, b \in 0 .. n : Tied(v, n, k, a, b) /\ r[k] = a + 1 + b
  BY DEF Ranked
<1>2. /\ a \in Nat /\ b \in Nat /\ a < k /\ k <= b /\ b <= n
      /\ \A l \in 1 .. n : l \in 1 .. a \/ l \in a + 1 .. b \/ l \in b + 1 .. n
      /\ 1 .. a \subseteq 1 .. n /\ a + 1 .. b \subseteq 1 .. n
  BY <1>1 DEF Tied
<1>3. \A l \in 1 .. n : /\ v[l] < v[k] <=> l \in 1 .. a
                        /\ v[k] = v[l] <=> l \in a + 1 .. b
  <2>1. ASSUME NEW l \in 1 .. n
        PROVE  /\ v[l] < v[k] <=> l \in 1 .. a
               /\ v[k] = v[l] <=> l \in a + 1 .. b
    <3>1. v[l] \in Int /\ v[k] \in Int
      OBVIOUS
    <3>2. l \in 1 .. a \/ l \in a + 1 .. b \/ l \in b + 1 .. n
      BY <1>2
    <3>3. CASE l \in 1 .. a
      BY <1>1, <1>2, <3>1, <3>3 DEF Tied
    <3>4. CASE l \in a + 1 .. b
      BY <1>1, <1>2, <3>1, <3>4 DEF Tied
    <3>5. CASE l \in b + 1 .. n
      BY <1>1, <1>2, <3>1, <3>5 DEF Tied
    <3> QED
      BY <3>2, <3>3, <3>4, <3>5
  <2> QED
    BY <2>1
<1>4. Higher(v, {k}, v, 1 .. n) = {k} \X (1 .. a)
  BY <1>2, <1>3 DEF Higher
<1>5. Same(v, {k}, v, 1 .. n) = {k} \X (a + 1 .. b)
  BY <1>2, <1>3 DEF Same
<1>6. /\ IsFiniteSet({k}) /\ Cardinality({k}) = 1
      /\ IsFiniteSet(1 .. a) /\ Cardinality(1 .. a) = a
      /\ IsFiniteSet(a + 1 .. b) /\ Cardinality(a + 1 .. b) = b - a
  <2>1. IsFiniteSet({k}) /\ Cardinality({k}) = 1
    BY FS_Singleton
  <2>2. IsFiniteSet(1 .. a) /\ Cardinality(1 .. a) = IF 1 > a THEN 0 ELSE a - 1 + 1
    BY <1>2, FS_Interval
  <2>3. /\ IsFiniteSet(a + 1 .. b)
        /\ Cardinality(a + 1 .. b) = IF a + 1 > b THEN 0 ELSE b - (a + 1) + 1
    BY <1>2, FS_Interval
  <2> QED
    BY <1>2, <2>1, <2>2, <2>3
<1>7. PICK X, Y, Z : X = {k} /\ Y = 1 .. a /\ Z = a + 1 .. b
  OBVIOUS
<1>8. /\ Cardinality(X \X Y) = Cardinality(X) * Cardinality(Y)
      /\ Cardinality(X \X Z) = Cardinality(X) * Cardinality(Z)
  BY <1>6, <1>7, FS_Product
<1>9. PICK h, s : h = Cardinality(X \X Y) /\ s = Cardinality(X \X Z)
  OBVIOUS
<1>10. h = a /\ s = b - a
  <2>1. h = 1 * a /\ s = 1 * (b - a)
    BY <1>6, <1>7, <1>8, <1>9
  <2> QED
    BY <1>2, <2>1
<1>11. r[k] = 1 + 2 * h + s
  BY <1>1, <1>2, <1>10
<1> QED
  BY <1>4, <1>5, <1>7, <1>9, <1>11

(* The rank sum of the places in s. *)
RankCount(v, n, s) ==
  Cardinality(s) + 2 * Cardinality(Higher(v, s, v, 1 .. n)) + Cardinality(Same(v, s, v, 1 .. n))

LEMMA RanksAddUp ==
  ASSUME NEW n \in Nat, NEW v, \A k \in 1 .. n : v[k] \in Int,
         NEW r, \A k \in 1 .. n : Ranked(v, n, r, k), NEW K \in SUBSET (1 .. n)
  PROVE  SumOver(r, K) = RankCount(v, n, K)
<1>1. PICK D : D = 1 .. n
  OBVIOUS
<1>2. /\ IsFiniteSet(D)
      /\ \A s \in SUBSET K : s \in SUBSET D /\ IsFiniteSet(s) /\ Cardinality(s) \in Nat
  <2>1. IsFiniteSet(D)
    BY <1>1, IntervalFinite
  <2>2. \A s \in SUBSET K : s \in SUBSET D
    BY <1>1
  <2> QED
    BY <2>1, <2>2, FS_Subset, FS_CardinalityType
<1>3. \A s \in SUBSET K : /\ Cardinality(Higher(v, s, v, D)) \in Nat
                          /\ Cardinality(Same(v, s, v, D)) \in Nat
  <2>1. \A s \in SUBSET K : /\ Higher(v, s, v, D) \in SUBSET (s \X D)
                            /\ Same(v, s, v, D) \in SUBSET (s \X D)
    BY DEF Higher, Same
  <2> QED
    BY <1>2, <2>1, PairsFinite
<1>4. PICK mu : mu = [s \in SUBSET K |-> RankCount(v, n, s)]
  OBVIOUS
<1>5. mu \in [SUBSET K -> Int] /\ \A s \in SUBSET K :
        mu[s] = Cardinality(s) + 2 * Cardinality(Higher(v, s, v, D))
                + Cardinality(Same(v, s, v, D))
  BY <1>1, <1>2, <1>3, <1>4 DEF RankCount
<1>6. mu[{}] = 0
  <2>1. PICK none : none = {}
    OBVIOUS
  <2>2. Higher(v, none, v, D) = none /\ Same(v, none, v, D) = none /\ none \in SUBSET K
    BY <2>1 DEF Higher, Same
  <2>3. Cardinality(none) = 0
    BY <2>1, FS_EmptySet
  <2>4. mu[none] = Cardinality(none) + 2 * Cardinality(none) + Cardinality(none)
    BY <1>5, <2>2
  <2> QED
    BY <2>1, <2>3, <2>4
<1>7. ASSUME NEW s \in SUBSET K, NEW x \in s PROVE mu[s] = r[x] + mu[s \ {x}]
  <2>1. PICK X, Y : X = {x} /\ Y = s \ {x}
    OBVIOUS
  <2>2. X \cup Y = s /\ X \cap Y = {} /\ X \in SUBSET K /\ Y \in SUBSET K /\ x \in 1 .. n
    BY <2>1
  <2>3. /\ Cardinality(Higher(v, s, v, D))
             = Cardinality(Higher(v, X, v, D)) + Cardinality(Higher(v, Y, v, D))
        /\ Cardinality(Same(v, s, v, D))
             = Cardinality(Same(v, X, v, D)) + Cardinality(Same(v, Y, v, D))
    <3>1. IsFiniteSet(D) /\ IsFiniteSet(X) /\ IsFiniteSet(Y) /\ X \cap Y = {}
      BY <1>2, <2>2
    <3>2. /\ Cardinality(Higher(v, X \cup Y, v, D))
               = Cardinality(Higher(v, X, v, D)) + Cardinality(Higher(v, Y, v, D))
          /\ Cardinality(Same(v, X \cup Y, v, D))
               = Cardinality(Same(v, X, v, D)) + Cardinality(Same(v, Y, v, D))
      <4>1. CountsApart(v, D, X, Y)
        BY <3>1, PairsApart, Zenon
      <4> QED
        BY <4>1 DEF CountsApart
    <3> QED
      BY <2>2, <3>2
  <2>4. r[x] = 1 + 2 * Cardinality(Higher(v, X, v, D)) + Cardinality(Same(v, X, v, D))
    BY <1>1, <2>1, <2>2, RankCounts
  <2>5. Cardinality(Y) = Cardinality(s) - 1
    BY <1>2, <2>1, FS_RemoveElement
  <2>6. mu[Y] = Cardinality(Y) + 2 * Cardinality(Higher(v, Y, v, D))
                + Cardinality(Same(v, Y, v, D))
    BY <1>5, <2>2
  <2>7. mu[s] = r[x] + mu[Y]
    BY <1>2, <1>3, <1>5, <2>2, <2>3, <2>4, <2>5, <2>6
  <2> QED
    BY <2>1, <2>7
<1>8. Measures(mu, r, K)
  BY <1>5, <1>6, <1>7 DEF Measures
<1>9. SumOver(r, K) = mu[K]
  BY <1>2, <1>8, SumIs
<1> QED
  BY <1>4, <1>9

RankedAll(n, v, r) == \A k \in 1 .. n : v[k] \in Int /\ Ranked(v, n, r, k)
Parts(n, K, O) == K \cup O = 1 .. n /\ K \cap O = {}
(* The rank sum of K and the pairs of a value at K and a larger one at O. *)
RanksOf(v, r, K, O) ==
  SumOver(r, K) + 2 * Cardinality(Lower(v, K, v, O)) + Cardinality(Same(v, K, v, O))
    = Cardinality(K) * (Cardinality(K) + 1) + 2 * (Cardinality(K) * Cardinality(O))

(* The identity behind U: of the pairs within a sample, as many have the   *)
(* higher value first as second.                                           *)
LEMMA RankSum ==
  ASSUME NEW n \in Nat, NEW v, NEW r, RankedAll(n, v, r), NEW K, NEW O, Parts(n, K, O)
  PROVE  RanksOf(v, r, K, O)
<1>0. /\ \A k \in 1 .. n : v[k] \in Int
      /\ \A k \in 1 .. n : Ranked(v, n, r, k)
      /\ K \cup O = 1 .. n /\ K \cap O = {}
  BY DEF RankedAll, Parts
<1>1. /\ K \in SUBSET (1 .. n) /\ O \in SUBSET (1 .. n)
      /\ IsFiniteSet(K) /\ IsFiniteSet(O) /\ Cardinality(K) \in Nat /\ Cardinality(O) \in Nat
      /\ (\A j \in K \cup O : v[j] \in Int) /\ \A j \in K \cup K : v[j] \in Int
  <2>1. K \in SUBSET (1 .. n) /\ O \in SUBSET (1 .. n)
    BY <1>0
  <2>2. IsFiniteSet(1 .. n)
    BY IntervalFinite
  <2>3. IsFiniteSet(K) /\ IsFiniteSet(O)
    BY <2>1, <2>2, FS_Subset
  <2> QED
    BY <1>0, <2>1, <2>3, FS_CardinalityType
<1>2. PICK own, mixed, sameOwn, lower, same, k, o :
        /\ own = Cardinality(Higher(v, K, v, K)) /\ mixed = Cardinality(Higher(v, K, v, O))
        /\ sameOwn = Cardinality(Same(v, K, v, K)) /\ same = Cardinality(Same(v, K, v, O))
        /\ lower = Cardinality(Lower(v, K, v, O))
        /\ k = Cardinality(K) /\ o = Cardinality(O)
  OBVIOUS
<1>3. own \in Nat /\ mixed \in Nat /\ sameOwn \in Nat /\ same \in Nat /\ lower \in Nat
  <2>1. /\ Higher(v, K, v, K) \in SUBSET (K \X K) /\ Higher(v, K, v, O) \in SUBSET (K \X O)
        /\ Same(v, K, v, K) \in SUBSET (K \X K) /\ Same(v, K, v, O) \in SUBSET (K \X O)
        /\ Lower(v, K, v, O) \in SUBSET (K \X O)
    BY DEF Higher, Same, Lower
  <2> QED
    BY <1>1, <1>2, <2>1, PairsFinite
<1>4. SumOver(r, K) = k + 2 * (own + mixed) + (sameOwn + same)
  <2>1. SumOver(r, K) = RankCount(v, n, K)
    BY <1>0, <1>1, RanksAddUp
  <2>2. /\ Cardinality(Higher(v, K, v, K \cup O)) = own + mixed
        /\ Cardinality(Same(v, K, v, K \cup O)) = sameOwn + same
    <3>1. CountsApart(v, K, K, O)
      BY <1>0, <1>1, PairsApart, Zenon
    <3> QED
      BY <1>2, <3>1 DEF CountsApart
  <2> QED
    BY <1>0, <1>2, <2>1, <2>2 DEF RankCount
<1>5. k * k = own + own + sameOwn
  <2>1. k * k = Cardinality(Lower(v, K, v, K)) + own + sameOwn
    BY <1>1, <1>2, PairsSplit
  <2>2. Cardinality(Lower(v, K, v, K)) = own
    BY <1>1, <1>2, PairsSwapped
  <2> QED
    BY <2>1, <2>2
<1>6. k * o = lower + mixed + same
  BY <1>1, <1>2, PairsSplit
<1>7. k * (k + 1) = k * k + k
  BY <1>1, <1>2
<1> QED
  BY <1>1, <1>2, <1>3, <1>4, <1>5, <1>6, <1>7 DEF RanksOf

-----------------------------------------------------------------------------
(* f takes places of v to places of w that hold the same value, one to one. *)
Matching(v, K, w, J, f) ==
  /\ f \in [K -> J]
  /\ \A x, y \in K : f[x] = f[y] => x = y
  /\ \A j \in J : \E k \in K : f[k] = j
  /\ \A k \in K : w[f[k]] = v[k]

LEMMA OccursMatch ==
  ASSUME NEW v, NEW K, IsFiniteSet(K), NEW w, NEW J, IsFiniteSet(J),
         NEW R, \A k \in K : v[k] \in R, \A j \in J : w[j] \in R,
         \A x \in R : Occurs(x, v, K) = Occurs(x, w, J)
  PROVE  \E f : Matching(v, K, w, J, f)
<1> DEFINE A(x) == {k \in K : v[k] = x}
           B(x) == {j \in J : w[j] = x}
<1>1. \A x \in R : Bijection(A(x), B(x)) # {}
  <2>1. ASSUME NEW x \in R PROVE Bijection(A(x), B(x)) # {}
    <3>1. PICK a, b : a = A(x) /\ b = B(x)
      OBVIOUS
    <3>2. IsFiniteSet(a) /\ IsFiniteSet(b)
      BY <3>1, FS_Subset
    <3>3. Cardinality(a) = Cardinality(b)
      BY <3>1 DEF Occurs
    <3>4. ExistsBijection(a, b)
      BY <3>2, <3>3, FS_SameCardinalityBij
    <3> QED
      BY <3>1, <3>4 DEF ExistsBijection
  <2> QED
    BY <2>1
<1>2. PICK F : F = [x \in R |-> CHOOSE g \in Bijection(A(x), B(x)) : TRUE]
  OBVIOUS
<1>3. \A x \in R : F[x] \in Bijection(A(x), B(x))
  BY <1>1, <1>2
<1>4. ASSUME NEW x \in R
      PROVE  /\ \A k \in A(x) : F[x][k] \in B(x)
             /\ \A k, l \in A(x) : F[x][k] = F[x][l] => k = l
             /\ \A j \in B(x) : \E k \in A(x) : F[x][k] = j
  <2>1. PICK a, b, g : a = A(x) /\ b = B(x) /\ g = F[x]
    OBVIOUS
  <2>2. g \in Bijection(a, b)
    BY <1>3, <2>1
  <2>3. /\ \A k \in a : g[k] \in b
        /\ \A k, l \in a : g[k] = g[l] => k = l
        /\ \A j \in b : \E k \in a : g[k] = j
    BY <2>2, Zenon DEF Bijection, Injection, Surjection, IsInjective
  <2> HIDE DEF A, B
  <2> QED
    BY <2>1, <2>3
<1>5. PICK f : f = [k \in K |-> F[v[k]][k]]
  OBVIOUS
<1>6. \A k \in K : f[k] \in J /\ w[f[k]] = v[k]
  BY <1>4, <1>5
<1>7. f \in [K -> J]
  BY <1>5, <1>6
<1>8. ASSUME NEW x \in K, NEW y \in K, f[x] = f[y] PROVE x = y
  <2>1. v[x] = v[y] /\ v[x] \in R
    BY <1>6, <1>8
  <2>2. x \in A(v[x]) /\ y \in A(v[x]) /\ F[v[x]][x] = F[v[x]][y]
    BY <1>5, <1>8, <2>1
  <2> QED
    BY <1>4, <2>1, <2>2
<1>9. ASSUME NEW j \in J PROVE \E k \in K : f[k] = j
  <2>1. w[j] \in R /\ j \in B(w[j])
    OBVIOUS
  <2>2. PICK k \in A(w[j]) : F[w[j]][k] = j
    BY <1>4, <2>1
  <2> QED
    BY <1>5, <2>2
<1> QED
  BY <1>6, <1>7, <1>8, <1>9 DEF Matching

LEMMA MatchSize ==
  ASSUME NEW v, NEW K, IsFiniteSet(K), NEW w, NEW J, NEW f, Matching(v, K, w, J, f)
  PROVE  SameSize(K, J)
<1>1. f \in [K -> J] /\ (\A x, y \in K : f[x] = f[y] => x = y) /\ \A j \in J : \E k \in K : f[k] = j
  BY DEF Matching
<1> QED
  BY <1>1, Mapped

(* The pairs are as many of the places as of the samples' values. *)
Carried(v, K, O, own, J, other, I) ==
  /\ Cardinality(Lower(own, J, other, I)) = Cardinality(Lower(v, K, v, O))
  /\ Cardinality(Same(own, J, other, I)) = Cardinality(Same(v, K, v, O))

LEMMA PairsCarried ==
  ASSUME NEW v, NEW K, IsFiniteSet(K), NEW O, IsFiniteSet(O),
         NEW own, NEW J, NEW f, Matching(v, K, own, J, f),
         NEW other, NEW I, NEW g, Matching(v, O, other, I, g)
  PROVE  Carried(v, K, O, own, J, other, I)
<1>1. PICK h : h = [p \in K \X O |-> <<f[p[1]], g[p[2]]>>]
  OBVIOUS
<1>2. /\ h \in [K \X O -> J \X I]
      /\ \A p \in K \X O : own[h[p][1]] = v[p[1]] /\ other[h[p][2]] = v[p[2]]
  BY <1>1 DEF Matching
<1>3. \A x, y \in K \X O : h[x] = h[y] => x = y
  <2>1. ASSUME NEW x \in K \X O, NEW y \in K \X O, h[x] = h[y] PROVE x = y
    <3>1. <<f[x[1]], g[x[2]]>> = <<f[y[1]], g[y[2]]>>
      BY <1>1, <2>1
    <3>2. f[x[1]] = f[y[1]] /\ g[x[2]] = g[y[2]] /\ x[1] \in K /\ y[1] \in K /\ x[2] \in O /\ y[2] \in O
      BY <3>1
    <3>3. x[1] = y[1] /\ x[2] = y[2]
      BY <3>2 DEF Matching
    <3>4. x = <<x[1], x[2]>> /\ y = <<y[1], y[2]>>
      OBVIOUS
    <3> QED
      BY <3>3, <3>4
  <2> QED
    BY <2>1
<1>4. \A z \in J \X I : \E x \in K \X O : h[x] = z
  <2>1. ASSUME NEW z \in J \X I PROVE \E x \in K \X O : h[x] = z
    <3>1. PICK j \in J, i_ \in I : z = <<j, i_>>
      OBVIOUS
    <3>2. PICK k \in K : f[k] = j
      BY DEF Matching
    <3>3. PICK o \in O : g[o] = i_
      BY DEF Matching
    <3>4. h[<<k, o>>] = z
      BY <1>1, <3>1, <3>2, <3>3
    <3> QED
      BY <3>4
  <2> QED
    BY <2>1
<1>5. ASSUME NEW P \in SUBSET (K \X O), NEW Q \in SUBSET (J \X I),
             \A p \in K \X O : p \in P <=> h[p] \in Q
      PROVE  Cardinality(Q) = Cardinality(P)
  <2>1. IsFiniteSet(P)
    BY PairsFinite
  <2>2. PICK e : e = [p \in P |-> h[p]]
    OBVIOUS
  <2>3. e \in [P -> Q] /\ \A x, y \in P : e[x] = e[y] => x = y
    BY <1>3, <1>5, <2>2
  <2>4. \A z \in Q : \E x \in P : e[x] = z
    BY <1>4, <1>5, <2>2
  <2>5. SameSize(P, Q)
    BY <2>1, <2>3, <2>4, Mapped
  <2> QED
    BY <2>5 DEF SameSize
<1>6. Cardinality(Lower(own, J, other, I)) = Cardinality(Lower(v, K, v, O))
  <2>1. /\ Lower(v, K, v, O) \in SUBSET (K \X O) /\ Lower(own, J, other, I) \in SUBSET (J \X I)
        /\ \A p \in K \X O : p \in Lower(v, K, v, O) <=> h[p] \in Lower(own, J, other, I)
    BY <1>2 DEF Lower
  <2> QED
    BY <1>5, <2>1
<1>7. Cardinality(Same(own, J, other, I)) = Cardinality(Same(v, K, v, O))
  <2>1. /\ Same(v, K, v, O) \in SUBSET (K \X O) /\ Same(own, J, other, I) \in SUBSET (J \X I)
        /\ \A p \in K \X O : p \in Same(v, K, v, O) <=> h[p] \in Same(own, J, other, I)
    BY <1>2 DEF Same
  <2> QED
    BY <1>5, <2>1
<1> QED
  BY <1>6, <1>7 DEF Carried

-----------------------------------------------------------------------------
(***************************************************************************)
(* The inductive invariant of the comparison, and what sorting gives.      *)
(***************************************************************************)

(* The values sorted, and where those of one sample are. *)
Values(c) == [k \in 1 .. Len(c) |-> c[k][1]]
Places(c, kind) == {k \in 1 .. Len(c) : c[k][2] = kind}

(* The values at the places of a kind are those of the sample. *)
Matched(c, kind, sample) ==
  \E f \in [Places(c, kind) -> DOMAIN sample] :
    Matching(Values(c), Places(c, kind), sample, DOMAIN sample, f)

(* c holds both samples, sorted by value. *)
Arranged(c, samples) ==
  /\ c \in Seq(Int \X Group)
  /\ \A k, l \in 1 .. Len(c) : k <= l => c[k][1] <= c[l][1]
  /\ \A kind \in Group : Matched(c, kind, samples[kind])

(* No value is on both sides of the place p. *)
Boundary(c, p) == \A k \in 1 .. p : \A l \in p + 1 .. Len(c) : c[k][1] < c[l][1]

(* If there is only one value, and if there are more in two samples. *)
AllSame(c) == \A k, l \in 1 .. Len(c) : c[k][1] = c[l][1]

Different(samples) ==
  Cardinality(UNION {{samples[kind][k] : k \in DOMAIN samples[kind]} : kind \in Group}) > 1

CompareTypes ==
  /\ given \in Input
  /\ doing \in {"extract", "next", "rank", "correct", "done"}
  /\ results \in [DOMAIN results -> Seq(Int) \X Seq(Int)]
  /\ todo \in SUBSET DOMAIN results
  /\ lists \in [Lists -> SUBSET DOMAIN results]
  /\ counts \in [Lists -> Int]
  /\ cnt \in Int
  /\ doing = "extract" => results = <<>>
  /\ doing = "done" => todo = {}

(* What is done is on one list and counted. *)
PutOK ==
  /\ UNION {lists[l] : l \in Lists} = DOMAIN results \ todo
  /\ \A l, o \in Lists : l # o => lists[l] \cap lists[o] = {}
  /\ \A l \in Lists : IsFiniteSet(lists[l]) /\ counts[l] = Cardinality(lists[l])
  /\ IsFiniteSet(DOMAIN results \ todo) /\ cnt = Cardinality(DOMAIN results \ todo)
  /\ \A m \in lists["probably_challenger_better"] \cup lists["probably_challenger_worse"] :
       Different(results[m])

(* The first p ranks are right. *)
RanksOK(p) ==
  /\ ranks \in Seq(Int) /\ Len(ranks) = p
  /\ \A k \in 1 .. p : Ranked(Values(combined), Total, ranks, k)

(* What the test has found so far of the samples of the key. *)
TestOK ==
  doing \in {"rank", "correct"} =>
    /\ key \in todo
    /\ \A kind \in Group : results[key][kind] # <<>>
    /\ Arranged(combined, results[key])
    /\ i \in 0 .. Total /\ Boundary(combined, i)
    /\ tie_correction \in Int
    /\ doing = "rank" => RanksOK(i) /\ tie_correction = 0
    /\ doing = "correct" =>
         /\ RanksOK(Total)
         /\ AllSame(combined) => tie_correction = IF i = 0 THEN 0 ELSE TieTerm(Total)

CompareInv == CompareTypes /\ PutOK /\ TestOK

-----------------------------------------------------------------------------
LEMMA OccursSplit ==
  ASSUME NEW D, IsFiniteSet(D), NEW P \in SUBSET D, NEW s, NEW x
  PROVE  /\ Occurs(x, s, P) \in Nat /\ Occurs(x, s, D \ P) \in Nat
         /\ Occurs(x, s, D) = Occurs(x, s, P) + Occurs(x, s, D \ P)
<1>1. PICK A, B : A = {k \in P : s[k] = x} /\ B = {k \in D \ P : s[k] = x}
  OBVIOUS
<1>2. A \in SUBSET D /\ B \in SUBSET D /\ A \cap B = {} /\ A \cup B = {k \in D : s[k] = x}
  BY <1>1
<1>3. IsFiniteSet(A) /\ IsFiniteSet(B) /\ Cardinality(A) \in Nat /\ Cardinality(B) \in Nat
  BY <1>2, FS_Subset, FS_CardinalityType
<1>4. Added(A, B)
  BY <1>2, <1>3, Apart, Zenon
<1> QED
  BY <1>1, <1>2, <1>3, <1>4 DEF Occurs, Added

OccursJoined(x, s, t) ==
  Occurs(x, s \o t, DOMAIN (s \o t)) = Occurs(x, s, DOMAIN s) + Occurs(x, t, DOMAIN t)

LEMMA OccursConcat ==
  ASSUME NEW s \in Seq(Int), NEW t \in Seq(Int), NEW x
  PROVE  OccursJoined(x, s, t)
<1>1. PICK u, n, m : u = s \o t /\ n = Len(s) /\ m = Len(t)
  OBVIOUS
<1>2. /\ n \in Nat /\ m \in Nat /\ DOMAIN s = 1 .. n /\ DOMAIN t = 1 .. m
      /\ DOMAIN u = 1 .. n + m
      /\ \A k \in 1 .. n : u[k] = s[k]
      /\ \A k \in n + 1 .. n + m : u[k] = t[k - n]
  <2>1. u \in Seq(Int) /\ Len(u) = n + m
    BY <1>1, ConcatProperties
  <2>2. \A k \in 1 .. n + m : u[k] = IF k <= n THEN s[k] ELSE t[k - n]
    BY <1>1, <2>1, ConcatProperties
  <2>3. n \in Nat /\ m \in Nat /\ DOMAIN s = 1 .. n /\ DOMAIN t = 1 .. m
    BY <1>1, LenProperties
  <2>4. DOMAIN u = 1 .. n + m
    BY <2>1, LenProperties
  <2> QED
    BY <2>2, <2>3, <2>4
<1>3. PICK D, P, Q : D = 1 .. n + m /\ P = 1 .. n /\ Q = n + 1 .. n + m
  OBVIOUS
<1>4. P \in SUBSET D /\ D \ P = Q /\ IsFiniteSet(D)
  <2>1. IsFiniteSet(1 .. n + m)
    BY <1>2, IntervalFinite
  <2> QED
    BY <1>2, <1>3, <2>1
<1>5. Occurs(x, u, D) = Occurs(x, u, P) + Occurs(x, u, Q)
  BY <1>4, OccursSplit
<1>6. Occurs(x, u, P) = Occurs(x, s, P)
  BY <1>2, <1>3 DEF Occurs
<1>7. Occurs(x, u, Q) = Occurs(x, t, 1 .. m)
  <2>1. PICK A, B : A = {k \in 1 .. m : t[k] = x} /\ B = {k \in Q : u[k] = x}
    OBVIOUS
  <2>2. PICK f : f = [k \in A |-> n + k]
    OBVIOUS
  <2>3. f \in [A -> B] /\ \A k, l \in A : f[k] = f[l] => k = l
    <3>1. ASSUME NEW k \in A PROVE f[k] \in B
      <4>1. k \in 1 .. m /\ t[k] = x /\ f[k] = n + k
        BY <2>1, <2>2
      <4>2. n + k \in n + 1 .. n + m /\ (n + k) - n = k
        BY <1>2, <4>1
      <4>3. u[n + k] = t[k]
        BY <1>2, <4>2
      <4> QED
        BY <1>3, <2>1, <4>1, <4>2, <4>3
    <3>2. f \in [A -> B]
      BY <2>2, <3>1
    <3>3. \A k, l \in A : f[k] = f[l] => k = l
      <4>1. A \subseteq Int
        BY <2>1
      <4> QED
        BY <1>2, <2>2, <4>1
    <3> QED
      BY <3>2, <3>3
  <2>4. ASSUME NEW z \in B PROVE \E k \in A : f[k] = z
    <3>1. z \in n + 1 .. n + m /\ u[z] = x
      BY <1>3, <2>1
    <3>2. z - n \in 1 .. m /\ t[z - n] = x /\ n + (z - n) = z
      BY <1>2, <3>1
    <3> QED
      BY <2>1, <2>2, <3>2
  <2>5. IsFiniteSet(A)
    <3>1. IsFiniteSet(1 .. m)
      BY <1>2, IntervalFinite
    <3> QED
      BY <2>1, <3>1, FS_Subset
  <2>6. \A z \in B : \E k \in A : f[k] = z
    BY <2>4
  <2>7. SameSize(A, B)
    <3>1. \A k \in A : u[f[k]] = t[k]
      BY <2>1, <2>3
    <3>2. Matching(t, A, u, B, f)
      BY <2>3, <2>6, <3>1 DEF Matching
    <3> QED
      BY <2>5, <3>2, MatchSize, Zenon
  <2> QED
    BY <2>1, <2>7 DEF SameSize, Occurs
<1> QED
  BY <1>1, <1>2, <1>3, <1>5, <1>6, <1>7 DEF OccursJoined

LEMMA MatchedFrom ==
  ASSUME NEW c, NEW kind, NEW sample, NEW R, IsFiniteSet(Places(c, kind)),
         IsFiniteSet(DOMAIN sample),
         \A k \in Places(c, kind) : Values(c)[k] \in R,
         \A j \in DOMAIN sample : sample[j] \in R,
         \A x \in R : Occurs(x, Values(c), Places(c, kind)) = Occurs(x, sample, DOMAIN sample)
  PROVE  Matched(c, kind, sample)
<1>1. PICK v, K, J : v = Values(c) /\ K = Places(c, kind) /\ J = DOMAIN sample
  OBVIOUS
<1>2. \E f : Matching(v, K, sample, J, f)
  BY <1>1, OccursMatch
<1> QED
  BY <1>1, <1>2 DEF Matched, Matching

(* However equal values are dealt, sorting keeps what each sample holds. *)
LEMMA SortedArranged ==
  ASSUME NEW m, results[m] \in Seq(Int) \X Seq(Int), NEW c \in Sorted(m)
  PROVE  Arranged(c, results[m])
<1>1. PICK baseline, challenger, both :
        /\ baseline = results[m][Baseline] /\ challenger = results[m][Challenger]
        /\ both = baseline \o challenger
  OBVIOUS
<1> DEFINE Fits(P, s) == \A x \in Range(both) :
             Occurs(x, s, P) = Occurs(x, baseline, DOMAIN baseline)
           Deal(s) == {[k \in DOMAIN s |-> <<s[k], IF k \in P THEN Baseline ELSE Challenger>>] :
                         P \in {Q \in SUBSET DOMAIN s : Fits(Q, s)}}
<1>2. PICK s \in Ascending(both) : c \in Deal(s)
  <2>1. Sorted(m) = UNION {Deal(s) : s \in Ascending(both)}
    BY <1>1 DEF Sorted
  <2> HIDE DEF Deal
  <2> QED
    BY <2>1
<1>0. PICK P \in SUBSET DOMAIN s :
        /\ Fits(P, s)
        /\ c = [k \in DOMAIN s |-> <<s[k], IF k \in P THEN Baseline ELSE Challenger>>]
  BY <1>2
<1>3. PICK n, R : n = Len(both) /\ R = Range(both)
  OBVIOUS
<1>4. /\ baseline \in Seq(Int) /\ challenger \in Seq(Int) /\ both \in Seq(Int)
      /\ n \in Nat /\ DOMAIN both = 1 .. n
  <2>1. baseline \in Seq(Int) /\ challenger \in Seq(Int)
    BY <1>1 DEF Baseline, Challenger
  <2>2. both \in Seq(Int)
    BY <1>1, <2>1, ConcatProperties
  <2> QED
    BY <1>3, <2>1, <2>2, LenProperties
<1>5. R \subseteq Int /\ (\A k \in 1 .. n : both[k] \in R)
  <2>1. \A k \in 1 .. n : both[k] \in Int
    BY <1>3, <1>4, ElementOfSeq
  <2> QED
    BY <1>3, <1>4, <2>1 DEF Range
<1>6. /\ s \in [1 .. n -> R] /\ DOMAIN s = 1 .. n
      /\ \A j, k \in 1 .. n : j <= k => s[j] <= s[k]
      /\ \A x \in R : Occurs(x, s, 1 .. n) = Occurs(x, both, 1 .. n)
  BY <1>2, <1>3, <1>4 DEF Ascending
<1>7. PICK D, O : D = 1 .. n /\ O = D \ P
  OBVIOUS
<1>8. IsFiniteSet(D) /\ P \in SUBSET D /\ IsFiniteSet(P) /\ IsFiniteSet(O)
  <2>1. IsFiniteSet(1 .. n)
    BY <1>4, IntervalFinite
  <2> QED
    BY <1>0, <1>6, <1>7, <2>1, FS_Subset
<1>9. c \in Seq(Int \X Group) /\ Len(c) = n
  <2>1. \A k \in 1 .. n : <<s[k], IF k \in P THEN Baseline ELSE Challenger>> \in Int \X Group
    BY <1>5, <1>6 DEF Group
  <2>2. c \in [1 .. n -> Int \X Group]
    BY <1>0, <1>6, <2>1
  <2>3. c \in Seq(Int \X Group)
    BY <1>4, <2>2, SeqDef
  <2> QED
    BY <1>4, <2>2, <2>3, LenProperties
<1>10. /\ \A k \in 1 .. n : c[k][1] = s[k] /\ c[k][2] = IF k \in P THEN Baseline ELSE Challenger
       /\ Values(c) = [k \in 1 .. n |-> s[k]]
       /\ Places(c, Baseline) = P /\ Places(c, Challenger) = O
  <2>1. \A k \in 1 .. n : c[k][1] = s[k] /\ c[k][2] = IF k \in P THEN Baseline ELSE Challenger
    BY <1>0, <1>6
  <2>2. Values(c) = [k \in 1 .. n |-> s[k]]
    BY <1>9, <2>1 DEF Values
  <2>3. Places(c, Baseline) = P /\ Places(c, Challenger) = O
    BY <1>7, <1>8, <1>9, <2>1 DEF Places, Baseline, Challenger
  <2> QED
    BY <2>1, <2>2, <2>3
<1>11. \A k, l \in 1 .. Len(c) : k <= l => c[k][1] <= c[l][1]
  <2>1. ASSUME NEW k \in 1 .. n, NEW l \in 1 .. n, k <= l PROVE c[k][1] <= c[l][1]
    <3>1. c[k][1] = s[k] /\ c[l][1] = s[l]
      BY <1>10
    <3>2. s[k] <= s[l]
      BY <1>6, <2>1
    <3> QED
      BY <3>1, <3>2
  <2> QED
    BY <1>9, <2>1
<1>12. Values(c) = s
  BY <1>6, <1>10
<1>13. /\ IsFiniteSet(DOMAIN baseline) /\ IsFiniteSet(DOMAIN challenger)
       /\ \A j \in DOMAIN baseline : baseline[j] \in R
       /\ \A j \in DOMAIN challenger : challenger[j] \in R
  <2>1. PICK a, b : a = Len(baseline) /\ b = Len(challenger)
    OBVIOUS
  <2>2. a \in Nat /\ b \in Nat /\ DOMAIN baseline = 1 .. a /\ DOMAIN challenger = 1 .. b
    BY <1>4, <2>1, LenProperties
  <2>3. n = a + b /\ \A k \in 1 .. n : both[k] = IF k <= a THEN baseline[k] ELSE challenger[k - a]
    <3>1. /\ Len(baseline \o challenger) = Len(baseline) + Len(challenger)
          /\ \A k \in 1 .. Len(baseline) + Len(challenger) : (baseline \o challenger)[k]
               = IF k <= Len(baseline) THEN baseline[k] ELSE challenger[k - Len(baseline)]
      BY <1>4, ConcatProperties
    <3> QED
      BY <1>1, <1>3, <2>1, <3>1
  <2>4. ASSUME NEW j \in 1 .. a PROVE baseline[j] \in R
    <3>1. j \in 1 .. n /\ j <= a
      BY <2>2, <2>3
    <3> QED
      BY <1>5, <2>3, <3>1
  <2>5. ASSUME NEW j \in 1 .. b PROVE challenger[j] \in R
    <3>1. PICK k : k = a + j
      OBVIOUS
    <3>2. k \in 1 .. n /\ ~(k <= a) /\ k - a = j
      BY <2>2, <2>3, <3>1
    <3> QED
      BY <1>5, <2>3, <3>2
  <2>6. IsFiniteSet(1 .. a) /\ IsFiniteSet(1 .. b)
    BY <2>2, IntervalFinite
  <2> QED
    BY <2>2, <2>4, <2>5, <2>6
<1>14. ASSUME NEW x \in R PROVE Occurs(x, s, O) = Occurs(x, challenger, DOMAIN challenger)
  <2>1. /\ Occurs(x, s, P) \in Nat /\ Occurs(x, s, O) \in Nat
        /\ Occurs(x, s, D) = Occurs(x, s, P) + Occurs(x, s, O)
    <3>1. /\ Occurs(x, s, P) \in Nat /\ Occurs(x, s, D \ P) \in Nat
          /\ Occurs(x, s, D) = Occurs(x, s, P) + Occurs(x, s, D \ P)
      BY <1>8, OccursSplit
    <3> QED
      BY <1>7, <3>1
  <2>2. Occurs(x, both, 1 .. n)
          = Occurs(x, baseline, DOMAIN baseline) + Occurs(x, challenger, DOMAIN challenger)
    <3>1. OccursJoined(x, baseline, challenger)
      BY <1>4, OccursConcat, Zenon
    <3> QED
      BY <1>1, <1>4, <3>1 DEF OccursJoined
  <2>3. Occurs(x, s, P) = Occurs(x, baseline, DOMAIN baseline)
    BY <1>0, <1>3
  <2>4. Occurs(x, challenger, DOMAIN challenger) \in Nat
    <3>1. IsFiniteSet({k \in DOMAIN challenger : challenger[k] = x})
      BY <1>13, FS_Subset
    <3> QED
      BY <3>1, FS_CardinalityType DEF Occurs
  <2>5. Occurs(x, s, D) = Occurs(x, both, 1 .. n)
    BY <1>6, <1>7
  <2> QED
    BY <2>1, <2>2, <2>3, <2>4, <2>5
<1>15. Matched(c, Baseline, baseline)
  <2>1. \A k \in P : s[k] \in R
    BY <1>6, <1>7, <1>8
  <2>2. \A x \in R : Occurs(x, s, P) = Occurs(x, baseline, DOMAIN baseline)
    BY <1>0, <1>3
  <2> QED
    BY <1>8, <1>10, <1>12, <1>13, <2>1, <2>2, MatchedFrom
<1>16. Matched(c, Challenger, challenger)
  <2>1. \A k \in O : s[k] \in R
    BY <1>6, <1>7, <1>8
  <2> QED
    BY <1>8, <1>10, <1>12, <1>13, <1>14, <2>1, MatchedFrom
<1> QED
  BY <1>1, <1>9, <1>11, <1>15, <1>16 DEF Arranged, Group

-----------------------------------------------------------------------------
(* The values after the place a, up to j, are the same and no others are. *)
Ties(c, a, j) ==
  /\ j \in a + 1 .. Len(c)
  /\ \A k \in a + 1 .. j : c[k][1] = c[a + 1][1]
  /\ j < Len(c) => c[j + 1][1] # c[a + 1][1]

LEMMA TiesEnd ==
  ASSUME NEW n \in Nat, Total = n, i \in 0 .. n, i < n
  PROVE  Ties(combined, i, EndOfTies)
<1> DEFINE Good(j) == /\ \A k \in i + 1 .. j : combined[k][1] = combined[i + 1][1]
                      /\ j < Total => combined[j + 1][1] # combined[i + 1][1]
<1>1. \E j \in i + 1 .. Total : Good(j)
  <2>1. SUFFICES ASSUME ~ \E j \in i + 1 .. Total : Good(j) PROVE FALSE
    OBVIOUS
  <2> DEFINE S == {d \in Nat : \A k \in i + 1 .. i + 1 + d :
                                 k <= n => combined[k][1] = combined[i + 1][1]}
  <2>2. 0 \in S
    OBVIOUS
  <2>3. ASSUME NEW d \in S PROVE d + 1 \in S
    <3>1. d \in Nat /\ d + 1 \in Nat
      BY <2>3
    <3>2. ASSUME NEW k \in i + 1 .. i + 1 + (d + 1), k <= n
          PROVE  combined[k][1] = combined[i + 1][1]
      <4>1. CASE k \in i + 1 .. i + 1 + d
        BY <2>3, <3>2, <4>1
      <4>2. CASE k \notin i + 1 .. i + 1 + d
        <5>1. PICK j : j = i + 1 + d
          OBVIOUS
        <5>2. j \in i + 1 .. n /\ k = j + 1 /\ j < n
          BY <3>1, <3>2, <4>2, <5>1
        <5>3. \A l \in i + 1 .. j : combined[l][1] = combined[i + 1][1]
          BY <2>3, <5>1, <5>2
        <5>4. ~Good(j)
          BY <2>1, <5>2
        <5> QED
          BY <5>2, <5>3, <5>4
      <4> QED
        BY <4>1, <4>2
    <3> QED
      BY <3>1, <3>2
  <2> HIDE DEF S
  <2>4. S \in SUBSET Nat
    BY DEF S
  <2>5. S = Nat
    BY <2>2, <2>3, <2>4, AllNaturals
  <2>6. n - (i + 1) \in S /\ i + 1 + (n - (i + 1)) = n
    BY <2>5
  <2>7. \A k \in i + 1 .. n : combined[k][1] = combined[i + 1][1]
    BY <2>6 DEF S
  <2>8. Good(n) /\ n \in i + 1 .. Total
    BY <2>7
  <2> QED
    BY <2>1, <2>8
<1>2. EndOfTies = CHOOSE j \in i + 1 .. Total : Good(j)
  BY DEF EndOfTies
<1> HIDE DEF Good
<1>3. EndOfTies \in i + 1 .. Total /\ Good(EndOfTies)
  BY <1>1, <1>2
<1> QED
  BY <1>3 DEF Good, Ties, Total

(* The next ranks. *)
Ranks(c, a, j) ==
  Boundary(c, j) /\ \A k \in a + 1 .. j : Tied(Values(c), Len(c), k, a, j)

LEMMA TiesRanked ==
  ASSUME NEW c \in Seq(Int \X Group), NEW a \in 0 .. Len(c), NEW j,
         \A k, l \in 1 .. Len(c) : k <= l => c[k][1] <= c[l][1],
         Boundary(c, a), Ties(c, a, j)
  PROVE  Ranks(c, a, j)
<1>1. PICK n, v : n = Len(c) /\ v = Values(c)
  OBVIOUS
<1>2. n \in Nat /\ \A k \in 1 .. n : v[k] = c[k][1] /\ v[k] \in Int
  <2>1. n \in Nat
    BY <1>1, LenProperties
  <2>2. \A k \in 1 .. n : c[k] \in Int \X Group
    BY <1>1, ElementOfSeq
  <2> QED
    BY <1>1, <2>1, <2>2 DEF Values
<1>3. j \in a + 1 .. n /\ a \in 0 .. n /\ a + 1 \in 1 .. n /\ j \in 1 .. n
  BY <1>1, <1>2 DEF Ties
<1>4. \A k \in a + 1 .. j : v[k] = v[a + 1]
  BY <1>1, <1>2, <1>3 DEF Ties
<1>5. \A k, l \in 1 .. n : k <= l => v[k] <= v[l]
  BY <1>1, <1>2
<1>6. \A k \in 1 .. a, l \in a + 1 .. n : v[k] < v[l]
  <2>1. ASSUME NEW k \in 1 .. a, NEW l \in a + 1 .. n PROVE v[k] < v[l]
    <3>1. k \in 1 .. n /\ l \in 1 .. n
      BY <1>2, <1>3
    <3>2. v[k] = c[k][1] /\ v[l] = c[l][1]
      BY <1>2, <3>1
    <3>3. c[k][1] < c[l][1]
      BY <1>1 DEF Boundary
    <3> QED
      BY <3>2, <3>3
  <2> QED
    BY <2>1
<1>7. ASSUME NEW l \in j + 1 .. n PROVE v[a + 1] < v[l]
  <2>1. j < n /\ j + 1 \in 1 .. n /\ l \in 1 .. n /\ j + 1 <= l
    BY <1>2, <1>3
  <2>2. v[j + 1] # v[a + 1]
    BY <1>1, <1>2, <1>3, <2>1 DEF Ties
  <2>3. v[a + 1] <= v[j + 1] /\ v[j + 1] <= v[l]
    <3>1. PICK p, q : p = a + 1 /\ q = j + 1
      OBVIOUS
    <3>2. p \in 1 .. n /\ q \in 1 .. n /\ l \in 1 .. n /\ p <= q /\ q <= l
      BY <1>3, <2>1, <3>1
    <3>3. v[p] <= v[q] /\ v[q] <= v[l]
      BY <1>5, <3>2
    <3> QED
      BY <3>1, <3>3
  <2>4. v[a + 1] \in Int /\ v[j + 1] \in Int /\ v[l] \in Int
    BY <1>2, <1>3, <2>1
  <2> QED
    BY <2>2, <2>3, <2>4
<1>8. ASSUME NEW k \in a + 1 .. j PROVE Tied(v, n, k, a, j)
  <2>1. v[k] = v[a + 1] /\ k \in a + 1 .. n /\ k \in 1 .. n
    BY <1>2, <1>3, <1>4
  <2> QED
    BY <1>3, <1>4, <1>6, <1>7, <2>1 DEF Tied
<1>9. Boundary(c, j)
  <2>1. ASSUME NEW k \in 1 .. j, NEW l \in j + 1 .. n PROVE v[k] < v[l]
    <3>1. l \in a + 1 .. n /\ (k \in 1 .. a \/ k \in a + 1 .. j)
      BY <1>2, <1>3
    <3> QED
      BY <1>4, <1>6, <1>7, <3>1
  <2>2. ASSUME NEW k \in 1 .. j, NEW l \in j + 1 .. n PROVE c[k][1] < c[l][1]
    <3>1. k \in 1 .. n /\ l \in 1 .. n
      BY <1>2, <1>3
    <3> QED
      BY <1>2, <2>1, <3>1
  <2> QED
    BY <1>1, <2>2 DEF Boundary
<1> QED
  BY <1>1, <1>8, <1>9 DEF Ranks

-----------------------------------------------------------------------------
LEMMA CompareInitInv == CompareInit => CompareInv
<1> SUFFICES ASSUME CompareInit PROVE CompareInv
  OBVIOUS
<1>1. PICK none : none = {}
  OBVIOUS
<1>2. DOMAIN results = none /\ todo = none /\ IsFiniteSet(none) /\ Cardinality(none) = 0
  <2>1. results = <<>>
    BY DEF CompareInit
  <2>2. DOMAIN results = {}
    BY <2>1
  <2> QED
    BY <1>1, <2>2, FS_EmptySet DEF CompareInit
<1>3. results = <<>> /\ results \in [DOMAIN results -> Seq(Int) \X Seq(Int)]
  BY DEF CompareInit
<1>4. /\ given \in Input /\ doing = "extract" /\ counts = [l \in Lists |-> 0] /\ cnt = 0
      /\ lists = [l \in Lists |-> none]
  BY <1>1 DEF CompareInit
<1>5. CompareTypes
  BY <1>1, <1>2, <1>3, <1>4 DEF CompareTypes
<1>6. PutOK
  <2>1. \A l \in Lists : lists[l] = none /\ counts[l] = 0
    BY <1>4
  <2>2. DOMAIN results \ todo = none
    BY <1>1, <1>2
  <2>3. UNION {lists[l] : l \in Lists} = none
    BY <1>1, <2>1
  <2>4. "probably_challenger_better" \in Lists /\ "probably_challenger_worse" \in Lists
    BY DEF Lists
  <2> QED
    BY <1>1, <1>2, <1>4, <2>1, <2>2, <2>3, <2>4 DEF PutOK
<1>7. TestOK
  BY <1>4 DEF TestOK
<1> QED
  BY <1>5, <1>6, <1>7 DEF CompareInv

LEMMA SamplesSeq ==
  ASSUME given \in Input, NEW m \in Measurement
  PROVE  Sample(m) \in Seq(Int) \X Seq(Int)
<1>1. given.baseline \in Results /\ given.challenger \in Results
  BY ComparisonAssumption
<1>2. BaselineLibrary \in Library /\ "cxxet" \in Library
  BY DEF BaselineLibrary, Library
<1>3. /\ given.baseline[BaselineLibrary] \in [Measurement -> Seq(Int)]
      /\ given.challenger["cxxet"] \in [Measurement -> Seq(Int)]
  BY <1>1, <1>2 DEF Results
<1> QED
  BY <1>3 DEF Sample

LEMMA ExtractStep ==
  ASSUME CompareInv, Extract
  PROVE  CompareInv'
<1> USE DEF CompareInv
<1>1. PICK N, r : /\ N = {n \in Measurement : Sample(n) # <<(<<>>), (<<>>)>>}
                  /\ r = results'
  OBVIOUS
<1>2. /\ r = [m \in N |-> Sample(m)] /\ todo' = DOMAIN r /\ doing = "extract" /\ doing' = "next"
      /\ UNCHANGED <<given, test, output>>
  BY <1>1 DEF Extract
<1>3. DOMAIN r = N /\ r \in [DOMAIN r -> Seq(Int) \X Seq(Int)]
  <2>1. given \in Input
    BY DEF CompareTypes
  <2>2. \A m \in N : Sample(m) \in Seq(Int) \X Seq(Int)
    BY <1>1, <2>1, SamplesSeq
  <2> QED
    BY <1>2, <2>2
<1>4. results = <<>> /\ DOMAIN results = {}
  <2>1. results = <<>>
    BY <1>2 DEF CompareTypes
  <2> QED
    BY <2>1
<1>5. lists \in [Lists -> SUBSET DOMAIN r]
  BY <1>4 DEF CompareTypes
<1>6. CompareTypes'
  BY <1>1, <1>2, <1>3, <1>5 DEF CompareTypes, output
<1>7. PutOK'
  <2>1. \A l \in Lists : lists[l] = {}
    BY <1>4 DEF CompareTypes
  <2>2. "probably_challenger_better" \in Lists /\ "probably_challenger_worse" \in Lists
    BY DEF Lists
  <2>3. DOMAIN results' \ todo' = DOMAIN results \ todo
    BY <1>1, <1>2, <1>4
  <2>4. UNCHANGED <<lists, counts, cnt>>
    BY <1>2 DEF output
  <2>5. /\ UNION {lists'[l] : l \in Lists} = DOMAIN results' \ todo'
        /\ \A l, o \in Lists : l # o => lists'[l] \cap lists'[o] = {}
        /\ \A l \in Lists : IsFiniteSet(lists'[l]) /\ counts'[l] = Cardinality(lists'[l])
        /\ IsFiniteSet(DOMAIN results' \ todo') /\ cnt' = Cardinality(DOMAIN results' \ todo')
    BY <2>3, <2>4 DEF PutOK
  <2>6. lists'["probably_challenger_better"] = {} /\ lists'["probably_challenger_worse"] = {}
    BY <2>1, <2>2, <2>4
  <2> HIDE DEF CompareInv
  <2> QED
    BY <2>5, <2>6 DEF PutOK
<1>8. TestOK'
  BY <1>2 DEF TestOK
<1> QED
  BY <1>6, <1>7, <1>8

(* A measurement is put on a list it may be on. *)
LEMMA PutStep ==
  ASSUME CompareInv, doing # "extract", NEW m \in todo, NEW list \in Lists, Put(m, list),
         list \in {"probably_challenger_better", "probably_challenger_worse"}
           => Different(results[m])
  PROVE  CompareInv'
<1> USE DEF CompareInv
<1>1. PICK D, d : D = DOMAIN results \ todo /\ d = Cardinality(D)
  OBVIOUS
<1>2. /\ m \in DOMAIN results /\ m \notin D /\ todo \in SUBSET DOMAIN results
      /\ lists \in [Lists -> SUBSET DOMAIN results] /\ counts \in [Lists -> Int] /\ cnt \in Int
      /\ UNION {lists[l] : l \in Lists} = D
  BY <1>1 DEF CompareTypes, PutOK
<1>3. /\ todo' = todo \ {m} /\ doing' = "next" /\ UNCHANGED <<given, results>>
      /\ lists' = [lists EXCEPT ![list] = @ \cup {m}]
      /\ counts' = [counts EXCEPT ![list] = @ + 1]
      /\ cnt' = cnt + 1
  BY DEF Put, Counted
<1>4. CompareTypes'
  <2>1. /\ todo' \in SUBSET DOMAIN results
        /\ lists' \in [Lists -> SUBSET DOMAIN results]
        /\ counts' \in [Lists -> Int] /\ cnt' \in Int
    BY <1>2, <1>3
  <2> QED
    BY <1>3, <2>1 DEF CompareTypes
<1>5. PutOK'
  <2>1. \A l \in Lists : /\ lists'[l] = IF l = list THEN lists[l] \cup {m} ELSE lists[l]
                         /\ counts'[l] = IF l = list THEN counts[l] + 1 ELSE counts[l]
    BY <1>2, <1>3
  <2>2. \A l \in Lists : m \notin lists[l] /\ lists[l] \subseteq D
    BY <1>2
  <2>3. DOMAIN results' \ todo' = D \cup {m}
    BY <1>1, <1>2, <1>3
  <2>4. UNION {lists'[l] : l \in Lists} = D \cup {m}
    <3>1. \A x \in D : \E l \in Lists : x \in lists'[l]
      <4>1. \A x \in D : \E l \in Lists : x \in lists[l]
        BY <1>2
      <4> QED
        BY <2>1, <4>1
    <3>2. m \in lists'[list]
      BY <2>1
    <3>3. \A l \in Lists : lists'[l] \subseteq D \cup {m}
      BY <2>1, <2>2
    <3> QED
      BY <3>1, <3>2, <3>3
  <2>5. \A l, o \in Lists : l # o => lists'[l] \cap lists'[o] = {}
    BY <2>1, <2>2 DEF PutOK
  <2>6. ASSUME NEW l \in Lists
        PROVE  IsFiniteSet(lists'[l]) /\ counts'[l] = Cardinality(lists'[l])
    <3>1. PICK A, k : A = lists[l] /\ k = counts[l]
      OBVIOUS
    <3>2. IsFiniteSet(A) /\ k = Cardinality(A) /\ m \notin A
      BY <2>2, <3>1 DEF PutOK
    <3>3. CASE l = list
      <4>1. IsFiniteSet(A \cup {m}) /\ Cardinality(A \cup {m}) = Cardinality(A) + 1
        BY <3>2, FS_AddElement
      <4> QED
        BY <2>1, <3>1, <3>2, <3>3, <4>1
    <3>4. CASE l # list
      BY <2>1, <3>1, <3>2, <3>4
    <3> QED
      BY <3>3, <3>4
  <2>7. IsFiniteSet(D \cup {m}) /\ cnt' = Cardinality(D \cup {m})
    <3>1. IsFiniteSet(D) /\ cnt = Cardinality(D)
      BY <1>1 DEF PutOK
    <3>2. IsFiniteSet(D \cup {m}) /\ Cardinality(D \cup {m}) = Cardinality(D) + 1
      BY <1>2, <3>1, FS_AddElement
    <3> QED
      BY <1>3, <3>1, <3>2
  <2>8. \A n \in lists'["probably_challenger_better"] \cup lists'["probably_challenger_worse"] :
          Different(results[n])
    <3>1. "probably_challenger_better" \in Lists /\ "probably_challenger_worse" \in Lists
      BY DEF Lists
    <3>2. \A n \in lists["probably_challenger_better"] \cup lists["probably_challenger_worse"] :
            Different(results[n])
      BY DEF PutOK
    <3> HIDE DEF CompareInv
    <3> QED
      BY <2>1, <3>1, <3>2
  <2>9. \A n \in lists'["probably_challenger_better"] \cup lists'["probably_challenger_worse"] :
          Different(results'[n])
    BY <1>3, <2>8
  <2> HIDE DEF CompareInv
  <2> QED
    BY <2>3, <2>4, <2>5, <2>6, <2>7, <2>9 DEF PutOK
<1>6. TestOK'
  BY <1>3 DEF TestOK
<1> QED
  BY <1>4, <1>5, <1>6

LEMMA TestTypes ==
  ASSUME TestOK, doing \in {"rank", "correct"}
  PROVE  /\ Total \in Nat /\ i \in 0 .. Total /\ i \in Nat
         /\ combined \in Seq(Int \X Group)
         /\ \A k, l \in 1 .. Total : k <= l => combined[k][1] <= combined[l][1]
<1>1. combined \in Seq(Int \X Group)
  BY DEF TestOK, Arranged
<1>2. Total \in Nat
  BY <1>1, LenProperties DEF Total
<1> QED
  BY <1>1, <1>2 DEF TestOK, Arranged, Total

LEMMA TestStep ==
  ASSUME CompareInv, NEW m, Test(m)
  PROVE  CompareInv'
<1> USE DEF CompareInv
<1>1. /\ doing = "next" /\ m \in todo /\ (\A kind \in Group : results[m][kind] # <<>>)
      /\ key' = m /\ combined' \in Sorted(m) /\ ranks' = <<>> /\ i' = 0 /\ tie_correction' = 0
      /\ doing' = "rank" /\ UNCHANGED <<given, results, todo, lists, counts, cnt>>
  BY DEF Test, output
<1>2. CompareTypes'
  BY <1>1 DEF CompareTypes
<1>3. PutOK'
  BY <1>1 DEF PutOK
<1>4. TestOK'
  <2>1. PICK c : c = combined'
    OBVIOUS
  <2>2. Arranged(c, results[m])
    <3>1. results[m] \in Seq(Int) \X Seq(Int)
      BY <1>1 DEF CompareTypes
    <3>2. c \in Sorted(m)
      BY <1>1, <2>1
    <3> QED
      BY <3>1, <3>2, SortedArranged, Zenon
  <2>3. Len(c) \in Nat
    BY <2>2, LenProperties DEF Arranged
  <2>4. Boundary(c, 0)
    BY DEF Boundary
  <2>5. RanksOK(0)'
    <3>1. ranks' \in Seq(Int) /\ Len(ranks') = 0
      BY <1>1
    <3> QED
      BY <3>1 DEF RanksOK
  <2>6. i' = 0 /\ 0 \in 0 .. Len(c) /\ 0 \in Int
    BY <1>1, <2>3
  <2>7. RanksOK(i)'
    BY <2>5, <2>6 DEF RanksOK
  <2>8. /\ Arranged(combined, results[key])' /\ key' \in todo'
        /\ \A kind \in Group : results'[key'][kind] # <<>>
    BY <1>1, <2>1, <2>2
  <2>9. i' \in 0 .. Total' /\ Boundary(combined, i)' /\ tie_correction' = 0 /\ tie_correction' \in Int
    <3>1. Total' = Len(c)
      BY <2>1 DEF Total
    <3> QED
      BY <1>1, <2>1, <2>4, <2>6, <3>1
  <2>10. doing' = "rank" /\ doing' # "correct"
    BY <1>1
  <2> HIDE DEF CompareInv
  <2> QED
    BY <2>7, <2>8, <2>9, <2>10 DEF TestOK
<1> QED
  BY <1>2, <1>3, <1>4

LEMMA RankTiesStep ==
  ASSUME CompareInv, RankTies
  PROVE  CompareInv'
<1> USE DEF CompareInv
<1>1. PICK j : j = EndOfTies
  OBVIOUS
<1>2. /\ doing = "rank" /\ i < Total
      /\ ranks' = ranks \o [k \in 1 .. j - i |-> TwiceRank(j)] /\ i' = j
      /\ UNCHANGED <<given, doing, results, todo, key, combined, tie_correction, lists, counts, cnt>>
  BY <1>1 DEF RankTies, output
<1>3. PICK n, v : n = Total /\ v = Values(combined)
  OBVIOUS
<1>4. n \in Nat /\ i \in 0 .. n /\ Ties(combined, i, j) /\ j \in i + 1 .. n /\ j \in 0 .. n
  <2>1. n \in Nat /\ i \in 0 .. n
    BY <1>2, <1>3, TestTypes
  <2>2. Ties(combined, i, j)
    BY <1>1, <1>2, <1>3, <2>1, TiesEnd
  <2> QED
    BY <1>3, <2>1, <2>2 DEF Ties, Total
<1>5. Ranks(combined, i, j)
  <2>1. /\ combined \in Seq(Int \X Group) /\ i \in 0 .. Len(combined)
        /\ \A k, l \in 1 .. Len(combined) : k <= l => combined[k][1] <= combined[l][1]
        /\ Boundary(combined, i)
    BY <1>2, TestTypes DEF Total, TestOK
  <2> QED
    BY <1>4, <2>1, TiesRanked, Zenon
<1>6. CompareTypes'
  BY <1>2 DEF CompareTypes
<1>7. PutOK'
  BY <1>2 DEF PutOK
<1>8. RanksOK(j)'
  <2>1. PICK old, new, both : /\ old = ranks /\ new = [k \in 1 .. j - i |-> TwiceRank(j)]
                              /\ both = old \o new
    OBVIOUS
  <2>2. old \in Seq(Int) /\ Len(old) = i /\ \A k \in 1 .. i : Ranked(v, n, old, k)
    BY <1>2, <1>3, <2>1 DEF TestOK, RanksOK
  <2>3. new \in Seq(Int) /\ Len(new) = j - i /\ \A k \in 1 .. j - i : new[k] = i + 1 + j
    <3>1. j - i \in Nat /\ TwiceRank(j) = i + 1 + j /\ TwiceRank(j) \in Int
      BY <1>4 DEF TwiceRank
    <3>2. new \in [1 .. j - i -> Int]
      BY <2>1, <3>1
    <3>3. new \in Seq(Int)
      BY <3>1, <3>2, SeqDef
    <3> QED
      BY <2>1, <3>1, <3>2, <3>3, LenProperties
  <2>4. both \in Seq(Int) /\ Len(both) = j
        /\ \A k \in 1 .. j : both[k] = IF k <= i THEN old[k] ELSE new[k - i]
    <3>1. /\ old \o new \in Seq(Int) /\ Len(old \o new) = Len(old) + Len(new)
          /\ \A k \in 1 .. Len(old) + Len(new) :
               (old \o new)[k] = IF k <= Len(old) THEN old[k] ELSE new[k - Len(old)]
      BY <2>2, <2>3, ConcatProperties
    <3>2. Len(old) + Len(new) = j
      BY <1>4, <2>2, <2>3
    <3> QED
      BY <2>1, <2>2, <3>1, <3>2
  <2>5. ASSUME NEW k \in 1 .. j PROVE Ranked(v, n, both, k)
    <3>1. CASE k <= i
      <4>1. k \in 1 .. i /\ both[k] = old[k]
        BY <1>4, <2>4, <3>1
      <4>2. Ranked(v, n, old, k)
        BY <2>2, <4>1
      <4> QED
        BY <4>1, <4>2 DEF Ranked
    <3>2. CASE ~(k <= i)
      <4>1. k \in i + 1 .. j /\ k - i \in 1 .. j - i
        BY <1>4, <3>2
      <4>2. both[k] = i + 1 + j
        BY <2>3, <2>4, <3>2, <4>1
      <4>3. Tied(v, n, k, i, j)
        BY <1>3, <1>5, <4>1 DEF Ranks, Total
      <4> QED
        BY <1>4, <4>2, <4>3 DEF Ranked
    <3> QED
      BY <3>1, <3>2
  <2>6. ranks' = both /\ Values(combined)' = v /\ Total' = n
    BY <1>2, <1>3, <2>1 DEF Total
  <2>7. RanksOK(j)' <=> /\ ranks' \in Seq(Int) /\ Len(ranks') = j
                        /\ \A k \in 1 .. j : Ranked(Values(combined)', Total', ranks', k)
    BY DEF RanksOK
  <2> QED
    BY <2>4, <2>5, <2>6, <2>7
<1>9. TestOK'
  <2>1. RanksOK(i)'
    BY <1>2, <1>8 DEF RanksOK
  <2>2. Boundary(combined, i)' /\ i' \in 0 .. Total'
    BY <1>2, <1>3, <1>4, <1>5 DEF Ranks, Total
  <2>3. Arranged(combined, results[key])' /\ key' \in todo'
        /\ (\A kind \in Group : results'[key'][kind] # <<>>)
        /\ tie_correction' \in Int /\ tie_correction' = 0 /\ doing' = "rank"
    BY <1>2 DEF TestOK
  <2> HIDE DEF CompareInv
  <2> QED
    BY <2>1, <2>2, <2>3 DEF TestOK
<1> QED
  BY <1>6, <1>7, <1>9

LEMMA EndRanksStep ==
  ASSUME CompareInv, EndRanks
  PROVE  CompareInv'
<1> USE DEF CompareInv
<1>1. /\ doing = "rank" /\ i = Total /\ doing' = "correct" /\ i' = 0
      /\ UNCHANGED <<given, results, todo, key, combined, ranks, tie_correction, lists, counts, cnt>>
  BY DEF EndRanks, output
<1>2. CompareTypes'
  BY <1>1 DEF CompareTypes
<1>3. PutOK'
  BY <1>1 DEF PutOK
<1>4. TestOK'
  <2>1. RanksOK(Total)' /\ tie_correction' = 0 /\ i' = 0 /\ doing' = "correct"
    BY <1>1 DEF TestOK, RanksOK, Total
  <2>2. Boundary(combined, i)' /\ i' \in 0 .. Total'
    <3>1. Total \in Nat
      BY <1>1, TestTypes
    <3> QED
      BY <1>1, <3>1 DEF Boundary, Total
  <2>3. Arranged(combined, results[key])' /\ key' \in todo'
        /\ (\A kind \in Group : results'[key'][kind] # <<>>) /\ tie_correction' \in Int
    BY <1>1 DEF TestOK
  <2> HIDE DEF CompareInv
  <2> QED
    BY <2>1, <2>2, <2>3 DEF TestOK
<1> QED
  BY <1>2, <1>3, <1>4

LEMMA TieTermType ==
  ASSUME NEW t \in Nat
  PROVE  TieTerm(t) \in Int
BY DEF TieTerm

(* If all values are the same, they are all tied. *)
LEMMA AllTied ==
  ASSUME NEW c \in Seq(Int \X Group), NEW n \in Nat, Len(c) = n, NEW a \in 0 .. n, NEW j,
         AllSame(c), Ties(c, a, j), Boundary(c, a)
  PROVE  a = 0 /\ j = n
<1>1. j \in a + 1 .. n /\ a + 1 \in 1 .. n
  BY DEF Ties
<1>2. j = n
  <2>1. SUFFICES ASSUME j < n PROVE FALSE
    BY <1>1
  <2>2. j + 1 \in 1 .. n
    BY <1>1, <2>1
  <2> QED
    BY <1>1, <2>1, <2>2 DEF Ties, AllSame
<1>3. a = 0
  <2>1. SUFFICES ASSUME a # 0 PROVE FALSE
    OBVIOUS
  <2>2. 1 \in 1 .. a /\ 1 \in 1 .. n /\ a + 1 \in a + 1 .. n
    BY <1>1, <2>1
  <2>3. c[1][1] < c[a + 1][1] /\ c[1][1] = c[a + 1][1]
    BY <1>1, <2>2 DEF Boundary, AllSame
  <2>4. c[1] \in Int \X Group
    BY <2>2, ElementOfSeq
  <2>5. PICK x : x = c[1][1]
    OBVIOUS
  <2>6. x \in Int /\ x < x
    BY <2>3, <2>4, <2>5
  <2> QED
    BY <2>6
<1> QED
  BY <1>2, <1>3

LEMMA CorrectTiesStep ==
  ASSUME CompareInv, CorrectTies
  PROVE  CompareInv'
<1> USE DEF CompareInv
<1>1. PICK j : j = EndOfTies
  OBVIOUS
<1>2. /\ doing = "correct" /\ i < Total
      /\ tie_correction' = tie_correction + TieTerm(j - i) /\ i' = j
      /\ UNCHANGED <<given, doing, results, todo, key, combined, ranks, lists, counts, cnt>>
  BY <1>1 DEF CorrectTies, output
<1>3. PICK n : n = Total
  OBVIOUS
<1>4. n \in Nat /\ i \in 0 .. n /\ Ties(combined, i, j) /\ j \in i + 1 .. n /\ j \in 0 .. n
  <2>1. n \in Nat /\ i \in 0 .. n
    BY <1>2, <1>3, TestTypes
  <2>2. Ties(combined, i, j)
    BY <1>1, <1>2, <1>3, <2>1, TiesEnd
  <2> QED
    BY <1>3, <2>1, <2>2 DEF Ties, Total
<1>5. Boundary(combined, i)
  BY <1>2 DEF TestOK
<1>6. Boundary(combined, j)
  <2>1. /\ combined \in Seq(Int \X Group) /\ i \in 0 .. Len(combined)
        /\ \A k, l \in 1 .. Len(combined) : k <= l => combined[k][1] <= combined[l][1]
    BY <1>2, TestTypes DEF Total
  <2>2. Ranks(combined, i, j)
    BY <1>4, <1>5, <2>1, TiesRanked, Zenon
  <2> QED
    BY <2>2 DEF Ranks
<1>7. CompareTypes'
  BY <1>2 DEF CompareTypes
<1>8. PutOK'
  BY <1>2 DEF PutOK
<1>9. TestOK'
  <2>1. RanksOK(Total)'
    <3>1. RanksOK(Total)
      BY <1>2 DEF TestOK
    <3> QED
      BY <1>2, <3>1 DEF RanksOK, Total
  <2>2. Boundary(combined, i)' /\ i' \in 0 .. Total'
    BY <1>2, <1>3, <1>4, <1>6 DEF Total
  <2>3. Arranged(combined, results[key])' /\ key' \in todo'
        /\ (\A kind \in Group : results'[key'][kind] # <<>>) /\ doing' = "correct"
    BY <1>2 DEF TestOK
  <2>4. tie_correction' \in Int
    <3>1. j - i \in Nat /\ tie_correction \in Int
      BY <1>2, <1>4 DEF TestOK
    <3> QED
      BY <1>2, <3>1, TieTermType
  <2>5. ASSUME AllSame(combined') PROVE tie_correction' = IF i' = 0 THEN 0 ELSE TieTerm(Total')
    <3>1. AllSame(combined) /\ Len(combined) = n /\ combined \in Seq(Int \X Group)
      BY <1>2, <1>3, <2>5, TestTypes DEF Total
    <3>2. i = 0 /\ j = n
      BY <1>4, <1>5, <3>1, AllTied
    <3>3. tie_correction = 0
      BY <1>2, <3>1, <3>2 DEF TestOK
    <3>4. tie_correction' = 0 + TieTerm(n) /\ TieTerm(n) \in Int
      <4>1. j - i = n
        BY <1>4, <3>2
      <4> QED
        BY <1>2, <1>4, <3>3, <4>1, TieTermType
    <3>5. i' # 0 /\ Total' = n
      BY <1>2, <1>3, <1>4 DEF Total
    <3> QED
      BY <3>4, <3>5
  <2> HIDE DEF CompareInv
  <2> QED
    BY <2>1, <2>2, <2>3, <2>4, <2>5 DEF TestOK
<1> QED
  BY <1>7, <1>8, <1>9

-----------------------------------------------------------------------------
(* What the test counts. *)
LEMMA PlacesAll ==
  ASSUME NEW c \in Seq(Int \X Group), NEW kind \in Group
  PROVE  /\ Places(c, kind) \cup Places(c, 3 - kind) = 1 .. Len(c)
         /\ Places(c, kind) \cap Places(c, 3 - kind) = {}
         /\ IsFiniteSet(Places(c, kind)) /\ IsFiniteSet(Places(c, 3 - kind))
         /\ 3 - kind \in Group
<1>1. Len(c) \in Nat /\ \A k \in 1 .. Len(c) : c[k][2] \in Group
  <2>1. \A k \in 1 .. Len(c) : c[k] \in Int \X Group
    BY ElementOfSeq
  <2> QED
    BY <2>1, LenProperties
<1>2. kind # 3 - kind /\ 3 - kind \in Group /\ \A g \in Group : g = kind \/ g = 3 - kind
  BY DEF Group, Baseline, Challenger
<1>3. IsFiniteSet(1 .. Len(c))
  BY <1>1, IntervalFinite
<1>4. Places(c, kind) \in SUBSET (1 .. Len(c)) /\ Places(c, 3 - kind) \in SUBSET (1 .. Len(c))
  BY DEF Places
<1>5. IsFiniteSet(Places(c, kind)) /\ IsFiniteSet(Places(c, 3 - kind))
  BY <1>3, <1>4, FS_Subset
<1>6. /\ Places(c, kind) \cup Places(c, 3 - kind) = 1 .. Len(c)
      /\ Places(c, kind) \cap Places(c, 3 - kind) = {}
  BY <1>1, <1>2 DEF Places
<1> QED
  BY <1>2, <1>5, <1>6

LEMMA PlacesSize ==
  ASSUME NEW c, NEW kind, NEW sample \in Seq(Int), IsFiniteSet(Places(c, kind)),
         Matched(c, kind, sample)
  PROVE  Cardinality(Places(c, kind)) = Len(sample) /\ Len(sample) \in Nat
<1>1. PICK K, J, v, f : /\ K = Places(c, kind) /\ J = DOMAIN sample /\ v = Values(c)
                        /\ Matching(v, K, sample, J, f)
  BY DEF Matched
<1>2. SameSize(K, J)
  BY <1>1, MatchSize, Zenon
<1>3. PICK n : n = Len(sample)
  OBVIOUS
<1>4. n \in Nat /\ J = 1 .. n
  BY <1>1, <1>3, LenProperties
<1>5. Cardinality(1 .. n) = n
  <2>1. Cardinality(1 .. n) = IF 1 > n THEN 0 ELSE n - 1 + 1
    BY <1>4, FS_Interval
  <2> QED
    BY <1>4, <2>1
<1> QED
  BY <1>1, <1>2, <1>3, <1>4, <1>5 DEF SameSize

LEMMA InvPairs == CompareInv => PairsCounted
<1> SUFFICES ASSUME CompareInv, doing = "correct", NEW kind \in Group
    PROVE  LET own == results[key][kind]
               other == results[key][3 - kind]
               Pairs == (DOMAIN own) \X (DOMAIN other)
           IN TwiceU(kind) = 2 * Cardinality({p \in Pairs : own[p[1]] < other[p[2]]})
                             + Cardinality({p \in Pairs : own[p[1]] = other[p[2]]})
  BY DEF PairsCounted
<1> USE DEF CompareInv
<1>1. PICK c, v, n, K, O, r : /\ c = combined /\ v = Values(combined) /\ n = Total /\ r = ranks
                           /\ K = Places(combined, kind) /\ O = Places(combined, 3 - kind)
  OBVIOUS
<1>2. PICK own, other, J, I : /\ own = results[key][kind] /\ other = results[key][3 - kind]
                              /\ J = DOMAIN own /\ I = DOMAIN other
  OBVIOUS
<1>3. c \in Seq(Int \X Group) /\ n \in Nat /\ n = Len(c)
  BY <1>1, TestTypes DEF Total
<1>4. /\ K \cup O = 1 .. n /\ K \cap O = {} /\ IsFiniteSet(K) /\ IsFiniteSet(O)
      /\ 3 - kind \in Group
  BY <1>1, <1>3, PlacesAll
<1>5. \A k \in 1 .. n : v[k] \in Int
  <2>1. \A k \in 1 .. n : c[k] \in Int \X Group
    BY <1>3, ElementOfSeq
  <2> QED
    BY <1>1, <1>3, <2>1 DEF Values
<1>6. \A k \in 1 .. n : Ranked(v, n, r, k)
  BY <1>1 DEF TestOK, RanksOK
<1>7. Matched(c, kind, own) /\ Matched(c, 3 - kind, other)
  BY <1>1, <1>2, <1>4 DEF TestOK, Arranged
<1>8. PICK low, same, x, y, sum :
        /\ low = Cardinality(Lower(v, K, v, O)) /\ same = Cardinality(Same(v, K, v, O))
        /\ x = Cardinality(K) /\ y = Cardinality(O) /\ sum = SumOver(r, K)
  OBVIOUS
<1>9. sum + 2 * low + same = x * (x + 1) + 2 * (x * y)
  <2>1. RankedAll(n, v, r) /\ Parts(n, K, O)
    BY <1>4, <1>5, <1>6 DEF RankedAll, Parts
  <2>2. RanksOf(v, r, K, O)
    BY <1>3, <2>1, RankSum, Zenon
  <2> QED
    BY <1>8, <2>2 DEF RanksOf
<1>10. Cardinality(Lower(own, J, other, I)) = low /\ Cardinality(Same(own, J, other, I)) = same
  <2>1. PICK f : Matching(v, K, own, J, f)
    BY <1>1, <1>2, <1>7 DEF Matched
  <2>2. PICK g : Matching(v, O, other, I, g)
    BY <1>1, <1>2, <1>7 DEF Matched
  <2>3. Carried(v, K, O, own, J, other, I)
    BY <1>4, <2>1, <2>2, PairsCarried, Zenon
  <2> QED
    BY <1>8, <2>3 DEF Carried
<1>11. x = Len(own) /\ y = Len(other) /\ x \in Nat /\ y \in Nat
  <2>1. results[key] \in Seq(Int) \X Seq(Int)
    BY DEF TestOK, CompareTypes
  <2>2. own \in Seq(Int) /\ other \in Seq(Int)
    BY <1>2, <1>4, <2>1 DEF Group, Baseline, Challenger
  <2> QED
    BY <1>1, <1>4, <1>7, <1>8, <2>2, PlacesSize
<1>12. low \in Nat /\ same \in Nat
  <2>1. Lower(v, K, v, O) \in SUBSET (K \X O) /\ Same(v, K, v, O) \in SUBSET (K \X O)
    BY DEF Lower, Same
  <2> QED
    BY <1>4, <1>8, <2>1, PairsFinite
<1>13. sum = x * (x + 1) + 2 * (x * y) - 2 * low - same /\ sum \in Int
  <2>1. sum \in Int
    <3>1. K \in SUBSET (1 .. n)
      BY <1>4
    <3>2. sum = RankCount(v, n, K)
      BY <1>3, <1>5, <1>6, <1>8, <3>1, RanksAddUp
    <3>3. PICK D : D = 1 .. n
      OBVIOUS
    <3>4. Higher(v, K, v, D) \in SUBSET (K \X D) /\ Same(v, K, v, D) \in SUBSET (K \X D) /\ IsFiniteSet(D)
      <4>1. IsFiniteSet(D)
        BY <1>3, <3>3, IntervalFinite
      <4> QED
        BY <4>1 DEF Higher, Same
    <3>5. Cardinality(Higher(v, K, v, D)) \in Nat /\ Cardinality(Same(v, K, v, D)) \in Nat
      BY <1>4, <3>4, PairsFinite
    <3> QED
      BY <1>8, <1>11, <3>2, <3>3, <3>5 DEF RankCount
  <2>2. PICK a, b : a = x * (x + 1) /\ b = x * y
    OBVIOUS
  <2>3. a \in Int /\ b \in Int
    BY <1>11, <2>2
  <2>4. sum + 2 * low + same = a + 2 * b
    BY <1>9, <2>2
  <2>5. sum = a + 2 * b - 2 * low - same
    BY <1>12, <2>1, <2>3, <2>4
  <2> QED
    BY <2>1, <2>2, <2>5
<1>14. TwiceR(kind) = sum
  BY <1>1, <1>8 DEF TwiceR, SumOver, Places, Total
<1>15. TwiceU(kind) = 2 * low + same
  <2>1. Size(kind) = x
    BY <1>2, <1>11 DEF Size
  <2>2. \/ Size(Baseline) = x /\ Size(Challenger) = y
        \/ Size(Baseline) = y /\ Size(Challenger) = x
    BY <1>2, <1>11 DEF Size, Group, Baseline, Challenger
  <2>3. PICK a, b : a = x * (x + 1) /\ b = x * y
    OBVIOUS
  <2>4. a \in Int /\ b \in Int /\ y * x = b
    BY <1>11, <2>3
  <2>5. 2 * Size(Baseline) * Size(Challenger) = 2 * b
    <3>1. 2 * x * y = 2 * b /\ 2 * y * x = 2 * b
      BY <1>11, <2>3
    <3> QED
      BY <2>2, <3>1
  <2>6. TwiceU(kind) = 2 * b + a - sum
    BY <1>14, <2>1, <2>3, <2>5 DEF TwiceU
  <2>7. sum = a + 2 * b - 2 * low - same
    BY <1>13, <2>3
  <2> QED
    BY <1>12, <2>4, <2>6, <2>7
<1>16. /\ Lower(own, J, other, I) = {p \in J \X I : own[p[1]] < other[p[2]]}
       /\ Same(own, J, other, I) = {p \in J \X I : own[p[1]] = other[p[2]]}
  BY DEF Lower, Same
<1> HIDE DEF CompareInv
<1> QED
  BY <1>2, <1>10, <1>15, <1>16

-----------------------------------------------------------------------------
(* What is put on a list of different ones. *)
Found(sample) == {sample[k] : k \in DOMAIN sample}

LEMMA FoundFinite ==
  ASSUME NEW sample \in Seq(Int)
  PROVE  IsFiniteSet(Found(sample))
<1>1. PICK J, T, f : J = DOMAIN sample /\ T = Found(sample) /\ f = [k \in J |-> sample[k]]
  OBVIOUS
<1>2. IsFiniteSet(J)
  <2>1. Len(sample) \in Nat /\ J = 1 .. Len(sample)
    BY <1>1, LenProperties
  <2> QED
    BY <2>1, IntervalFinite
<1>3. f \in Surjection(J, T)
  BY <1>1 DEF Surjection, Found
<1> QED
  BY <1>1, <1>2, <1>3, FS_Surjection

LEMMA TwoValues ==
  ASSUME NEW samples \in Seq(Int) \X Seq(Int), NEW g \in Group, NEW h \in Group,
         NEW x \in Found(samples[g]), NEW y \in Found(samples[h]), x # y
  PROVE  Different(samples)
<1>1. PICK A, B : A = Found(samples[Baseline]) /\ B = Found(samples[Challenger])
  OBVIOUS
<1>2. IsFiniteSet(A) /\ IsFiniteSet(B)
  <2>1. samples[Baseline] \in Seq(Int) /\ samples[Challenger] \in Seq(Int)
    BY DEF Baseline, Challenger
  <2> QED
    BY <1>1, <2>1, FoundFinite
<1>3. PICK U : U = A \cup B
  OBVIOUS
<1>4. IsFiniteSet(U) /\ x \in U /\ y \in U
  BY <1>1, <1>2, <1>3, FS_Union DEF Group
<1>5. UNION {{samples[kind][k] : k \in DOMAIN samples[kind]} : kind \in Group} = U
  BY <1>1, <1>3 DEF Group, Found
<1>6. PICK P, Q : P = {y} /\ Q = {x, y}
  OBVIOUS
<1>7. Cardinality(Q) = 2
  <2>1. IsFiniteSet(P) /\ Cardinality(P) = 1
    BY <1>6, FS_Singleton
  <2>2. x \notin P /\ P \cup {x} = Q
    BY <1>6
  <2>3. Cardinality(P \cup {x}) = Cardinality(P) + 1
    BY <2>1, <2>2, FS_AddElement
  <2>4. Cardinality(Q) = Cardinality(P) + 1
    BY <2>2, <2>3, Zenon
  <2> QED
    BY <2>1, <2>4
<1>8. Cardinality(Q) <= Cardinality(U) /\ Cardinality(U) \in Nat
  <2>1. Q \in SUBSET U
    BY <1>4, <1>6
  <2> QED
    BY <1>4, <2>1, FS_Subset, FS_CardinalityType
<1>9. Cardinality(U) > 1
  BY <1>7, <1>8
<1> QED
  BY <1>5, <1>9, Zenon DEF Different

(* If all values are the same, z_score would divide by zero. *)
LEMMA SameIsNaN ==
  ASSUME CompareInv, doing = "correct", i = Total, AllSame(combined)
  PROVE  IsNaN
<1> USE DEF CompareInv
<1>1. PICK c, n : c = combined /\ n = Total
  OBVIOUS
<1>2. c \in Seq(Int \X Group) /\ n \in Nat /\ n = Len(c)
  BY <1>1, TestTypes DEF Total
<1>3. \A kind \in Group : /\ results[key][kind] \in Seq(Int) /\ results[key][kind] # <<>>
                          /\ Matched(c, kind, results[key][kind])
  <2>1. results[key] \in Seq(Int) \X Seq(Int)
    BY DEF TestOK, CompareTypes
  <2> QED
    BY <1>1, <2>1 DEF TestOK, Arranged, Group, Baseline, Challenger
<1>4. ASSUME NEW kind \in Group
      PROVE  (\E k \in 1 .. n : c[k][2] = kind) /\ Size(kind) \in Nat
  <2>1. PICK s : s = results[key][kind]
    OBVIOUS
  <2>2. s \in Seq(Int) /\ s # <<>> /\ Matched(c, kind, s)
    BY <1>3, <2>1
  <2>3. Len(s) \in Nat /\ 1 \in DOMAIN s
    BY <2>2, LenProperties, EmptySeq
  <2>4. \E k \in Places(c, kind) : TRUE
    BY <2>2, <2>3 DEF Matched, Matching
  <2> QED
    BY <1>2, <2>1, <2>3, <2>4 DEF Places, Size
<1>5. n > 1
  <2>1. Baseline \in Group /\ Challenger \in Group /\ Baseline # Challenger
    BY DEF Group, Baseline, Challenger
  <2>2. PICK k, l \in 1 .. n : c[k][2] = Baseline /\ c[l][2] = Challenger
    BY <1>4, <2>1
  <2>3. k # l
    BY <2>1, <2>2
  <2> QED
    BY <1>2, <2>3
<1>6. tie_correction = n * n * n - n
  <2>1. tie_correction = TieTerm(n)
    BY <1>1, <1>5 DEF TestOK
  <2> QED
    BY <1>5, <2>1 DEF TieTerm
<1>7. (n + 1) * n * (n - 1) - tie_correction = 0
  <2>1. (n + 1) * n * (n - 1) = n * n * n - n
    BY <1>2
  <2>2. n * n * n - n \in Int
    BY <1>2
  <2> QED
    BY <1>6, <2>1, <2>2
<1>8. Size(Baseline) * Size(Challenger) \in Int
  <2>1. Size(Baseline) \in Nat /\ Size(Challenger) \in Nat
    BY <1>4 DEF Group
  <2> QED
    BY <2>1
<1> QED
  BY <1>1, <1>7, <1>8 DEF IsNaN, ScaledVariance

LEMMA DifferentFound ==
  ASSUME CompareInv, doing = "correct", i = Total, ProbablyDifferent
  PROVE  Different(results[key])
<1> USE DEF CompareInv
<1>1. ~AllSame(combined)
  BY SameIsNaN DEF ProbablyDifferent
<1>2. PICK c, n, s : c = combined /\ n = Total /\ s = results[key]
  OBVIOUS
<1>3. c \in Seq(Int \X Group) /\ n \in Nat /\ n = Len(c)
  BY <1>2, TestTypes DEF Total
<1>4. s \in Seq(Int) \X Seq(Int) /\ \A kind \in Group : Matched(c, kind, s[kind])
  BY <1>2 DEF TestOK, CompareTypes, Arranged
<1>5. PICK k, l \in 1 .. n : c[k][1] # c[l][1]
  BY <1>1, <1>2, <1>3 DEF AllSame
<1>6. ASSUME NEW p \in 1 .. n
      PROVE  c[p][2] \in Group /\ c[p][1] \in Found(s[c[p][2]])
  <2>1. PICK g : g = c[p][2]
    OBVIOUS
  <2>2. g \in Group
    <3>1. c[p] \in Int \X Group
      BY <1>3, ElementOfSeq
    <3> QED
      BY <2>1, <3>1
  <2>3. PICK f : Matching(Values(c), Places(c, g), s[g], DOMAIN s[g], f)
    BY <1>4, <2>2 DEF Matched
  <2>4. p \in Places(c, g) /\ Values(c)[p] = c[p][1]
    BY <1>3, <2>1 DEF Places, Values
  <2>5. f[p] \in DOMAIN s[g] /\ s[g][f[p]] = c[p][1]
    BY <2>3, <2>4 DEF Matching
  <2> QED
    BY <2>1, <2>2, <2>5 DEF Found
<1>7. PICK g, h, x, y : g = c[k][2] /\ h = c[l][2] /\ x = c[k][1] /\ y = c[l][1]
  OBVIOUS
<1>8. /\ g \in Group /\ h \in Group /\ x # y
      /\ x \in Found(s[g]) /\ y \in Found(s[h])
  BY <1>5, <1>6, <1>7
<1>9. Different(s)
  BY <1>4, <1>8, TwoValues, Zenon
<1> QED
  BY <1>2, <1>9

LEMMA DecideStep ==
  ASSUME CompareInv, Decide
  PROVE  CompareInv'
<1>1. doing = "correct" /\ i = Total /\ doing # "extract" /\ key \in todo
  BY DEF Decide, CompareInv, TestOK
<1>2. /\ "probably_equivalent" \in Lists /\ "probably_challenger_better" \in Lists
      /\ "probably_challenger_worse" \in Lists
  BY DEF Lists
<1>3. CASE Put(key, "probably_equivalent")
  BY <1>1, <1>2, <1>3, PutStep
<1>4. CASE ProbablyDifferent /\ Put(key, "probably_challenger_better")
  <2>1. Different(results[key])
    BY <1>1, <1>4, DifferentFound
  <2> QED
    BY <1>1, <1>2, <1>4, <2>1, PutStep
<1>5. CASE ProbablyDifferent /\ Put(key, "probably_challenger_worse")
  <2>1. Different(results[key])
    BY <1>1, <1>5, DifferentFound
  <2> QED
    BY <1>1, <1>2, <1>5, <2>1, PutStep
<1> QED
  BY <1>3, <1>4, <1>5 DEF Decide

LEMMA SkipMissingStep ==
  ASSUME CompareInv, NEW m, SkipMissing(m)
  PROVE  CompareInv'
<1>1. doing = "next" /\ doing # "extract" /\ m \in todo
  BY DEF SkipMissing
<1>2. PICK list \in {"baseline_missing", "challenger_missing"} : Put(m, list)
  BY DEF SkipMissing
<1>3. list \in Lists /\ list \notin {"probably_challenger_better", "probably_challenger_worse"}
  BY DEF Lists
<1> QED
  BY <1>1, <1>2, <1>3, PutStep

LEMMA SummariseStep ==
  ASSUME CompareInv, Summarise
  PROVE  CompareInv'
<1> USE DEF CompareInv
<1>1. /\ doing = "next" /\ todo = {} /\ doing' = "done"
      /\ UNCHANGED <<given, results, todo, lists, counts, cnt>>
  BY DEF Summarise, output
<1>2. CompareTypes'
  BY <1>1 DEF CompareTypes
<1>3. PutOK'
  BY <1>1 DEF PutOK
<1>4. TestOK'
  BY <1>1 DEF TestOK
<1> QED
  BY <1>2, <1>3, <1>4

LEMMA CompareStutter ==
  ASSUME CompareInv, UNCHANGED compare_vars
  PROVE  CompareInv'
<1> USE DEF CompareInv
<1>1. UNCHANGED <<given, doing, results, todo, key, combined, ranks, i, tie_correction,
                  lists, counts, cnt>>
  BY DEF compare_vars, test, output
<1>2. CompareTypes'
  BY <1>1 DEF CompareTypes
<1>3. PutOK'
  BY <1>1 DEF PutOK
<1>4. TestOK'
  BY <1>1 DEF TestOK, RanksOK, Total
<1> QED
  BY <1>2, <1>3, <1>4

LEMMA CompareNextInv == CompareInv /\ [CompareNext]_compare_vars => CompareInv'
<1> SUFFICES ASSUME CompareInv, [CompareNext]_compare_vars PROVE CompareInv'
  OBVIOUS
<1>1. CASE Extract
  BY <1>1, ExtractStep
<1>2. ASSUME NEW m \in Measurement, SkipMissing(m) PROVE CompareInv'
  BY <1>2, SkipMissingStep
<1>3. ASSUME NEW m \in Measurement, Test(m) PROVE CompareInv'
  BY <1>3, TestStep
<1>4. CASE RankTies
  BY <1>4, RankTiesStep
<1>5. CASE EndRanks
  BY <1>5, EndRanksStep
<1>6. CASE CorrectTies
  BY <1>6, CorrectTiesStep
<1>7. CASE Decide
  BY <1>7, DecideStep
<1>8. CASE Summarise
  BY <1>8, SummariseStep
<1>9. CASE UNCHANGED compare_vars
  BY <1>9, CompareStutter
<1> QED
  BY <1>1, <1>2, <1>3, <1>4, <1>5, <1>6, <1>7, <1>8, <1>9 DEF CompareNext

-----------------------------------------------------------------------------
LEMMA InvOnce == CompareInv => EachOnce
<1> SUFFICES ASSUME CompareInv, doing = "done" PROVE EachOnce
  BY DEF EachOnce
<1> USE DEF CompareInv
<1>1. PICK D : D = DOMAIN results
  OBVIOUS
<1>2. todo = {} /\ D \ todo = D
  BY DEF CompareTypes
<1>3. /\ UNION {lists[l] : l \in Lists} = D
      /\ \A l, o \in Lists : l # o => lists[l] \cap lists[o] = {}
      /\ \A l \in Lists : IsFiniteSet(lists[l]) /\ counts[l] = Cardinality(lists[l])
      /\ IsFiniteSet(D) /\ cnt = Cardinality(D)
      /\ \A m \in lists["probably_challenger_better"] \cup lists["probably_challenger_worse"] :
           Different(results[m])
  BY <1>1, <1>2 DEF PutOK
<1>4. SumOver(counts, Lists) = cnt
  <2> DEFINE On(s) == UNION {lists[l] : l \in s}
  <2>1. PICK mu : mu = [s \in SUBSET Lists |-> Cardinality(On(s))]
    OBVIOUS
  <2>2. \A s \in SUBSET Lists : On(s) \in SUBSET D
    BY <1>3
  <2>3. \A s \in SUBSET Lists : IsFiniteSet(On(s)) /\ Cardinality(On(s)) \in Nat
    <3> HIDE DEF On
    <3> QED
      BY <1>3, <2>2, FS_Subset, FS_CardinalityType
  <2>4. mu \in [SUBSET Lists -> Int]
    <3> HIDE DEF On
    <3> QED
      BY <2>1, <2>3
  <2>5. mu[{}] = 0
    <3>1. On({}) = {} /\ {} \in SUBSET Lists
      OBVIOUS
    <3> HIDE DEF On
    <3> QED
      BY <2>1, <3>1, FS_EmptySet
  <2>6. ASSUME NEW s \in SUBSET Lists, NEW x \in s
        PROVE  mu[s] = counts[x] + mu[s \ {x}]
    <3>1. PICK A, B, u : A = lists[x] /\ u = s \ {x} /\ B = On(u)
      OBVIOUS
    <3>2. On(s) = A \cup B /\ A \cap B = {}
      BY <1>3, <3>1
    <3>3. u \in SUBSET Lists
      BY <3>1
    <3>4. IsFiniteSet(A) /\ counts[x] = Cardinality(A)
      BY <1>3, <3>1
    <3> HIDE DEF On
    <3>5. IsFiniteSet(B)
      BY <2>3, <3>1, <3>3
    <3>6. Added(A, B)
      BY <3>2, <3>4, <3>5, Apart, Zenon
    <3>7. mu[s] = Cardinality(A \cup B) /\ mu[u] = Cardinality(B)
      BY <2>1, <3>1, <3>2, <3>3
    <3> QED
      BY <3>1, <3>4, <3>6, <3>7 DEF Added
  <2>7. Measures(mu, counts, Lists)
    <3> HIDE DEF On
    <3> QED
      BY <2>4, <2>5, <2>6 DEF Measures
  <2>8. IsFiniteSet(Lists)
    <3>1. PICK a, b, c, d, e : /\ Lists = {a} \cup ({b} \cup ({c} \cup ({d} \cup {e})))
                               /\ a = "probably_equivalent" /\ b = "probably_challenger_better"
                               /\ c = "probably_challenger_worse" /\ d = "challenger_missing"
                               /\ e = "baseline_missing"
      BY DEF Lists
    <3>2. /\ IsFiniteSet({a}) /\ IsFiniteSet({b}) /\ IsFiniteSet({c})
          /\ IsFiniteSet({d}) /\ IsFiniteSet({e})
      BY FS_Singleton
    <3>3. IsFiniteSet({d} \cup {e})
      BY <3>2, FS_Union
    <3>4. IsFiniteSet({c} \cup ({d} \cup {e}))
      BY <3>2, <3>3, FS_Union
    <3>5. IsFiniteSet({b} \cup ({c} \cup ({d} \cup {e})))
      BY <3>2, <3>4, FS_Union
    <3> QED
      BY <3>1, <3>2, <3>5, FS_Union
  <2>9. SumOver(counts, Lists) = mu[Lists]
    BY <2>7, <2>8, SumIs
  <2>10. mu[Lists] = Cardinality(On(Lists)) /\ On(Lists) = D
    BY <1>3, <2>1
  <2> HIDE DEF On
  <2> QED
    BY <1>3, <2>9, <2>10
<1>5. cnt = MapThenSumSet(LAMBDA l : counts[l], Lists)
  BY <1>4 DEF SumOver
<1> HIDE DEF CompareInv
<1> QED
  BY <1>1, <1>3, <1>5 DEF EachOnce, Different

(* The comparison keeps its invariant: lists, counters and ranks. *)
THEOREM CompareInvariant == CompareSpec => []CompareInv
BY CompareInitInv, CompareNextInv, PTL DEF CompareSpec

(* U1 and U2 of mann_whitney_u_test count pairs of values of both samples, *)
(* equal ones as halves, for samples of any size and however the sort      *)
(* leaves equal values.                                                    *)
THEOREM UCountsPairs == CompareSpec => []PairsCounted
BY CompareInvariant, InvPairs, PTL

(* compare_files puts every measurement found on exactly one list, counts  *)
(* it once, and calls no samples different that hold only one value.       *)
THEOREM ListsComplete == CompareSpec => []EachOnce
BY CompareInvariant, InvOnce, PTL

-----------------------------------------------------------------------------
(***************************************************************************)
(* PostprocessingPool.                                                     *)
(***************************************************************************)

USE PoolAssumption

AtStep == {"none", "fetch", "look", "process", "exited"}
Holding == {"look", "process"}
Exited == {w \in Worker : at[w] = "exited"}

(* The types of what the argument needs. *)
Types ==
  /\ input_files \in Seq(Kind)
  /\ num_jobs \in Jobs
  /\ stage \in {"start", "sequence", "spawn", "work", "collected", "saved",
                "failed", "terminated"}
  /\ at \in [Worker -> AtStep]
  /\ my_file_index \in [Worker -> Nat]
  /\ next_file_index \in Nat

(* Every worker beyond the files has left: the counter is never more than  *)
(* one ahead of the files for each worker.                                 *)
CounterOK == next_file_index <= NumFiles + Cardinality(Exited)

(* What the workers hold was taken from the counter, each by one of them. *)
TakenOK ==
  /\ \A w \in Worker : at[w] \in Holding =>
       my_file_index[w] \in 1 .. NumFiles /\ my_file_index[w] <= next_file_index
  /\ \A v, w \in Worker : v # w /\ at[v] \in Holding /\ at[w] \in Holding =>
       my_file_index[v] # my_file_index[w]

(* Who works while main does what. *)
StageOK ==
  /\ stage \in {"start", "sequence"} => \A w \in Worker : at[w] = "none"
  /\ stage = "spawn" => at[1] = "none"
  /\ stage \in {"collected", "saved"} =>
       \A w \in Worker : at[w] \in {"none", "exited"}
  /\ stage = "failed" => \A w \in Worker \ {1} : at[w] = "none"

SlotsOK == sub_results \in [1 .. NumFiles -> Seq(1 .. NumFiles)]

IInv == Types /\ CounterOK /\ TakenOK /\ StageOK /\ SlotsOK

-----------------------------------------------------------------------------
(* The main thread is a worker; workers can be counted. *)
LEMMA WorkerFacts ==
  ASSUME Types
  PROVE  /\ NumFiles \in Nat
         /\ NumThreads \in Int /\ Worker \subseteq Nat \ {0} /\ 1 \in Worker
         /\ IsFiniteSet(Worker) /\ Cardinality(Exited) \in Nat
         /\ Cardinality(Exited) <= Cardinality(Worker)
         /\ Cardinality(Worker) \in Nat
<1>1. NumFiles \in Nat
  BY LenProperties DEF Types, NumFiles
<1>2. NumThreads \in Int
  <2>1. num_jobs \in Int
    BY DEF Types
  <2> QED
    BY <1>1, <2>1 DEF NumThreads, LargerOf
<1>3. LargerOf(NumThreads, 1) \in Nat /\ LargerOf(NumThreads, 1) >= 1
  BY <1>2 DEF LargerOf
<1>4. Worker \subseteq Nat \ {0} /\ 1 \in Worker
  BY <1>3 DEF Worker
<1>5. IsFiniteSet(Worker)
  BY <1>3, FS_Interval DEF Worker
<1>6. Exited \subseteq Worker
  BY DEF Exited
<1> QED
  BY <1>1, <1>2, <1>4, <1>5, <1>6, FS_Subset, FS_CardinalityType

(* The input, and with it the set of workers, never changes. *)
LEMMA InputFrame ==
  ASSUME UNCHANGED input
  PROVE  UNCHANGED <<NumFiles, NumThreads, Worker>>
BY DEF input, NumFiles, NumThreads, Worker

LEMMA InitInv == Init => IInv
<1> SUFFICES ASSUME Init PROVE IInv
  OBVIOUS
<1>1. input_files \in Seq(Kind)
  <2>1. PICK n \in 0 .. MaxFiles : input_files \in [1 .. n -> Kind]
    BY DEF Init
  <2> QED
    BY <2>1, SeqDef
<1>2. Types
  BY <1>1 DEF Init, Types, AtStep
<1>3. CounterOK
  BY <1>2, WorkerFacts DEF CounterOK, Init
<1>4. TakenOK /\ StageOK
  BY <1>2, WorkerFacts DEF Init, TakenOK, StageOK, Holding
<1>5. SlotsOK
  <2>1. <<>> \in Seq(1 .. NumFiles)
    OBVIOUS
  <2> QED
    BY <2>1 DEF Init, SlotsOK
<1> QED
  BY <1>2, <1>3, <1>4, <1>5 DEF IInv

(* Steps that leave the workers, the counter and the input alone. *)
LEMMA WorkersFrame ==
  ASSUME IInv, UNCHANGED <<input, at, next_file_index>>,
         my_file_index' \in [Worker -> Nat],
         \A w \in Worker : at[w] \in Holding => my_file_index'[w] = my_file_index[w]
  PROVE  CounterOK' /\ TakenOK'
<1>1. UNCHANGED <<NumFiles, Worker>>
  BY InputFrame
<1>2. UNCHANGED Exited
  BY <1>1 DEF Exited
<1> QED
  BY <1>1, <1>2 DEF IInv, CounterOK, TakenOK

(* A worker moves on, to a step where it holds the file it held before or  *)
(* none.                                                                   *)
LEMMA WorkerFrame ==
  ASSUME IInv, NEW w \in Worker, NEW step \in AtStep \ {"exited"},
         at[w] # "exited", step \in Holding => at[w] \in Holding,
         at' = [at EXCEPT ![w] = step],
         UNCHANGED <<input, my_file_index, next_file_index>>
  PROVE  at' \in [Worker' -> AtStep] /\ CounterOK' /\ TakenOK'
<1>1. UNCHANGED <<NumFiles, Worker>>
  BY InputFrame
<1>2. at \in [Worker -> AtStep] /\ my_file_index \in [Worker -> Nat]
  BY DEF IInv, Types
<1>3. at' \in [Worker' -> AtStep]
  BY <1>1, <1>2
<1>4. \A v \in Worker : at'[v] = IF v = w THEN step ELSE at[v]
  BY <1>2
<1>5. UNCHANGED Exited
  BY <1>1, <1>4 DEF Exited
<1>6. CounterOK'
  BY <1>1, <1>5 DEF IInv, CounterOK
<1>7. \A v \in Worker : at'[v] \in Holding => at[v] \in Holding
  BY <1>4
<1>8. TakenOK'
  BY <1>1, <1>7 DEF IInv, TakenOK
<1> QED
  BY <1>3, <1>6, <1>8

(* A worker takes the next file, or leaves if there is none. *)
LEMMA FetchStep ==
  ASSUME IInv, NEW w \in Worker, Fetch(w)
  PROVE  Types' /\ CounterOK' /\ TakenOK'
<1> USE DEF IInv
<1> DEFINE step == AfterFetch(w)
<1>1. UNCHANGED <<NumFiles, Worker>>
  BY InputFrame DEF Fetch
<1>2. /\ at \in [Worker -> AtStep] /\ my_file_index \in [Worker -> Nat]
      /\ next_file_index \in Nat /\ NumFiles \in Nat
      /\ Cardinality(Exited) \in Nat
  BY WorkerFacts DEF Types
<1>3. /\ my_file_index' = [my_file_index EXCEPT ![w] = next_file_index + 1]
      /\ next_file_index' = next_file_index + 1
      /\ at[w] = "fetch"
      /\ at' = [at EXCEPT ![w] = step]
  BY DEF Fetch, Taken
<1>4. /\ my_file_index' \in [Worker -> Nat]
      /\ \A v \in Worker : my_file_index'[v] =
           IF v = w THEN next_file_index + 1 ELSE my_file_index[v]
  BY <1>2, <1>3
<1>5. step = IF NumFiles < next_file_index + 1 THEN "exited" ELSE "look"
  BY <1>4 DEF AfterFetch
<1>6. /\ at' \in [Worker -> AtStep]
      /\ \A v \in Worker : at'[v] = IF v = w THEN step ELSE at[v]
  BY <1>2, <1>3, <1>5 DEF AtStep
<1>7. Types'
  BY <1>1, <1>2, <1>3, <1>4, <1>6 DEF Types, Fetch, input
<1>8. CounterOK'
  <2>1. CASE NumFiles < next_file_index + 1
    <3>1. Exited' = Exited \cup {w} /\ w \notin Exited
      BY <1>1, <1>3, <1>5, <1>6, <2>1 DEF Exited
    <3>2. IsFiniteSet(Exited)
      <4>1. Exited \subseteq Worker
        BY DEF Exited
      <4> QED
        BY <4>1, WorkerFacts, FS_Subset
    <3>3. Cardinality(Exited') = Cardinality(Exited) + 1
      BY <3>1, <3>2, FS_AddElement
    <3> QED
      BY <1>1, <1>2, <1>3, <3>3 DEF CounterOK
  <2>2. CASE ~(NumFiles < next_file_index + 1)
    <3>1. Exited' = Exited
      BY <1>1, <1>3, <1>5, <1>6, <2>2 DEF Exited
    <3> QED
      BY <1>1, <1>2, <1>3, <2>2, <3>1 DEF CounterOK
  <2> QED
    BY <2>1, <2>2
<1>9. TakenOK'
  <2>1. ASSUME NEW v \in Worker, at'[v] \in Holding
        PROVE  /\ my_file_index'[v] \in 1 .. NumFiles
               /\ my_file_index'[v] <= next_file_index'
               /\ v # w => at[v] \in Holding /\ my_file_index'[v] <= next_file_index
    <3>1. CASE v = w
      BY <1>2, <1>3, <1>4, <1>5, <1>6, <2>1, <3>1 DEF Holding
    <3>2. CASE v # w
      BY <1>2, <1>3, <1>4, <1>6, <2>1, <3>2 DEF TakenOK
    <3> QED
      BY <3>1, <3>2
  <2>2. ASSUME NEW u \in Worker, NEW v \in Worker, u # v,
               at'[u] \in Holding, at'[v] \in Holding
        PROVE  my_file_index'[u] # my_file_index'[v]
    <3>1. my_file_index'[u] \in Nat /\ my_file_index'[v] \in Nat
      BY <1>4
    <3>2. CASE u # w /\ v # w
      BY <1>4, <2>1, <2>2, <3>2 DEF TakenOK
    <3>3. CASE u = w \/ v = w
      BY <1>2, <1>4, <2>1, <2>2, <3>1, <3>3
    <3> QED
      BY <3>2, <3>3
  <2> QED
    BY <1>1, <2>1, <2>2 DEF TakenOK
<1> QED
  BY <1>7, <1>8, <1>9

(* A worker that works: main is in one of two stages and stays there.      *)
LEMMA WorkerStage ==
  ASSUME IInv, NEW w \in Worker, Running, at[w] \in {"fetch", "look", "process"},
         UNCHANGED <<input, stage>>,
         \A v \in Worker : v # w => at'[v] = at[v]
  PROVE  StageOK'
<1>1. UNCHANGED Worker
  BY InputFrame
<1>2. stage \in {"spawn", "work"}
  BY DEF IInv, StageOK, Types, Running
<1>3. stage = "spawn" => at[1] = "none" /\ w # 1
  BY DEF IInv, StageOK
<1>4. 1 \in Worker
  BY WorkerFacts DEF IInv
<1> QED
  BY <1>1, <1>2, <1>3, <1>4 DEF StageOK

(* Steps of main that leave the workers and the slots of the results alone. *)
LEMMA MainFrame ==
  ASSUME IInv, UNCHANGED <<input, at, next_file_index, sub_results>>,
         my_file_index' \in [Worker -> Nat],
         \A w \in Worker : at[w] \in Holding => my_file_index'[w] = my_file_index[w],
         stage' \in {"start", "sequence", "spawn", "work", "collected", "saved",
                    "failed", "terminated"},
         StageOK'
  PROVE  IInv'
<1>1. UNCHANGED <<NumFiles, Worker>>
  BY InputFrame
<1>2. CounterOK' /\ TakenOK'
  BY WorkersFrame
<1>3. Types' /\ SlotsOK'
  BY <1>1 DEF IInv, Types, SlotsOK, input
<1> QED
  BY <1>2, <1>3 DEF IInv

(* Every step preserves the invariant. *)
LEMMA InvStep == IInv /\ [Next]_vars => IInv'
<1> SUFFICES ASSUME IInv, [Next]_vars PROVE IInv'
  OBVIOUS
<1>0. /\ 1 \in Worker /\ Types /\ StageOK /\ NumFiles \in Nat
      /\ my_file_index \in [Worker -> Nat] /\ at \in [Worker -> AtStep]
  BY WorkerFacts DEF IInv, Types
<1>1. CASE StartSequence
  <2>1. StageOK'
    BY <1>0, <1>1, InputFrame DEF StartSequence, StageOK
  <2> QED
    BY <1>0, <1>1, <2>1, MainFrame DEF StartSequence, work
<1>2. CASE ProcessNext
  <2>1. /\ stage' \in {"sequence", "failed"} /\ UNCHANGED <<input, at>>
        /\ UNCHANGED <<next_file_index, sub_results>>
        /\ my_file_index' = [my_file_index EXCEPT ![1] = my_file_index[1] + 1]
    BY <1>2 DEF ProcessNext
  <2>2. \A w \in Worker : at[w] = "none"
    BY <1>0, <1>2 DEF ProcessNext, StageOK
  <2>3. StageOK'
    BY <1>0, <2>1, <2>2, InputFrame DEF StageOK
  <2>4. my_file_index' \in [Worker -> Nat]
    BY <1>0, <2>1
  <2> QED
    BY <2>1, <2>2, <2>3, <2>4, MainFrame DEF Holding
<1>3. CASE EndSequence
  <2>1. StageOK'
    BY <1>0, <1>3, InputFrame DEF EndSequence, StageOK
  <2> QED
    BY <1>0, <1>3, <2>1, MainFrame DEF EndSequence, work
<1>4. CASE Reserve
  <2>1. stage = "start" /\ stage' \in {"failed", "spawn"} /\ UNCHANGED <<input, at>>
    BY <1>4 DEF Reserve
  <2>2. \A w \in Worker : at[w] = "none"
    BY <1>0, <2>1 DEF StageOK
  <2>3. StageOK'
    BY <1>0, <2>1, <2>2, InputFrame DEF StageOK
  <2> QED
    BY <1>0, <1>4, <2>1, <2>3, MainFrame DEF Reserve, work
<1>5. CASE Spawn
  <2>1. PICK w \in Worker \ {1} :
          /\ at[w] = "none"
          /\ \/ at' = [at EXCEPT ![w] = "fetch"] /\ UNCHANGED stage
             \/ stage' = Unwound /\ UNCHANGED at
    BY <1>5 DEF Spawn
  <2>2. stage = "spawn" /\ UNCHANGED <<input, my_file_index, next_file_index, sub_results>>
    BY <1>5 DEF Spawn, work
  <2>3. UNCHANGED <<NumFiles, Worker>>
    BY <2>2, InputFrame
  <2>4. CASE at' = [at EXCEPT ![w] = "fetch"] /\ UNCHANGED stage
    <3>1. at' \in [Worker' -> AtStep] /\ CounterOK' /\ TakenOK'
      BY <2>1, <2>2, <2>4, WorkerFrame DEF AtStep, Holding
    <3>2. at'[1] = "none"
      BY <1>0, <2>1, <2>2, <2>4 DEF StageOK
    <3>3. StageOK'
      BY <2>2, <2>3, <2>4, <3>2 DEF StageOK
    <3> QED
      BY <2>2, <2>3, <2>4, <3>1, <3>3 DEF IInv, Types, SlotsOK, input
  <2>5. CASE stage' = Unwound /\ UNCHANGED at
    <3>1. stage' \in {"failed", "terminated"}
      BY <2>5 DEF Unwound
    <3>2. stage' = "failed" => \A v \in Worker \ {1} : at[v] = "none"
      BY <2>5 DEF Unwound, Threads
    <3>3. StageOK'
      BY <2>3, <2>5, <3>1, <3>2 DEF StageOK
    <3> QED
      BY <1>0, <2>2, <2>5, <3>1, <3>3, MainFrame
  <2> QED
    BY <2>1, <2>4, <2>5
<1>6. CASE WorkToo
  <2>1. /\ stage = "spawn" /\ stage' = "work" /\ at' = [at EXCEPT ![1] = "fetch"]
        /\ UNCHANGED <<input, my_file_index, next_file_index, sub_results>>
    BY <1>6 DEF WorkToo, work
  <2>2. at[1] = "none"
    BY <1>0, <2>1 DEF StageOK
  <2>3. at' \in [Worker' -> AtStep] /\ CounterOK' /\ TakenOK'
    BY <1>0, <2>1, <2>2, WorkerFrame DEF AtStep, Holding
  <2>4. StageOK'
    BY <2>1 DEF StageOK
  <2>5. UNCHANGED <<NumFiles, Worker>>
    BY <2>1, InputFrame
  <2> QED
    BY <2>1, <2>3, <2>4, <2>5 DEF IInv, Types, SlotsOK, input
<1>7. CASE JoinAndCollect
  <2>1. stage' = "collected" /\ UNCHANGED <<input, at>> /\ \A w \in Worker : at[w] = "exited"
    BY <1>7 DEF JoinAndCollect, Joined
  <2>2. StageOK'
    BY <2>1, InputFrame DEF StageOK
  <2> QED
    BY <1>0, <1>7, <2>1, <2>2, MainFrame DEF JoinAndCollect, work
<1>8. CASE Save
  <2>1. StageOK'
    BY <1>0, <1>8, InputFrame DEF Save, StageOK
  <2> QED
    BY <1>0, <1>8, <2>1, MainFrame DEF Save, work
<1>9. ASSUME NEW w \in Worker, Fetch(w) PROVE IInv'
  <2>1. /\ Running /\ at[w] = "fetch" /\ UNCHANGED <<input, stage, sub_results>>
        /\ at' = [at EXCEPT ![w] = AfterFetch(w)]
    BY <1>9 DEF Fetch
  <2>2. \A v \in Worker : v # w => at'[v] = at[v]
    BY <1>0, <2>1
  <2>3. StageOK'
    BY <2>1, <2>2, WorkerStage
  <2>4. SlotsOK'
    BY <2>1, InputFrame DEF IInv, SlotsOK
  <2> QED
    BY <1>9, <2>3, <2>4, FetchStep DEF IInv
<1>10. ASSUME NEW w \in Worker, Look(w) PROVE IInv'
  <2> DEFINE step == AfterLook(w)
  <2>1. /\ Running /\ at[w] = "look"
        /\ UNCHANGED <<input, stage, my_file_index, next_file_index, sub_results>>
        /\ at' = [at EXCEPT ![w] = step]
    BY <1>10 DEF Look, work
  <2>2. step \in {"fetch", "process"}
    BY DEF AfterLook
  <2> HIDE DEF step
  <2>3. at' \in [Worker' -> AtStep] /\ CounterOK' /\ TakenOK'
    BY <2>1, <2>2, WorkerFrame DEF AtStep, Holding
  <2>4. \A v \in Worker : v # w => at'[v] = at[v]
    BY <1>0, <2>1
  <2>5. StageOK'
    BY <2>1, <2>4, WorkerStage
  <2>6. UNCHANGED <<NumFiles, Worker>>
    BY <2>1, InputFrame
  <2> QED
    BY <2>1, <2>3, <2>5, <2>6 DEF IInv, Types, SlotsOK, input
<1>11. ASSUME NEW w \in Worker, Process(w) PROVE IInv'
  <2> DEFINE file == my_file_index[w]
  <2>1. /\ Running /\ at[w] = "process"
        /\ UNCHANGED <<input, my_file_index, next_file_index>>
    BY <1>11 DEF Process
  <2>2. UNCHANGED <<NumFiles, Worker>>
    BY <2>1, InputFrame
  <2>3. file \in 1 .. NumFiles
    BY <2>1 DEF IInv, TakenOK, Holding
  <2>4. CASE /\ sub_results' = [sub_results EXCEPT ![file] = Append(@, file)]
             /\ at' = [at EXCEPT ![w] = "fetch"] /\ UNCHANGED stage
    <3>1. at' \in [Worker' -> AtStep] /\ CounterOK' /\ TakenOK'
      BY <2>1, <2>4, WorkerFrame DEF AtStep, Holding
    <3>2. \A v \in Worker : v # w => at'[v] = at[v]
      BY <1>0, <2>4
    <3>3. StageOK'
      BY <2>1, <2>4, <3>2, WorkerStage
    <3>4. SlotsOK'
      <4>1. sub_results \in [1 .. NumFiles -> Seq(1 .. NumFiles)]
        BY DEF IInv, SlotsOK
      <4>2. sub_results[file] \in Seq(1 .. NumFiles)
        BY <2>3, <4>1
      <4>3. Append(sub_results[file], file) \in Seq(1 .. NumFiles)
        BY <2>3, <4>2, AppendProperties
      <4>4. sub_results' \in [1 .. NumFiles -> Seq(1 .. NumFiles)]
        BY <2>4, <4>1, <4>3
      <4> QED
        BY <2>2, <4>4 DEF SlotsOK
    <3> QED
      BY <2>1, <2>2, <2>4, <3>1, <3>3, <3>4 DEF IInv, Types, input
  <2>5. CASE /\ stage' = IF w = 1 THEN Unwound ELSE "terminated"
             /\ UNCHANGED <<at, sub_results>>
    <3>1. stage' \in {"failed", "terminated"}
      BY <2>5 DEF Unwound
    <3>2. stage' = "failed" => \A v \in Worker \ {1} : at[v] = "none"
      BY <2>5 DEF Unwound, Threads
    <3>3. StageOK'
      BY <2>2, <2>5, <3>1, <3>2 DEF StageOK
    <3> QED
      BY <1>0, <2>1, <2>5, <3>1, <3>3, MainFrame
  <2> QED
    BY <1>11, <2>4, <2>5 DEF Process
<1>12. CASE UNCHANGED vars
  <2>1. UNCHANGED <<input, at, work, stage>>
    BY <1>12 DEF vars, input, work
  <2>2. StageOK'
    BY <1>0, <2>1, InputFrame DEF StageOK
  <2> QED
    BY <1>0, <2>1, <2>2, MainFrame DEF work, Types
<1> QED
  BY <1>1, <1>2, <1>3, <1>4, <1>5, <1>6, <1>7, <1>8, <1>9, <1>10, <1>11, <1>12
     DEF Next, Main, WorkerStep

LEMMA Invariance == Spec => []IInv
<1> QED
  BY InitInv, InvStep, PTL DEF Spec

-----------------------------------------------------------------------------
(* Types; next_file_index.fetch_add(1) does not overflow: the counter is   *)
(* never further past the files than there are workers.                    *)
THEOREM TypeCorrect == Spec => []TypeOK
<1>1. IInv => TypeOK
  <2> SUFFICES ASSUME IInv PROVE TypeOK
    OBVIOUS
  <2>1. next_file_index \in 0 .. NumFiles + Cardinality(Worker)
    BY WorkerFacts DEF IInv, Types, CounterOK
  <2> QED
    BY <2>1 DEF IInv, Types, SlotsOK, TypeOK, AtStep
<1> QED
  BY <1>1, Invariance, PTL

(* The pool fills sub_results without a mutex and without a data race: two *)
(* workers never fill the same slot, and main reads them when none does.   *)
THEOREM RaceFreedom == Spec => []NoRace
<1>1. IInv => NoRace
  BY DEF IInv, TakenOK, StageOK, NoRace, Holding
<1> QED
  BY <1>1, Invariance, PTL

(* However main leaves the block the workers refer to, they are gone: it   *)
(* has joined them, or never made any, or the process is over.             *)
THEOREM WorkersJoined == Spec => []NoWorkerOutlivesMain
<1>1. IInv => NoWorkerOutlivesMain
  BY DEF IInv, StageOK, NoWorkerOutlivesMain
<1> QED
  BY <1>1, Invariance, PTL

-----------------------------------------------------------------------------
(* Sequential is what its recursive definition says.                       *)
SequentialStep == [k \in Nat |-> [s \in Seq(Nat) |->
                     IF input_files[k] = "meta" THEN Append(s, k) ELSE s]]

LEMMA SequentialSteps ==
  ASSUME Types
  PROVE  Follows(Seq(Nat), SequentialStep, <<>>, NumFiles, Sequential)
<1> DEFINE Def(f) == [n \in 0 .. NumFiles |->
                        IF n = 0 THEN <<>>
                        ELSE IF input_files[n] = "meta" THEN Append(f[n - 1], n)
                        ELSE f[n - 1]]
<1>1. PICK T, steps, x, N : /\ T = Seq(Nat) /\ steps = SequentialStep
                            /\ x = <<>> /\ N = NumFiles
  OBVIOUS
<1>2. N \in Nat /\ x \in T
  BY <1>1, WorkerFacts
<1>3. steps \in [Nat -> [T -> T]]
  BY <1>1, AppendProperties DEF SequentialStep
<1>4. \A k \in 1 .. N : \A s \in T :
        steps[k][s] = IF input_files[k] = "meta" THEN Append(s, k) ELSE s
  BY <1>1 DEF SequentialStep
<1>5. PICK f : Follows(T, steps, x, N, f)
  BY <1>2, <1>3, FollowsExist
<1>6. f = Def(f)
  <2>1. f = [k \in 0 .. N |-> f[k]] /\ f[0] = <<>>
    BY <1>1, <1>5 DEF Follows
  <2>2. \A k \in 0 .. N : k # 0 => k \in 1 .. N /\ k - 1 \in 0 .. N
    BY <1>2
  <2>3. \A k \in 0 .. N : k # 0 => f[k] = IF input_files[k] = "meta"
                                        THEN Append(f[k - 1], k) ELSE f[k - 1]
    <3>1. \A k \in 1 .. N : f[k] = steps[k][f[k - 1]]
      BY <1>5 DEF Follows
    <3>2. \A k \in 0 .. N : f[k] \in T
      BY <1>5 DEF Follows
    <3>3. ASSUME NEW k \in 0 .. N, k # 0
          PROVE  f[k] = IF input_files[k] = "meta" THEN Append(f[k - 1], k) ELSE f[k - 1]
      <4>1. k \in 1 .. N /\ f[k - 1] \in T
        BY <2>2, <3>2, <3>3
      <4> QED
        BY <1>4, <3>1, <4>1
    <3> QED
      BY <3>3
  <2> QED
    BY <1>1, <2>1, <2>3
<1>7. Sequential = CHOOSE g : g = Def(g)
  BY DEF Sequential
<1> HIDE DEF Def
<1>8. PICK g : g = Sequential
  OBVIOUS
<1>9. g = Def(g)
  BY <1>6, <1>7, <1>8
<1>10. g = [n \in 0 .. N |-> IF n = 0 THEN <<>>
                             ELSE IF input_files[n] = "meta" THEN Append(g[n - 1], n)
                             ELSE g[n - 1]]
  BY <1>1, <1>9 DEF Def
<1>11. g = [n \in 0 .. N |-> g[n]] /\ g[0] = x
  BY <1>1, <1>2, <1>10
<1>12. ASSUME NEW k \in 1 .. N, g[k - 1] \in T PROVE g[k] = steps[k][g[k - 1]]
  <2>1. k \in 0 .. N /\ k # 0
    BY <1>2
  <2>2. g[k] = IF input_files[k] = "meta" THEN Append(g[k - 1], k) ELSE g[k - 1]
    BY <1>10, <2>1
  <2> QED
    BY <1>4, <1>12, <2>2
<1>13. Follows(T, steps, x, N, g)
  BY <1>2, <1>3, <1>11, <1>12, FollowsStay
<1> QED
  BY <1>1, <1>8, <1>13

LEMMA SequentialFacts ==
  ASSUME Types
  PROVE  /\ Sequential \in [0 .. NumFiles -> Seq(Nat)]
         /\ Sequential[0] = <<>>
         /\ \A k \in 1 .. NumFiles :
              Sequential[k] = IF input_files[k] = "meta"
                              THEN Append(Sequential[k - 1], k) ELSE Sequential[k - 1]
<1>1. PICK N, g : N = NumFiles /\ g = Sequential
  OBVIOUS
<1>2. Follows(Seq(Nat), SequentialStep, <<>>, N, g) /\ N \in Nat
  BY <1>1, SequentialSteps, WorkerFacts
<1>3. \A k \in 1 .. N : k - 1 \in 0 .. N
  BY <1>2
<1>4. g \in [0 .. N -> Seq(Nat)] /\ g[0] = <<>>
  BY <1>2 DEF Follows
<1>5. ASSUME NEW k \in 1 .. N
      PROVE  g[k] = IF input_files[k] = "meta" THEN Append(g[k - 1], k) ELSE g[k - 1]
  <2>1. g[k] = SequentialStep[k][g[k - 1]] /\ k \in Nat
    BY <1>2 DEF Follows
  <2>2. g[k - 1] \in Seq(Nat)
    BY <1>3, <1>4
  <2> QED
    BY <2>1, <2>2 DEF SequentialStep
<1> QED
  BY <1>1, <1>4, <1>5

-----------------------------------------------------------------------------
(* The file of a worker that looks at it or processes it.                  *)
Held(file) == \E w \in Worker : at[w] \in Holding /\ my_file_index[w] = file

Done(file) == file <= next_file_index /\ ~Held(file)

(* The slot of each file is filled when the file was taken and let go of,  *)
(* and workers let go of no file that cannot be processed.                 *)
FilesOK ==
  /\ \A w \in Worker : at[w] = "process" => input_files[my_file_index[w]] # "other"
  /\ \A w \in Worker : at[w] = "exited" => NumFiles < next_file_index
  /\ \A file \in 1 .. NumFiles :
       IF Done(file)
       THEN /\ input_files[file] # "bad"
            /\ sub_results[file] = IF input_files[file] = "meta" THEN <<file>> ELSE <<>>
       ELSE sub_results[file] = <<>>

(* What main has collected when. *)
MainOK ==
  /\ stage = "start" => my_file_index[1] = 0 /\ benchmarks = <<>>
  /\ stage = "sequence" =>
       /\ my_file_index[1] <= NumFiles
       /\ \A file \in 1 .. my_file_index[1] : input_files[file] # "bad"
       /\ benchmarks = Sequential[my_file_index[1]]
  /\ stage \in {"collected", "saved"} =>
       /\ \A file \in 1 .. NumFiles : input_files[file] # "bad"
       /\ benchmarks = Sequential[NumFiles]

SInv == IInv /\ FilesOK /\ MainOK

(* The slots, joined, are what one job collects.                           *)
LEMMA SlotsJoined ==
  ASSUME Types, sub_results \in [1 .. NumFiles -> Seq(1 .. NumFiles)],
         \A file \in 1 .. NumFiles :
           sub_results[file] = IF input_files[file] = "meta" THEN <<file>> ELSE <<>>
  PROVE  FlattenSeq(sub_results) = Sequential[NumFiles]
<1>1. PICK N, q, F : N = NumFiles /\ q = sub_results /\ F = Sequential
  OBVIOUS
<1>2. /\ N \in Nat /\ F \in [0 .. N -> Seq(Nat)] /\ F[0] = <<>>
      /\ \A k \in 1 .. N : F[k] = IF input_files[k] = "meta"
                                  THEN Append(F[k - 1], k) ELSE F[k - 1]
      /\ \A k \in 1 .. N : q[k] = IF input_files[k] = "meta" THEN <<k>> ELSE <<>>
  BY <1>1, WorkerFacts, SequentialFacts
<1>3. q \in [1 .. N -> Seq(Nat)]
  <2>1. ASSUME NEW k \in 1 .. N PROVE q[k] \in Seq(Nat)
    <3>1. k \in Nat
      BY <1>2
    <3>2. <<k>> \in Seq(Nat) /\ <<>> \in Seq(Nat)
      BY <3>1
    <3> QED
      BY <1>2, <3>2
  <2> QED
    BY <1>1, <2>1
<1>4. ASSUME NEW k \in 1 .. N PROVE F[k] = F[k - 1] \o q[k]
  <2>1. PICK s : s = F[k - 1]
    OBVIOUS
  <2>2. s \in Seq(Nat)
    <3>1. k - 1 \in 0 .. N
      BY <1>2
    <3> QED
      BY <1>2, <2>1, <3>1
  <2>3. Append(s, k) = s \o <<k>> /\ s \o <<>> = s
    BY <2>2, AppendIsConcat, ConcatEmptySeq
  <2> QED
    BY <1>2, <2>1, <2>3
<1>5. FlattenSeq(q) = F[N]
  <2>1. PICK T : T = Nat
    OBVIOUS
  <2>2. /\ q \in [1 .. N -> Seq(T)] /\ F \in [0 .. N -> Seq(T)] /\ F[0] = <<>>
        /\ \A k \in 1 .. N : F[k] = F[k - 1] \o q[k]
    BY <1>2, <1>3, <1>4, <2>1
  <2>3. N \in Nat
    BY <1>2
  <2> HIDE PoolAssumption
  <2> QED
    BY <2>2, <2>3, Flattened, ZenonT(40)
<1> QED
  BY <1>1, <1>5

(* Steps that take no file and let go of none. *)
LEMMA FilesFrame ==
  ASSUME SInv, UNCHANGED <<input, next_file_index, sub_results>>,
         \A w \in Worker : /\ at'[w] \in Holding <=> at[w] \in Holding
                           /\ at'[w] = "process" => at[w] = "process"
                           /\ at'[w] = "exited" => at[w] = "exited"
                           /\ at[w] \in Holding => my_file_index'[w] = my_file_index[w]
  PROVE  FilesOK'
<1>1. UNCHANGED <<NumFiles, Worker, input_files>>
  BY InputFrame DEF input
<1>2. \A file : Held(file)' <=> Held(file)
  BY <1>1 DEF Held
<1>3. \A file : Done(file)' <=> Done(file)
  BY <1>2 DEF Done
<1>4. \A w \in Worker : at'[w] = "process" => my_file_index'[w] = my_file_index[w]
  BY DEF Holding
<1> QED
  BY <1>1, <1>3, <1>4 DEF SInv, FilesOK

(* A worker takes the next file: only that one changes its state.          *)
LEMMA FetchFiles ==
  ASSUME SInv, NEW w \in Worker, Fetch(w)
  PROVE  FilesOK'
<1>1. UNCHANGED <<NumFiles, Worker, input_files, sub_results>>
  BY InputFrame DEF Fetch, input
<1>2. /\ at \in [Worker -> AtStep] /\ my_file_index \in [Worker -> Nat]
      /\ next_file_index \in Nat /\ NumFiles \in Nat /\ IInv /\ FilesOK
  BY WorkerFacts DEF SInv, IInv, Types
<1>3. /\ my_file_index' = [my_file_index EXCEPT ![w] = next_file_index + 1]
      /\ next_file_index' = next_file_index + 1
      /\ at[w] = "fetch"
      /\ at' = [at EXCEPT ![w] = AfterFetch(w)]
  BY DEF Fetch, Taken
<1>4. \A v \in Worker : my_file_index'[v] =
           IF v = w THEN next_file_index + 1 ELSE my_file_index[v]
  BY <1>2, <1>3
<1>5. AfterFetch(w) = IF NumFiles < next_file_index + 1 THEN "exited" ELSE "look"
  BY <1>4 DEF AfterFetch
<1>6. \A v \in Worker : at'[v] = IF v # w THEN at[v] ELSE
                                  IF NumFiles < next_file_index + 1 THEN "exited" ELSE "look"
  BY <1>2, <1>3, <1>5
<1>7. ASSUME NEW file \in 1 .. NumFiles PROVE Done(file)' <=> Done(file)
  <2>1. CASE file = next_file_index + 1
    <3>1. ~Done(file)
      BY <1>2, <2>1 DEF Done
    <3>2. at'[w] = "look" /\ my_file_index'[w] = file
      BY <1>2, <1>4, <1>6, <2>1
    <3>3. Held(file)'
      BY <1>1, <3>2 DEF Held, Holding
    <3> QED
      BY <3>1, <3>3 DEF Done
  <2>2. CASE file # next_file_index + 1
    <3>1. file <= next_file_index' <=> file <= next_file_index
      BY <1>2, <1>3, <2>2
    <3>2. Held(file)' <=> Held(file)
      <4>1. ASSUME NEW v \in Worker
            PROVE  (at'[v] \in Holding /\ my_file_index'[v] = file) <=>
                   (at[v] \in Holding /\ my_file_index[v] = file)
        <5>1. CASE v = w
          BY <1>3, <1>4, <2>2, <5>1 DEF Holding
        <5>2. CASE v # w
          BY <1>4, <1>6, <5>2
        <5> QED
          BY <5>1, <5>2
      <4> QED
        BY <1>1, <4>1 DEF Held
    <3> QED
      BY <3>1, <3>2 DEF Done
  <2> QED
    BY <2>1, <2>2
<1>8. \A v \in Worker : at'[v] = "process" => input_files[my_file_index'[v]] # "other"
  BY <1>2, <1>4, <1>6 DEF FilesOK
<1>9. \A v \in Worker : at'[v] = "exited" => NumFiles < next_file_index'
  BY <1>2, <1>3, <1>6 DEF FilesOK
<1>10. ASSUME NEW file \in 1 .. NumFiles
       PROVE  IF Done(file)'
              THEN /\ input_files[file] # "bad"
                   /\ sub_results[file] = IF input_files[file] = "meta" THEN <<file>> ELSE <<>>
              ELSE sub_results[file] = <<>>
  BY <1>2, <1>7 DEF FilesOK
<1> QED
  BY <1>1, <1>8, <1>9, <1>10 DEF FilesOK

(* A worker lets go of its file.                                           *)
LEMMA DoneWith ==
  ASSUME IInv, NEW w \in Worker, at[w] \in Holding,
         at' = [at EXCEPT ![w] = "fetch"],
         UNCHANGED <<input, my_file_index, next_file_index>>,
         NEW file \in 1 .. NumFiles
  PROVE  Done(file)' <=> (Done(file) \/ file = my_file_index[w])
<1>1. UNCHANGED Worker /\ at \in [Worker -> AtStep]
  BY InputFrame DEF IInv, Types
<1>2. \A v \in Worker : at'[v] = IF v = w THEN "fetch" ELSE at[v]
  BY <1>1
<1>3. /\ my_file_index[w] <= next_file_index
      /\ \A v \in Worker : v # w /\ at[v] \in Holding => my_file_index[v] # my_file_index[w]
  BY DEF IInv, TakenOK
<1>4. CASE file = my_file_index[w]
  <2>1. ~Held(file)'
    BY <1>1, <1>2, <1>3, <1>4 DEF Held, Holding
  <2> QED
    BY <1>3, <1>4, <2>1 DEF Done
<1>5. CASE file # my_file_index[w]
  <2>1. Held(file)' <=> Held(file)
    BY <1>1, <1>2, <1>5 DEF Held, Holding
  <2> QED
    BY <1>5, <2>1 DEF Done
<1> QED
  BY <1>4, <1>5

LEMMA LookFiles ==
  ASSUME SInv, NEW w \in Worker, Look(w)
  PROVE  FilesOK'
<1>1. /\ UNCHANGED <<input, my_file_index, next_file_index, sub_results>>
      /\ at[w] = "look" /\ at' = [at EXCEPT ![w] = AfterLook(w)]
  BY DEF Look, work
<1>2. IInv /\ FilesOK /\ at \in [Worker -> AtStep]
  BY DEF SInv, IInv, Types
<1>3. UNCHANGED <<NumFiles, Worker, input_files>>
  BY <1>1, InputFrame DEF input
<1>4. CASE input_files[my_file_index[w]] = "other"
  <2>1. at' = [at EXCEPT ![w] = "fetch"]
    BY <1>1, <1>4 DEF AfterLook
  <2>2. \A file \in 1 .. NumFiles : Done(file)' <=> (Done(file) \/ file = my_file_index[w])
    BY <1>1, <1>2, <2>1, DoneWith DEF Holding
  <2>3. my_file_index[w] \in 1 .. NumFiles /\ ~Done(my_file_index[w])
    BY <1>1, <1>2 DEF IInv, TakenOK, Holding, Done, Held
  <2>4. ASSUME NEW file \in 1 .. NumFiles
        PROVE  IF Done(file)'
               THEN /\ input_files[file] # "bad"
                    /\ sub_results[file] = IF input_files[file] = "meta" THEN <<file>> ELSE <<>>
               ELSE sub_results[file] = <<>>
    <3>1. CASE file = my_file_index[w]
      BY <1>2, <1>4, <2>2, <2>3, <3>1 DEF FilesOK
    <3>2. CASE file # my_file_index[w]
      BY <1>2, <2>2, <3>2 DEF FilesOK
    <3> QED
      BY <3>1, <3>2
  <2>5. \A v \in Worker : at'[v] \in {"process", "exited"} => at'[v] = at[v]
    BY <1>2, <2>1
  <2>6. \A v \in Worker : at'[v] = "process" => input_files[my_file_index[v]] # "other"
    BY <1>2, <2>5 DEF FilesOK
  <2>7. \A v \in Worker : at'[v] = "exited" => NumFiles < next_file_index
    BY <1>2, <2>5 DEF FilesOK
  <2> QED
    BY <1>1, <1>3, <2>4, <2>6, <2>7 DEF FilesOK
<1>5. CASE input_files[my_file_index[w]] # "other"
  <2>1. at' = [at EXCEPT ![w] = "process"]
    BY <1>1, <1>5 DEF AfterLook
  <2>2. \A v \in Worker : at'[v] = IF v = w THEN "process" ELSE at[v]
    BY <1>2, <2>1
  <2>3. \A file : Held(file)' <=> Held(file)
    BY <1>1, <1>3, <2>2 DEF Held, Holding
  <2>4. \A file : Done(file)' <=> Done(file)
    BY <1>1, <2>3 DEF Done
  <2>5. \A v \in Worker : at'[v] = "process" => input_files[my_file_index[v]] # "other"
    BY <1>2, <1>5, <2>2 DEF FilesOK
  <2>6. \A v \in Worker : at'[v] = "exited" => NumFiles < next_file_index
    BY <1>2, <2>2 DEF FilesOK
  <2>7. ASSUME NEW file \in 1 .. NumFiles
        PROVE  IF Done(file)'
               THEN /\ input_files[file] # "bad"
                    /\ sub_results[file] = IF input_files[file] = "meta" THEN <<file>> ELSE <<>>
               ELSE sub_results[file] = <<>>
    BY <1>2, <2>4 DEF FilesOK
  <2> QED
    BY <1>1, <1>3, <2>5, <2>6, <2>7 DEF FilesOK
<1> QED
  BY <1>4, <1>5

LEMMA ProcessFiles ==
  ASSUME SInv, NEW w \in Worker, Process(w)
  PROVE  FilesOK'
<1>1. /\ UNCHANGED <<input, my_file_index, next_file_index>> /\ at[w] = "process"
  BY DEF Process
<1>2. IInv /\ FilesOK /\ at \in [Worker -> AtStep] /\ SlotsOK
  BY DEF SInv, IInv, Types
<1>3. UNCHANGED <<NumFiles, Worker, input_files>>
  BY <1>1, InputFrame DEF input
<1>4. PICK file : file = my_file_index[w]
  OBVIOUS
<1>5. file \in 1 .. NumFiles /\ ~Done(file) /\ sub_results[file] = <<>>
  BY <1>1, <1>2, <1>4 DEF IInv, TakenOK, Holding, Done, Held, FilesOK
<1>6. CASE /\ input_files[file] = "meta"
           /\ sub_results' = [sub_results EXCEPT ![file] = Append(@, file)]
           /\ at' = [at EXCEPT ![w] = "fetch"]
  <2>1. \A j \in 1 .. NumFiles : Done(j)' <=> (Done(j) \/ j = file)
    BY <1>1, <1>2, <1>4, <1>6, DoneWith DEF Holding
  <2>2. sub_results'[file] = <<file>> /\ \A j \in 1 .. NumFiles : j # file => sub_results'[j] = sub_results[j]
    BY <1>2, <1>5, <1>6 DEF SlotsOK
  <2>3. ASSUME NEW j \in 1 .. NumFiles
        PROVE  IF Done(j)'
               THEN /\ input_files[j] # "bad"
                    /\ sub_results'[j] = IF input_files[j] = "meta" THEN <<j>> ELSE <<>>
               ELSE sub_results'[j] = <<>>
    <3>1. CASE j = file
      BY <1>6, <2>1, <2>2, <3>1
    <3>2. CASE j # file
      BY <1>2, <2>1, <2>2, <3>2 DEF FilesOK
    <3> QED
      BY <3>1, <3>2
  <2>4. \A v \in Worker : at'[v] \in {"process", "exited"} => at'[v] = at[v]
    BY <1>2, <1>6
  <2>5. \A v \in Worker : at'[v] = "process" => input_files[my_file_index[v]] # "other"
    BY <1>2, <2>4 DEF FilesOK
  <2>6. \A v \in Worker : at'[v] = "exited" => NumFiles < next_file_index
    BY <1>2, <2>4 DEF FilesOK
  <2> QED
    BY <1>1, <1>3, <2>3, <2>5, <2>6 DEF FilesOK
<1>7. CASE UNCHANGED <<at, sub_results>>
  BY <1>1, <1>7, FilesFrame
<1> QED
  BY <1>4, <1>6, <1>7 DEF Process

LEMMA InitSInv == Init => SInv
<1> SUFFICES ASSUME Init PROVE SInv
  OBVIOUS
<1>1. IInv /\ NumFiles \in Nat /\ 1 \in Worker
  BY InitInv, WorkerFacts DEF IInv
<1>2. \A w \in Worker : at[w] = "none" /\ my_file_index[w] = 0
  BY DEF Init
<1>3. \A file \in 1 .. NumFiles : ~Done(file) /\ sub_results[file] = <<>>
  BY <1>1 DEF Init, Done
<1>4. FilesOK
  BY <1>2, <1>3 DEF FilesOK
<1>5. MainOK
  BY <1>1, <1>2 DEF MainOK, Init
<1> QED
  BY <1>1, <1>4, <1>5 DEF SInv

LEMMA SInvStep == SInv /\ [Next]_vars => SInv'
<1> SUFFICES ASSUME SInv, [Next]_vars PROVE SInv'
  OBVIOUS
<1>1. /\ IInv' /\ IInv /\ FilesOK /\ MainOK /\ Types /\ StageOK
      /\ NumFiles \in Nat /\ 1 \in Worker
      /\ my_file_index \in [Worker -> Nat] /\ at \in [Worker -> AtStep]
  BY InvStep, WorkerFacts DEF SInv, IInv, Types
<1>2. UNCHANGED input
  BY DEF Next, Main, WorkerStep, StartSequence, ProcessNext, EndSequence, Reserve, Spawn,
         WorkToo, JoinAndCollect, Save, Fetch, Look, Process, vars, input
<1>3. UNCHANGED <<NumFiles, Worker, input_files, Sequential>>
  BY <1>2, InputFrame DEF input, Sequential
<1>4. CASE StartSequence
  <2>1. UNCHANGED <<at, my_file_index, next_file_index, sub_results, benchmarks>>
        /\ stage = "start" /\ stage' = "sequence"
    BY <1>4 DEF StartSequence, work
  <2>2. FilesOK'
    BY <1>2, <2>1, FilesFrame
  <2>3. MainOK'
    BY <1>1, <1>3, <2>1, SequentialFacts DEF MainOK
  <2> QED
    BY <1>1, <2>2, <2>3 DEF SInv
<1>5. CASE ProcessNext
  <2>1. PICK file : file = my_file_index[1] + 1
    OBVIOUS
  <2>2. /\ UNCHANGED <<at, next_file_index, sub_results>>
        /\ stage = "sequence" /\ my_file_index[1] < NumFiles
        /\ my_file_index' = [my_file_index EXCEPT ![1] = file]
        /\ stage' = IF input_files[file] = "bad" THEN "failed" ELSE stage
        /\ benchmarks' = IF input_files[file] = "meta" THEN Append(benchmarks, file) ELSE benchmarks
    BY <1>5, <2>1 DEF ProcessNext
  <2>3. \A w \in Worker : at[w] = "none"
    BY <1>1, <2>2 DEF StageOK
  <2>4. FilesOK'
    BY <1>2, <2>2, <2>3, FilesFrame DEF Holding
  <2>5. MainOK'
    <3>1. CASE input_files[file] = "bad"
      BY <2>2, <3>1 DEF MainOK
    <3>2. CASE input_files[file] # "bad"
      <4>1. stage' = "sequence" /\ my_file_index'[1] = file
        BY <1>1, <2>2, <3>2
      <4>2. file \in 1 .. NumFiles /\ file - 1 = my_file_index[1]
        BY <1>1, <2>1, <2>2
      <4>3. benchmarks' = Sequential[file]
        BY <1>1, <2>2, <4>2, SequentialFacts DEF MainOK
      <4>4. \A j \in 1 .. file : j = file \/ j \in 1 .. my_file_index[1]
        BY <1>1, <2>1
      <4>5. \A j \in 1 .. file : input_files[j] # "bad"
        BY <1>1, <2>2, <3>2, <4>4 DEF MainOK
      <4> QED
        BY <1>3, <4>1, <4>2, <4>3, <4>5 DEF MainOK
    <3> QED
      BY <3>1, <3>2
  <2> QED
    BY <1>1, <2>4, <2>5 DEF SInv
<1>6. CASE EndSequence
  <2>1. UNCHANGED <<at, my_file_index, next_file_index, sub_results, benchmarks>>
        /\ stage = "sequence" /\ my_file_index[1] = NumFiles /\ stage' = "collected"
    BY <1>6 DEF EndSequence, work
  <2>2. FilesOK'
    BY <1>2, <2>1, FilesFrame
  <2>3. MainOK'
    BY <1>1, <1>3, <2>1 DEF MainOK
  <2> QED
    BY <1>1, <2>2, <2>3 DEF SInv
<1>7. CASE Reserve \/ Spawn \/ WorkToo
  <2>1. UNCHANGED <<my_file_index, next_file_index, sub_results>>
        /\ stage' \in {"spawn", "work", "failed", "terminated"}
    BY <1>7 DEF Reserve, Spawn, WorkToo, work, Unwound
  <2>2. MainOK'
    BY <2>1 DEF MainOK
  <2>3. \A w \in Worker : at'[w] = at[w] \/ (at[w] = "none" /\ at'[w] = "fetch")
    <3>1. CASE Reserve
      BY <3>1 DEF Reserve
    <3>2. CASE Spawn
      BY <1>1, <3>2 DEF Spawn
    <3>3. CASE WorkToo
      <4>1. at[1] = "none" /\ at' = [at EXCEPT ![1] = "fetch"]
        BY <1>1, <3>3 DEF WorkToo, StageOK
      <4> QED
        BY <1>1, <4>1
    <3> QED
      BY <1>7, <3>1, <3>2, <3>3
  <2>4. FilesOK'
    BY <1>2, <2>1, <2>3, FilesFrame DEF Holding
  <2> QED
    BY <1>1, <2>2, <2>4 DEF SInv
<1>8. CASE JoinAndCollect
  <2>1. /\ UNCHANGED <<at, my_file_index, next_file_index, sub_results>>
        /\ stage' = "collected" /\ Joined /\ benchmarks' = FlattenSeq(sub_results)
    BY <1>8 DEF JoinAndCollect, work
  <2>2. NumFiles < next_file_index /\ next_file_index \in Nat
    BY <1>1, <2>1 DEF Joined, FilesOK, Types
  <2>3. \A file \in 1 .. NumFiles : Done(file)
    BY <1>1, <2>1, <2>2 DEF Done, Held, Holding, Joined
  <2>4. \A file \in 1 .. NumFiles :
          /\ input_files[file] # "bad"
          /\ sub_results[file] = IF input_files[file] = "meta" THEN <<file>> ELSE <<>>
    BY <1>1, <2>3 DEF FilesOK
  <2>5. FlattenSeq(sub_results) = Sequential[NumFiles]
    BY <1>1, <2>4, SlotsJoined DEF IInv, SlotsOK
  <2>6. MainOK'
    BY <1>3, <2>1, <2>4, <2>5 DEF MainOK
  <2>7. FilesOK'
    BY <1>2, <2>1, FilesFrame
  <2> QED
    BY <1>1, <2>6, <2>7 DEF SInv
<1>9. CASE Save
  <2>1. UNCHANGED <<at, my_file_index, next_file_index, sub_results, benchmarks>>
        /\ stage = "collected" /\ stage' = "saved"
    BY <1>9 DEF Save, work
  <2>2. FilesOK'
    BY <1>2, <2>1, FilesFrame
  <2>3. MainOK'
    BY <1>1, <1>3, <2>1 DEF MainOK
  <2> QED
    BY <1>1, <2>2, <2>3 DEF SInv
<1>10. ASSUME NEW w \in Worker, WorkerStep(w) PROVE SInv'
  <2>1. FilesOK'
    BY <1>10, FetchFiles, LookFiles, ProcessFiles DEF WorkerStep
  <2>2. stage \in {"spawn", "work"}
    <3>1. Running /\ at[w] \in {"fetch", "look", "process"}
      BY <1>10 DEF WorkerStep, Fetch, Look, Process
    <3> QED
      BY <1>1, <3>1 DEF StageOK, Types, Running
  <2>3. stage' \in {"spawn", "work", "failed", "terminated"}
    BY <1>10, <2>2 DEF WorkerStep, Fetch, Look, Process, Unwound
  <2>4. MainOK'
    BY <2>3 DEF MainOK
  <2> QED
    BY <1>1, <2>1, <2>4 DEF SInv
<1>11. CASE UNCHANGED vars
  <2>1. UNCHANGED <<at, my_file_index, next_file_index, sub_results, stage, benchmarks>>
    BY <1>11 DEF vars
  <2>2. FilesOK'
    BY <1>2, <2>1, FilesFrame
  <2>3. MainOK'
    BY <1>1, <1>3, <2>1 DEF MainOK
  <2> QED
    BY <1>1, <2>2, <2>3 DEF SInv
<1> QED
  BY <1>4, <1>5, <1>6, <1>7, <1>8, <1>9, <1>10, <1>11 DEF Next, Main

(* However many workers there are and however fast each of them is, what is *)
(* saved is what one job saves: the results of all files, once, in their    *)
(* order; and nothing is saved if a file could not be processed.            *)
THEOREM PoolIsSequential == Spec => []SameAsSequential
<1>1. SInv => SameAsSequential
  BY DEF SInv, MainOK, SameAsSequential
<1> QED
  BY <1>1, InitSInv, SInvStep, PTL DEF Spec
=============================================================================
