-------------------------- MODULE IterationTheorems --------------------------
(***************************************************************************)
(* Induction over natural numbers, stated for sets, and what follows of    *)
(* functions that are defined recursively on an initial segment of them:   *)
(* they exist, and they stay in the set their steps stay in.  FlattenSeq   *)
(* is one of them.                                                         *)
(***************************************************************************)
EXTENDS Integers, SequencesExt, SequenceTheorems, TLAPS, WellFoundedInduction

(* Sets of numbers that contain 0 and, with each number, the next one. *)
LEMMA AllNaturals ==
  ASSUME NEW S \in SUBSET Nat, 0 \in S, \A n \in S : n + 1 \in S
  PROVE  S = Nat
  <1> SUFFICES ASSUME Nat \ S # {} PROVE FALSE
    OBVIOUS
  <1> DEFINE R == OpToRel(<, Nat)
  <1>1. IsWellFoundedOn(R, Nat)
    BY NatLessThanWellFounded
  <1>2. \A x, y \in Nat : y < x => <<y, x>> \in R
    BY DEF OpToRel
  <1> HIDE DEF R
  <1>3. PICK x \in Nat \ S : \A y \in Nat \ S : <<y, x>> \notin R
    BY <1>1, WFMin
  <1>4. x # 0 /\ x - 1 \in Nat
    OBVIOUS
  <1>5. x - 1 \in S
    <2> DEFINE y == x - 1
    <2>1. y \in Nat /\ y < x /\ x \in Nat
      BY <1>4
    <2> HIDE DEF y
    <2>2. <<y, x>> \in R
      BY <1>2, <2>1
    <2>3. y \in S
      BY <1>3, <2>1, <2>2
    <2> QED
      BY <2>3 DEF y
  <1>6. (x - 1) + 1 = x
    OBVIOUS
  <1> QED
    BY <1>5, <1>6

(* f begins with x and takes the k-th of the steps at k. *)
Follows(T, steps, x, m, f) ==
  /\ f \in [0..m -> T]
  /\ f[0] = x
  /\ \A k \in 1..m : f[k] = steps[k][f[k - 1]]

LEMMA FollowsExist ==
  ASSUME NEW T, NEW steps \in [Nat -> [T -> T]], NEW x \in T, NEW m \in Nat
  PROVE  \E f : Follows(T, steps, x, m, f)
  <1> DEFINE S == {i \in Nat : \E f : Follows(T, steps, x, i, f)}
  <1>1. 0 \in S
    <2> DEFINE f == [k \in 0..0 |-> x]
    <2>1. Follows(T, steps, x, 0, f)
      BY DEF Follows
    <2> QED
      BY <2>1
  <1>2. ASSUME NEW i \in S PROVE i + 1 \in S
    <2>1. PICK f : Follows(T, steps, x, i, f)
      BY <1>2
    <2>2. i \in Nat /\ i + 1 \in Nat
      BY <1>2
    <2> DEFINE g == [k \in 0..(i + 1) |-> IF k = i + 1 THEN steps[i + 1][f[i]] ELSE f[k]]
    <2>3. f[i] \in T /\ f[0] = x /\ (\A k \in 0..i : f[k] \in T) /\ steps[i + 1] \in [T -> T]
      BY <2>1, <2>2 DEF Follows
    <2>4. g \in [0..(i + 1) -> T] /\ g[0] = x
      BY <2>2, <2>3
    <2>5. ASSUME NEW k \in 1..(i + 1) PROVE g[k] = steps[k][g[k - 1]]
      <3>1. k - 1 \in 0..(i + 1) /\ k - 1 # i + 1 /\ k \in 0..(i + 1)
        BY <2>2
      <3>2. g[k - 1] = f[k - 1]
        BY <3>1
      <3>3. CASE k = i + 1
        BY <2>2, <3>1, <3>2, <3>3
      <3>4. CASE k # i + 1
        <4>1. k \in 1..i
          BY <2>2, <3>4
        <4>2. f[k] = steps[k][f[k - 1]]
          BY <2>1, <4>1 DEF Follows
        <4> QED
          BY <3>1, <3>2, <3>4, <4>2
      <3> QED
        BY <3>3, <3>4
    <2> HIDE DEF g
    <2>6. Follows(T, steps, x, i + 1, g)
      BY <2>4, <2>5 DEF Follows
    <2> QED
      BY <2>2, <2>6
  <1> HIDE DEF S
  <1>3. S \in SUBSET Nat
    BY DEF S
  <1>4. S = Nat
    BY <1>1, <1>2, <1>3, AllNaturals
  <1> QED
    BY <1>4 DEF S

(* A function that takes each step from a value in T never leaves T. *)
LEMMA FollowsStay ==
  ASSUME NEW T, NEW steps \in [Nat -> [T -> T]], NEW x \in T, NEW m \in Nat, NEW g,
         g = [k \in 0..m |-> g[k]], g[0] = x,
         \A k \in 1..m : g[k - 1] \in T => g[k] = steps[k][g[k - 1]]
  PROVE  Follows(T, steps, x, m, g)
  <1> DEFINE S == {i \in Nat : i <= m => g[i] \in T}
  <1>1. 0 \in S
    OBVIOUS
  <1>2. ASSUME NEW i \in S PROVE i + 1 \in S
    <2>1. i \in Nat /\ i + 1 \in Nat
      BY <1>2
    <2>2. ASSUME i + 1 <= m PROVE g[i + 1] \in T
      <3>1. PICK j : j = i + 1
        OBVIOUS
      <3>2. j \in 1..m /\ j - 1 = i /\ i <= m
        BY <2>1, <2>2, <3>1
      <3>3. i <= m => g[i] \in T
        BY <1>2
      <3>4. g[j - 1] \in T /\ steps[j] \in [T -> T]
        BY <2>1, <3>1, <3>2, <3>3
      <3>5. g[j] = steps[j][g[j - 1]]
        BY <3>2, <3>4
      <3> QED
        BY <3>1, <3>4, <3>5
    <2> QED
      BY <2>1, <2>2
  <1> HIDE DEF S
  <1>3. S \in SUBSET Nat
    BY DEF S
  <1>4. S = Nat
    BY <1>1, <1>2, <1>3, AllNaturals
  <1>5. \A k \in 0..m : g[k] \in T
    BY <1>4 DEF S
  <1>6. g \in [0..m -> T]
    BY <1>5
  <1>7. \A k \in 1..m : k - 1 \in 0..m
    OBVIOUS
  <1> QED
    BY <1>5, <1>6, <1>7 DEF Follows

(* f is what applying step over and over to x makes of it. *)
Iterates(T, step, x, m, f) ==
  /\ f \in [0..m -> T]
  /\ f[0] = x
  /\ \A k \in 1..m : f[k] = step[f[k - 1]]

LEMMA IteratesExist ==
  ASSUME NEW T, NEW step \in [T -> T], NEW x \in T, NEW m \in Nat
  PROVE  \E f : Iterates(T, step, x, m, f)
  <1>1. PICK steps : steps = [k \in Nat |-> step]
    OBVIOUS
  <1>2. steps \in [Nat -> [T -> T]] /\ \A k \in 1..m : steps[k] = step
    BY <1>1
  <1>3. PICK f : Follows(T, steps, x, m, f)
    BY <1>2, FollowsExist
  <1>4. Iterates(T, step, x, m, f)
    BY <1>2, <1>3 DEF Iterates, Follows
  <1> QED
    BY <1>4

LEMMA IteratesStay ==
  ASSUME NEW T, NEW step \in [T -> T], NEW x \in T, NEW m \in Nat, NEW g,
         g = [k \in 0..m |-> g[k]], g[0] = x,
         \A k \in 1..m : g[k - 1] \in T => g[k] = step[g[k - 1]]
  PROVE  Iterates(T, step, x, m, g)
  <1>1. PICK steps : steps = [k \in Nat |-> step]
    OBVIOUS
  <1>2. steps \in [Nat -> [T -> T]] /\ \A k \in 1..m : steps[k] = step
    BY <1>1
  <1>3. \A k \in 1..m : g[k - 1] \in T => g[k] = steps[k][g[k - 1]]
    BY <1>2
  <1>4. Follows(T, steps, x, m, g)
    BY <1>2, <1>3, FollowsStay
  <1> QED
    BY <1>2, <1>4 DEF Iterates, Follows

(* Of any numbers, one is the least. *)
LEMMA LeastNumber ==
  ASSUME NEW S \in SUBSET Nat, NEW n \in S
  PROVE  \E k \in S : \A j \in S : k <= j
  <1> SUFFICES ASSUME \A k \in S : \E j \in S : ~(k <= j)
               PROVE  FALSE
    OBVIOUS
  <1> DEFINE T == {i \in Nat : \A k \in S : i < k}
  <1>1. 0 \in T
    OBVIOUS
  <1>2. \A i \in T : i + 1 \in T
    OBVIOUS
  <1> HIDE DEF T
  <1>3. T \in SUBSET Nat
    BY DEF T
  <1>4. T = Nat
    BY <1>1, <1>2, <1>3, AllNaturals
  <1> QED
    BY <1>4 DEF T

(* Sequences joined one after the other: what FlattenSeq makes of them.    *)
LEMMA Flattened ==
  ASSUME NEW T, NEW N \in Nat, NEW q \in [1 .. N -> Seq(T)],
         NEW F \in [0 .. N -> Seq(T)], F[0] = <<>>,
         \A k \in 1 .. N : F[k] = F[k - 1] \o q[k]
  PROVE  FlattenSeq(q) = F[N]
<1>1. q \in Seq(Seq(T)) /\ Len(q) = N
  BY IsASeq
<1>2. CASE N = 0
  <2>1. q = <<>>
    BY <1>1, <1>2, EmptySeq
  <2> QED
    BY <1>1, <1>2, <2>1 DEF FlattenSeq
<1>3. CASE N # 0
  <2> DEFINE Def(g) == [i \in 1 .. Len(q) |-> IF i = 1 THEN q[i] ELSE g[i - 1] \o q[i]]
             h == CHOOSE g : g = Def(g)
             p == [i \in 1 .. N |-> F[i]]
  <2>1. FlattenSeq(q) = h[N]
    BY <1>1, <1>3 DEF FlattenSeq
  <2> HIDE DEF h
  <2>2. p = Def(p)
    <3>1. F[1] = q[1]
      <4>1. 1 \in 1 .. N /\ 1 - 1 = 0
        BY <1>3
      <4>2. F[1] = <<>> \o q[1]
        BY <4>1
      <4>3. q[1] \in Seq(T)
        BY <4>1
      <4> QED
        BY <4>2, <4>3, ConcatEmptySeq
    <3>2. \A i \in 1 .. N : i # 1 => i - 1 \in 1 .. N
      OBVIOUS
    <3>3. \A i \in 1 .. N : p[i] = IF i = 1 THEN q[i] ELSE p[i - 1] \o q[i]
      BY <3>1, <3>2
    <3> HIDE DEF p
    <3>4. p = [i \in 1 .. N |-> p[i]]
      BY DEF p
    <3> QED
      BY <1>1, <3>3, <3>4
  <2> HIDE DEF Def
  <2>3. h = Def(h)
    BY <2>2 DEF h
  <2>4. \A i \in 1 .. N : h[i] = IF i = 1 THEN q[i] ELSE h[i - 1] \o q[i]
    BY <1>1, <2>3 DEF Def
  <2> DEFINE S == {i \in Nat : i + 1 <= N => h[i + 1] = F[i + 1]}
  <2>5. 0 \in S
    <3>1. 1 \in 1 .. N
      BY <1>3
    <3>2. h[1] = q[1] /\ p[1] = F[1]
      BY <2>4, <3>1
    <3>3. p[1] = q[1]
      BY <1>1, <2>2, <3>1 DEF Def
    <3> QED
      BY <3>2, <3>3
  <2>6. ASSUME NEW i \in S PROVE i + 1 \in S
    <3>1. i \in Nat /\ i + 1 \in Nat
      BY <2>6
    <3>2. ASSUME (i + 1) + 1 <= N PROVE h[(i + 1) + 1] = F[(i + 1) + 1]
      <4>1. PICK j, k : j = i + 1 /\ k = (i + 1) + 1
        OBVIOUS
      <4>2. k \in 1 .. N /\ k # 1 /\ k - 1 = j /\ j <= N /\ i + 1 <= N
        BY <3>1, <3>2, <4>1
      <4>3. h[j] = F[j]
        BY <2>6, <4>1, <4>2
      <4>4. h[k] = h[k - 1] \o q[k] /\ F[k] = F[k - 1] \o q[k]
        BY <2>4, <4>2
      <4> QED
        BY <4>1, <4>2, <4>3, <4>4
    <3> QED
      BY <3>1, <3>2
  <2> HIDE DEF S
  <2>7. S \in SUBSET Nat
    BY DEF S
  <2>8. S = Nat
    BY <2>5, <2>6, <2>7, AllNaturals
  <2>9. N - 1 \in Nat /\ (N - 1) + 1 = N
    BY <1>3
  <2>10. \A i \in Nat : i + 1 <= N => h[i + 1] = F[i + 1]
    BY <2>8 DEF S
  <2> QED
    <3>1. PICK i : i = N - 1
      OBVIOUS
    <3>2. i \in Nat /\ i + 1 = N
      BY <2>9, <3>1
    <3>3. h[i + 1] = F[i + 1]
      BY <2>10, <3>2
    <3> QED
      BY <2>1, <3>2, <3>3
<1> QED
  BY <1>2, <1>3
=============================================================================
