---------------------------- MODULE NaturalSets ----------------------------
(***************************************************************************)
(* What the proofs about searches, stacks, sums and chunks share: a set of *)
(* naturals has a least member, one that is bounded has a greatest, and    *)
(* one that has 0 and the successor of each of its members is all of Nat.  *)
(* That last is induction, stated of sets: to show something of every      *)
(* natural, show that those it holds of are such a set.  From it, that a   *)
(* recursive function of the numbers up to m exists and has its type.      *)
(***************************************************************************)
EXTENDS Integers, WellFoundedInduction, TLAPS

LEMMA LeastNatural ==
    ASSUME NEW I \in SUBSET Nat, I # {}
    PROVE  \E x \in I : \A y \in I : x <= y
<1> DEFINE R == OpToRel(<, Nat)
<1>1. IsWellFoundedOn(R, Nat)
    BY Zenon, NatLessThanWellFounded
<1>2. PICK x \in I : \A y \in I : <<y, x>> \notin R
    BY <1>1, WFMin
<1>3. \A y \in I : y < x => <<y, x>> \in R
    BY Zenon DEF OpToRel
<1>4. \A y \in I : ~ (y < x)
    BY <1>2, <1>3
<1>5. \A y \in I : x <= y
    BY <1>4
<1> QED
    BY <1>5

LEMMA GreatestNatural ==
    ASSUME NEW n \in Nat, NEW I \in SUBSET (0..n), I # {}
    PROVE  \E x \in I : \A y \in I : y <= x
<1> DEFINE J == {j \in 0..n : n - j \in I}
<1>1. PICK j \in J : \A i \in J : j <= i
  <2>1. J \in SUBSET Nat
      OBVIOUS
  <2>2. \A i \in I : n - i \in J
      OBVIOUS
  <2>3. J # {}
      BY <2>2
  <2> HIDE DEF J
  <2> QED
      BY <2>1, <2>3, LeastNatural
<1>2. n - j \in I /\ j \in 0..n
    BY <1>1
<1>3. \A i \in I : i <= n - j
  <2> TAKE i \in I
  <2>1. n - i \in 0..n /\ n - (n - i) = i
      OBVIOUS
  <2>2. n - i \in J
      BY <2>1
  <2>3. j <= n - i
      BY <1>1, <2>2
  <2> QED
      BY <1>2, <2>1, <2>3
<1> QED
    BY <1>2, <1>3

LEMMA InductionOfSets ==
    ASSUME NEW S \in SUBSET Nat, 0 \in S, \A n \in S : n + 1 \in S
    PROVE  S = Nat
<1> SUFFICES ASSUME Nat \ S # {} PROVE FALSE
    OBVIOUS
<1>1. PICK x \in Nat \ S : \A y \in Nat \ S : x <= y
    BY LeastNatural
<1>2. x - 1 \in Nat /\ (x - 1) + 1 = x
    BY <1>1
<1>3. x - 1 \in S
    BY <1>1, <1>2
<1> QED
    BY <1>1, <1>2, <1>3

(* What is defined step by step: G[i] takes the value before i to the value *)
(* at i.  A recursive function of this form exists, and is of its type.    *)
IsChain(f, a, G, m) == f = [i \in 0..m |-> IF i = 0 THEN a ELSE G[i][f[i - 1]]]

LEMMA ChainsExist ==
    ASSUME NEW m \in Nat, NEW S, NEW a \in S, NEW G \in [1..m -> [S -> S]]
    PROVE  \E f \in [0..m -> S] : IsChain(f, a, G, m)
<1> DEFINE I == {n \in Nat : n <= m => \E f \in [0..n -> S] : IsChain(f, a, G, n)}
<1>1. 0 \in I
  <2>1. [i \in 0..0 |-> a] \in [0..0 -> S] /\ IsChain([i \in 0..0 |-> a], a, G, 0)
      BY DEF IsChain
  <2> QED
      BY <2>1
<1>2. ASSUME NEW n \in I PROVE n + 1 \in I
  <2> SUFFICES ASSUME n + 1 <= m PROVE \E g \in [0..n + 1 -> S] : IsChain(g, a, G, n + 1)
      OBVIOUS
  <2>1. PICK f \in [0..n -> S] : IsChain(f, a, G, n)
      OBVIOUS
  <2> DEFINE g == [i \in 0..n + 1 |-> IF i = n + 1 THEN G[n + 1][f[n]] ELSE f[i]]
  <2>2. n \in Nat /\ n + 1 \in 1..m /\ n \in 0..n /\ f[n] \in S
      BY <2>1
  <2>3. G[n + 1][f[n]] \in S
      BY <2>2
  <2>4. g \in [0..n + 1 -> S]
      BY <2>1, <2>2, <2>3
  <2>5. \A i \in 0..n + 1 : g[i] = IF i = 0 THEN a ELSE G[i][g[i - 1]]
    <3> TAKE i \in 0..n + 1
    <3>1. CASE i = n + 1
        BY <2>2, <3>1
    <3>2. CASE i # n + 1
      <4>1. i \in 0..n /\ (i # 0 => i - 1 \in 0..n + 1 /\ i - 1 # n + 1)
          BY <2>2, <3>2
      <4>2. f[i] = IF i = 0 THEN a ELSE G[i][f[i - 1]]
          BY <2>1, <4>1 DEF IsChain
      <4> QED
          BY <3>2, <4>1, <4>2
    <3> QED
        BY <3>1, <3>2
  <2>6. IsChain(g, a, G, n + 1)
    <3> HIDE DEF g
    <3> QED
        BY <2>4, <2>5 DEF IsChain
  <2> QED
      BY <2>4, <2>6
<1>3. I = Nat
    BY <1>1, <1>2, InductionOfSets
<1> QED
    BY <1>3

(* A function defined by recursion on what ranks lower exists and has its  *)
(* type: Phi takes a function to what its definition says of it, and at x  *)
(* looks only at what ranks below x.                                       *)
LooksBelow(Phi, D, V, rank) ==
    /\ Phi \in [[D -> V] -> [D -> V]]
    /\ \A x \in D : \A f, g \in [D -> V] :
          (\A y \in D : rank[y] < rank[x] => f[y] = g[y]) => Phi[f][x] = Phi[g][x]

LEMMA RecursionExists ==
    ASSUME NEW m \in Nat, NEW D, NEW rank \in [D -> 0..m], NEW V, NEW a \in V,
           NEW Phi, LooksBelow(Phi, D, V, rank)
    PROVE  \E f \in [D -> V] : f = Phi[f]
<1> USE DEF LooksBelow
<1> DEFINE F  == [D -> V]
           f0 == [x \in D |-> a]
           G  == [i \in 1..m + 2 |-> Phi]
<1>1. PICK c \in [0..m + 2 -> F] : IsChain(c, f0, G, m + 2)
  <2>1. f0 \in F /\ G \in [1..m + 2 -> [F -> F]] /\ m + 2 \in Nat
      OBVIOUS
  <2> HIDE DEF F, f0, G
  <2> QED
      BY <2>1, ChainsExist
<1>2. \A i \in 0..m + 1 : c[i + 1] = Phi[c[i]] /\ c[i] \in F
  <2> TAKE i \in 0..m + 1
  <2>1. i + 1 \in 0..m + 2 /\ i + 1 # 0 /\ (i + 1) - 1 = i /\ i + 1 \in 1..m + 2 /\ i \in 0..m + 2
      OBVIOUS
  <2>2. c[i + 1] = G[i + 1][c[(i + 1) - 1]]
      BY <1>1, <2>1 DEF IsChain
  <2> QED
      BY <1>1, <2>1, <2>2
<1> HIDE DEF F
<1> DEFINE Same(i, j) == \A x \in D : rank[x] < j => c[i + 1][x] = c[i][x]
           I == {j \in Nat : \A i \in 0..m + 1 : j <= i => Same(i, j)}
<1>3. 0 \in I
    OBVIOUS
<1>4. ASSUME NEW j \in I PROVE j + 1 \in I
  <2> SUFFICES ASSUME NEW i \in 0..m + 1, j + 1 <= i, NEW x \in D, rank[x] < j + 1
               PROVE  c[i + 1][x] = c[i][x]
      OBVIOUS
  <2>1. i - 1 \in 0..m + 1 /\ j <= i - 1 /\ (i - 1) + 1 = i
      OBVIOUS
  <2>2. Same(i - 1, j)
      BY <2>1
  <2>3. \A y \in D : rank[y] < rank[x] => c[i][y] = c[i - 1][y]
      BY <2>1, <2>2
  <2>4. c[i] \in [D -> V] /\ c[i - 1] \in [D -> V]
      BY <1>2, <2>1 DEF F
  <2>5. Phi[c[i]][x] = Phi[c[i - 1]][x]
      BY <2>3, <2>4
  <2>6. c[i + 1] = Phi[c[i]] /\ c[i] = Phi[c[i - 1]]
      BY <1>2, <2>1
  <2> QED
      BY <2>5, <2>6
<1>5. I = Nat
    BY <1>3, <1>4, InductionOfSets
<1>6. Same(m + 1, m + 1)
  <2>1. m + 1 \in Nat /\ m + 1 \in 0..m + 1 /\ m + 1 <= m + 1
      OBVIOUS
  <2>2. m + 1 \in I
    <3> HIDE DEF I
    <3> QED
        BY <1>5, <2>1
  <2> HIDE DEF Same
  <2> QED
      BY <2>1, <2>2
<1>7. c[m + 1] \in [D -> V] /\ Phi[c[m + 1]] \in [D -> V]
    BY <1>2 DEF F
<1>8. c[(m + 1) + 1] = Phi[c[m + 1]]
    BY <1>2
<1>9. \A x \in D : c[m + 1][x] = Phi[c[m + 1]][x]
    BY <1>6, <1>8
<1> QED
    BY <1>7, <1>9

(* A sum over the first m numbers: a function that is defined by what it   *)
(* is one before.                                                          *)
SumsUp(f, A, m) == f = [i \in 0..m |-> IF i = 0 THEN 0 ELSE f[i - 1] + A[i]]

LEMMA SumsExist ==
    ASSUME NEW m \in Nat, NEW A \in [1..m -> Int]
    PROVE  \E f \in [0..m -> Int] : SumsUp(f, A, m)
<1> DEFINE G == [i \in 1..m |-> [x \in Int |-> x + A[i]]]
<1>1. G \in [1..m -> [Int -> Int]]
    OBVIOUS
<1>2. PICK f \in [0..m -> Int] : IsChain(f, 0, G, m)
  <2>1. 0 \in Int
      OBVIOUS
  <2> HIDE DEF G
  <2> QED
      BY Zenon, <1>1, <2>1, ChainsExist
<1>3. \A i \in 0..m : f[i] = IF i = 0 THEN 0 ELSE f[i - 1] + A[i]
  <2> TAKE i \in 0..m
  <2>1. f[i] = IF i = 0 THEN 0 ELSE G[i][f[i - 1]]
      BY <1>2 DEF IsChain
  <2>2. i # 0 => i \in 1..m /\ f[i - 1] \in Int
      OBVIOUS
  <2> QED
      BY <2>1, <2>2
<1> QED
    BY <1>3 DEF SumsUp

(* Two sums of the same numbers up to n are the same up to n.              *)
LEMMA SumsAgree ==
    ASSUME NEW m \in Nat, NEW f, NEW A, SumsUp(f, A, m), NEW g, NEW B, SumsUp(g, B, m),
           NEW n \in 0..m, \A i \in 1..n : A[i] = B[i]
    PROVE  f[n] = g[n]
<1> DEFINE S == {k \in Nat : k <= n => f[k] = g[k]}
<1>1. \A i \in 0..m : /\ f[i] = IF i = 0 THEN 0 ELSE f[i - 1] + A[i]
                      /\ g[i] = IF i = 0 THEN 0 ELSE g[i - 1] + B[i]
    BY DEF SumsUp
<1>2. 0 \in S
    BY <1>1
<1>3. ASSUME NEW k \in S PROVE k + 1 \in S
  <2> SUFFICES ASSUME k + 1 <= n PROVE f[k + 1] = g[k + 1]
      OBVIOUS
  <2>1. k + 1 \in 0..m /\ k + 1 \in 1..n /\ (k + 1) - 1 = k /\ k + 1 # 0 /\ f[k] = g[k]
      OBVIOUS
  <2> QED
      BY <1>1, <2>1
<1>4. S = Nat
    BY <1>2, <1>3, InductionOfSets
<1> QED
    BY <1>4
=============================================================================
