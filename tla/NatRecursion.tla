---------------------------- MODULE NatRecursion ----------------------------
(***************************************************************************)
(* Induction and recursion over the natural numbers, for proofs about what *)
(* the loops of the program compute.  The library states them with         *)
(* operators as parameters; here they are about sets and functions.        *)
(***************************************************************************)
EXTENDS Integers, FiniteSetTheorems, WellFoundedInduction, TLAPS

\* A set of natural numbers that is not empty has a least element.
LEMMA LeastNat ==
    ASSUME NEW T \in SUBSET Nat, T # {}
    PROVE  \E n \in T : \A m \in T : n <= m
<1> DEFINE I == {0 .. n : n \in T}
<1>1. I \subseteq FiniteSubsetsOf(Nat)
  <2>1. ASSUME NEW n \in T  PROVE 0 .. n \in FiniteSubsetsOf(Nat)
    <3>1. 0 .. n \in SUBSET Nat /\ IsFiniteSet(0 .. n)
      BY FS_Interval
    <3> QED  BY <3>1 DEF FiniteSubsetsOf
  <2> QED  BY <2>1
<1>2. I # {}
  OBVIOUS
<1>3. IsWellFoundedOn(StrictSubsetOrdering(Nat), FiniteSubsetsOf(Nat))
  BY FS_StrictSubsetOrderingWellFounded
<1>4. PICK x \in I : \A y \in I : <<y, x>> \notin StrictSubsetOrdering(Nat)
  <2> HIDE DEF I
  <2> QED  BY <1>1, <1>2, <1>3, WFMin
<1>5. PICK n \in T : x = 0 .. n
  OBVIOUS
<1>6. ASSUME NEW m \in T, m < n  PROVE FALSE
  <2>1. n \in 0 .. n /\ n \notin 0 .. m /\ 0 .. m \subseteq 0 .. n
    BY <1>6
  <2>2. <<0 .. m, 0 .. n>> \in StrictSubsetOrdering(Nat)
    BY <2>1 DEF StrictSubsetOrdering
  <2> QED  BY <1>4, <1>5, <2>2
<1> QED  BY <1>6

\* Induction: a set with 0 and every successor has every natural number.
LEMMA NatInd ==
    ASSUME NEW T \in SUBSET Nat, 0 \in T, \A n \in T : n + 1 \in T
    PROVE  T = Nat
<1> SUFFICES ASSUME Nat \ T # {}  PROVE FALSE
  OBVIOUS
<1>1. PICK n \in Nat \ T : \A m \in Nat \ T : n <= m
  BY LeastNat
<1>2. n # 0 /\ n - 1 \in Nat
  BY <1>1
<1>3. n - 1 \in T
  BY <1>1, <1>2
<1> QED  BY <1>1, <1>2, <1>3

\* The first k + 1 values of the sequence that starts with a and goes on by G.
Unrolls(p, k, a, G) ==
    /\ DOMAIN p = 0 .. k
    /\ p[0] = a
    /\ \A n \in Nat : n < k => p[n + 1] = G[<<p[n], n>>]

\* Two such prefixes agree as far as both go.
LEMMA PrefixesAgree ==
    ASSUME NEW a, NEW G, NEW k \in Nat, NEW l \in Nat, NEW p, NEW q,
           Unrolls(p, k, a, G), Unrolls(q, l, a, G)
    PROVE  \A n \in Nat : n <= k /\ n <= l => p[n] = q[n]
<1> DEFINE T == {n \in Nat : n <= k /\ n <= l => p[n] = q[n]}
<1>1. 0 \in T
  BY DEF Unrolls
<1>2. ASSUME NEW n \in T  PROVE n + 1 \in T
  <2>1. ASSUME n + 1 <= k, n + 1 <= l  PROVE p[n + 1] = q[n + 1]
    <3>1. p[n] = q[n]
      BY <2>1
    <3>2. p[n + 1] = G[<<p[n], n>>] /\ q[n + 1] = G[<<q[n], n>>]
      BY <2>1 DEF Unrolls
    <3> QED  BY <3>1, <3>2
  <2> QED  BY <2>1
<1>3. T = Nat
  <2> HIDE DEF T
  <2> QED  BY <1>1, <1>2, NatInd DEF T
<1> QED  BY <1>3

\* The sequence itself.
Follows(f, a, G) == f[0] = a /\ \A n \in Nat : f[n + 1] = G[<<f[n], n>>]

\* Primitive recursion: the sequence exists.
LEMMA PrimRec ==
    ASSUME NEW S, NEW a \in S, NEW G \in [S \X Nat -> S]
    PROVE  \E f \in [Nat -> S] : Follows(f, a, G)
<1> DEFINE T == {k \in Nat : \E p : Unrolls(p, k, a, G)}
<1>1. 0 \in T
  <2>1. Unrolls([n \in 0 .. 0 |-> a], 0, a, G)
    BY DEF Unrolls
  <2> QED  BY <2>1
<1>2. ASSUME NEW k \in T  PROVE k + 1 \in T
  <2>1. PICK p : Unrolls(p, k, a, G)
    OBVIOUS
  <2> DEFINE q == [n \in 0 .. k + 1 |-> IF n = k + 1 THEN G[<<p[k], k>>] ELSE p[n]]
  <2>2. DOMAIN q = 0 .. k + 1 /\ q[k + 1] = G[<<p[k], k>>]
        /\ \A n \in 0 .. k : q[n] = p[n]
    OBVIOUS
  <2> HIDE DEF q
  <2>3. ASSUME NEW n \in Nat, n < k + 1  PROVE q[n + 1] = G[<<q[n], n>>]
    <3>1. CASE n = k
      BY <2>2, <3>1
    <3>2. CASE n < k
      <4>1. p[n + 1] = G[<<p[n], n>>]
        BY <2>1, <3>2 DEF Unrolls
      <4> QED  BY <2>2, <3>2, <4>1
    <3> QED  BY <2>3, <3>1, <3>2
  <2>4. q[0] = a
    BY <2>1, <2>2 DEF Unrolls
  <2>5. Unrolls(q, k + 1, a, G)
    BY <2>2, <2>3, <2>4 DEF Unrolls
  <2> QED  BY <2>5
<1>3. T = Nat
  <2> HIDE DEF T
  <2> QED  BY <1>1, <1>2, NatInd DEF T
<1> DEFINE F == [k \in Nat |-> CHOOSE p : Unrolls(p, k, a, G)]
           f == [n \in Nat |-> F[n][n]]
<1>4. \A k \in Nat : Unrolls(F[k], k, a, G)
  BY <1>3
<1> HIDE DEF F
<1>5. f[0] = a
  BY <1>4 DEF Unrolls
<1>6. ASSUME NEW n \in Nat  PROVE f[n + 1] = G[<<f[n], n>>]
  <2>1. Unrolls(F[n], n, a, G) /\ Unrolls(F[n + 1], n + 1, a, G)
    BY <1>4
  <2>2. F[n][n] = F[n + 1][n]
    <3>1. \A j \in Nat : j <= n /\ j <= n + 1 => F[n][j] = F[n + 1][j]
      <4> DEFINE m == n + 1  p == F[n]  q == F[m]
      <4>1. n \in Nat /\ m \in Nat /\ Unrolls(p, n, a, G) /\ Unrolls(q, m, a, G)
        BY <2>1
      <4> HIDE DEF m, p, q
      <4>2. \A j \in Nat : j <= n /\ j <= m => p[j] = q[j]
        BY <4>1, PrefixesAgree
      <4> QED  BY <4>2 DEF m, p, q
    <3> QED  BY <3>1
  <2>3. F[n + 1][n + 1] = G[<<F[n + 1][n], n>>]
    BY <2>1 DEF Unrolls
  <2> QED  BY <2>2, <2>3
<1>7. f = [n \in Nat |-> f[n]]
  OBVIOUS
<1> HIDE DEF f
<1>8. \A n \in Nat : f[n] \in S
  <2> DEFINE U == {n \in Nat : f[n] \in S}
  <2>1. 0 \in U
    BY <1>5
  <2>2. ASSUME NEW n \in U  PROVE n + 1 \in U
    <3>1. n \in Nat /\ <<f[n], n>> \in S \X Nat
      OBVIOUS
    <3>2. f[n + 1] = G[<<f[n], n>>] /\ G[<<f[n], n>>] \in S
      BY <1>6, <3>1
    <3> QED  BY <3>1, <3>2
  <2>3. U = Nat
    <3> HIDE DEF U
    <3> QED  BY <2>1, <2>2, NatInd DEF U
  <2> QED  BY <2>3
<1>9. f \in [Nat -> S]
  BY <1>7, <1>8
<1>10. Follows(f, a, G)
  BY <1>5, <1>6 DEF Follows
<1> QED  BY <1>9, <1>10
=============================================================================
