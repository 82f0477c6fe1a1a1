----------------------------- MODULE Recursion -----------------------------
(***************************************************************************)
(* Induction and recursion over the naturals without operator parameters:  *)
(* a set of naturals that is not empty has a least element, and a step     *)
(* function has a function of Nat that repeats it.                         *)
(***************************************************************************)
EXTENDS Integers, WellFoundedInduction, TLAPS

(* A set of naturals that has an element has a least one.                  *)
LEMMA LeastElement ==
  ASSUME NEW T \in SUBSET Nat, T # {}
  PROVE  \E n \in T : \A k \in T : n <= k
<1>1. IsWellFoundedOn(OpToRel(<, Nat), Nat)
  BY NatLessThanWellFounded
<1>2. PICK n \in T : \A k \in T : ~ (<<k, n>> \in OpToRel(<, Nat))
  BY <1>1, WFMin, Zenon
<1>3. ASSUME NEW k \in T PROVE n <= k
  <2>1. ~ (<<k, n>> \in OpToRel(<, Nat))
    BY <1>2
  <2>2. ~ (k < n)
    BY <2>1 DEF OpToRel
  <2>. QED
    BY <2>2
<1>. QED
  BY <1>2, <1>3

(* The beginnings of the function that starts with a and steps by G.       *)
Starts(S, a, G, n) ==
  {f \in [0..n -> S] : f[0] = a /\ \A k \in 0..(n - 1) : f[k + 1] = G[<<k, f[k]>>]}

(* The whole function.                                                     *)
Iterates(f, S, a, G) ==
  /\ f \in [Nat -> S]
  /\ f[0] = a
  /\ \A n \in Nat : f[n + 1] = G[<<n, f[n]>>]

(* Every step that stays in a set can be repeated from any element of it.  *)
THEOREM Iteration ==
  ASSUME NEW S, NEW a \in S, NEW G, G \in [Nat \X S -> S]
  PROVE  \E f : Iterates(f, S, a, G)
<1>1. \A n \in Nat : Starts(S, a, G, n) # {}
  <2>. DEFINE T == {n \in Nat : Starts(S, a, G, n) = {}}
  <2>. SUFFICES ASSUME T # {} PROVE FALSE
    OBVIOUS
  <2>1. PICK n \in T : \A k \in T : n <= k
    BY LeastElement
  <2>2. [k \in 0..0 |-> a] \in Starts(S, a, G, 0)
    BY DEF Starts
  <2>3. n # 0
    BY <2>2
  <2>4. n - 1 \in Nat /\ n - 1 \notin T
    BY <2>1, <2>3
  <2>5. PICK f : f \in Starts(S, a, G, n - 1)
    BY <2>4
  <2>. DEFINE g == [k \in 0..n |-> IF k = n THEN G[<<n - 1, f[n - 1]>>] ELSE f[k]]
  <2>6. g \in [0..n -> S]
    BY <2>4, <2>5 DEF Starts
  <2>7. g[0] = a
    BY <2>3, <2>5 DEF Starts
  <2>8. ASSUME NEW k \in 0..(n - 1) PROVE g[k + 1] = G[<<k, g[k]>>]
    <3>1. CASE k = n - 1
      <4>1. k + 1 = n /\ k + 1 \in 0..n /\ k \in 0..n /\ k # n
        BY <3>1, <2>4
      <4>2. g[k + 1] = G[<<n - 1, f[n - 1]>>]
        BY <4>1
      <4>3. g[k] = f[k]
        BY <4>1
      <4>. QED BY <4>2, <4>3, <3>1
    <3>2. CASE k # n - 1
      BY <3>2, <2>4, <2>5 DEF Starts
    <3>. QED BY <3>1, <3>2
  <2>9. g \in Starts(S, a, G, n)
    BY <2>6, <2>7, <2>8 DEF Starts
  <2>. QED
    BY <2>9
<1>2. ASSUME NEW n \in Nat, NEW m \in Nat, NEW f \in Starts(S, a, G, n), NEW g \in Starts(S, a, G, m),
             NEW k \in Nat, k <= n, k <= m
      PROVE  f[k] = g[k]
  <2>. DEFINE T == {j \in Nat : j <= n /\ j <= m /\ f[j] # g[j]}
  <2>. SUFFICES ASSUME T # {} PROVE FALSE
    BY <1>2
  <2>1. PICK j \in T : \A i \in T : j <= i
    BY LeastElement
  <2>2. j # 0
    BY DEF Starts
  <2>3. j - 1 \in Nat /\ j - 1 \notin T
    BY <2>1, <2>2
  <2>4. f[j - 1] = g[j - 1]
    BY <2>3
  <2>5. j - 1 \in 0..(n - 1) /\ j - 1 \in 0..(m - 1)
    BY <2>3
  <2>6. f[(j - 1) + 1] = G[<<j - 1, f[j - 1]>>] /\ g[(j - 1) + 1] = G[<<j - 1, g[j - 1]>>]
    BY <2>5 DEF Starts
  <2>. QED
    BY <2>4, <2>6
<1>. DEFINE start(n) == CHOOSE f : f \in Starts(S, a, G, n)
            F == [n \in Nat |-> start(n)[n]]
<1>3. ASSUME NEW n \in Nat PROVE start(n) \in Starts(S, a, G, n)
  BY <1>1
<1>4. F \in [Nat -> S]
  <2>. HIDE DEF start
  <2>1. ASSUME NEW n \in Nat PROVE start(n)[n] \in S
    <3>1. start(n) \in [0..n -> S] /\ n \in 0..n
      BY <1>3 DEF Starts
    <3>. QED BY <3>1
  <2>. QED BY <2>1
<1>5. F[0] = a
  BY <1>3 DEF Starts
<1>6. ASSUME NEW n \in Nat PROVE F[n + 1] = G[<<n, F[n]>>]
  <2>1. start(n + 1) \in Starts(S, a, G, n + 1) /\ start(n) \in Starts(S, a, G, n)
    BY <1>3
  <2>. HIDE DEF start
  <2>2. start(n + 1)[n + 1] = G[<<n, start(n + 1)[n]>>]
    BY <2>1 DEF Starts
  <2>3. start(n + 1)[n] = start(n)[n]
    BY <2>1, <1>2
  <2>. QED
    BY <2>2, <2>3
<1>. HIDE DEF F
<1>. QED
  BY <1>4, <1>5, <1>6 DEF Iterates

(* Induction up to a bound, over a set in place of a predicate.            *)
THEOREM Induction ==
  ASSUME NEW N \in Nat, NEW T, 0 \in T, \A k \in 0..(N - 1) : k \in T => k + 1 \in T
  PROVE  0..N \subseteq T
<1>. DEFINE B == {k \in 0..N : k \notin T}
<1>. SUFFICES ASSUME B # {} PROVE FALSE
  OBVIOUS
<1>1. PICK n \in B : \A k \in B : n <= k
  <2>1. B \in SUBSET Nat
    OBVIOUS
  <2>. HIDE DEF B
  <2>. QED BY <2>1, LeastElement
<1>2. n - 1 \in 0..(N - 1) /\ n - 1 \notin B
  BY <1>1
<1>3. (n - 1) + 1 \in T
  BY <1>2
<1>. QED
  BY <1>3

(* A recursive function of 0..N whose value at k is a step from the one at *)
(* k - 1.                                                                  *)
Repeats(f, N, S, a, G) ==
  /\ f \in [0..N -> S]
  /\ f = [k \in 0..N |-> IF k = 0 THEN a ELSE G[<<k, f[k - 1]>>]]

(* There is one, with its values in the set that the steps stay in.        *)
LEMMA BoundedIteration ==
  ASSUME NEW N \in Nat, NEW S, NEW a \in S, NEW G,
         \A k \in 1..N, s \in S : G[<<k, s>>] \in S
  PROVE  \E f : Repeats(f, N, S, a, G)
<1>. DEFINE H == [x \in Nat \X S |-> IF x[1] + 1 \in 1..N THEN G[<<x[1] + 1, x[2]>>] ELSE a]
<1>1. H \in [Nat \X S -> S]
  OBVIOUS
<1>2. PICK h \in [Nat -> S] : h[0] = a /\ \A n \in Nat : h[n + 1] = H[<<n, h[n]>>]
  <2>. HIDE DEF H
  <2>1. \E h : Iterates(h, S, a, H)
    BY <1>1, Iteration
  <2>. QED
    BY <2>1 DEF Iterates
<1>. DEFINE f == [k \in 0..N |-> h[k]]
<1>3. ASSUME NEW k \in 1..N PROVE f[k] = G[<<k, f[k - 1]>>]
  <2>1. k - 1 \in Nat /\ k - 1 \in 0..N /\ (k - 1) + 1 = k
    OBVIOUS
  <2>2. h[k] = H[<<k - 1, h[k - 1]>>]
    BY <1>2, <2>1
  <2>3. H[<<k - 1, h[k - 1]>>] = G[<<k, h[k - 1]>>]
    BY <2>1, <1>2
  <2>. QED
    BY <2>1, <2>2, <2>3
<1>4. f \in [0..N -> S]
  BY <1>2
<1>5. f[0] = a
  BY <1>2
<1>6. f = [k \in 0..N |-> IF k = 0 THEN a ELSE G[<<k, f[k - 1]>>]]
  <2>. HIDE DEF f
  <2>1. ASSUME NEW k \in 0..N PROVE f[k] = IF k = 0 THEN a ELSE G[<<k, f[k - 1]>>]
    BY <1>3, <1>5
  <2>. QED
    BY <1>4, <2>1
<1>. QED
  BY <1>4, <1>6 DEF Repeats
=============================================================================
