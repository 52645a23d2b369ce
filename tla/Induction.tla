------------------------------ MODULE Induction ------------------------------
(* Induction over numbers, said of sets of numbers, and what it gives the    *)
(* proofs: a least number, and functions that are defined by recursion.      *)
EXTENDS Integers, WellFoundedInduction, TLAPS

(* A set of numbers has a least one.                                         *)
LEMMA LeastExists ==
  ASSUME NEW S, S \subseteq Nat, S # {}
  PROVE  \E x \in S : \A y \in S : x <= y
<1> DEFINE R == OpToRel(<, Nat)
<1>1. IsWellFoundedOn(R, Nat)
  BY NatLessThanWellFounded
<1> HIDE DEF R
<1>2. PICK x \in S : \A y \in S : ~ (<<y, x>> \in R)
  BY <1>1, WFMin
<1>3. \A y \in S : ~ (y < x)
  BY <1>2 DEF R, OpToRel
<1>4. QED
  BY <1>3

(* What 0 has, and n + 1 if n has it, every number has.                      *)
LEMMA SetInduction ==
  ASSUME NEW S, 0 \in S, \A n \in Nat : n \in S => n + 1 \in S
  PROVE  Nat \subseteq S
<1> SUFFICES ASSUME Nat \ S # {} PROVE FALSE
  OBVIOUS
<1>1. PICK x \in Nat \ S : \A y \in Nat \ S : x <= y
  BY LeastExists
<1>2. x - 1 \in Nat /\ x - 1 \in S
  BY <1>1
<1>3. (x - 1) + 1 \in S
  BY <1>2
<1>4. QED
  BY <1>1, <1>3

(* The same up to a bound.                                                   *)
LEMMA BoundedInduction ==
  ASSUME NEW m \in Nat, NEW S, 0 \in S,
         \A n \in 0..m-1 : n \in S => n + 1 \in S
  PROVE  0..m \subseteq S
<1> DEFINE T == {n \in Nat : n <= m => n \in S}
<1>1. 0 \in T
  OBVIOUS
<1>2. \A n \in Nat : n \in T => n + 1 \in T
  OBVIOUS
<1> HIDE DEF T
<1>3. Nat \subseteq T
  BY <1>1, <1>2, SetInduction
<1>4. QED
  BY <1>3 DEF T

-----------------------------------------------------------------------------
(* The beginnings, up to n, of what is defined by f[0] = a and               *)
(* f[k + 1] = step[k][f[k]].                                                 *)
Beginnings(S, a, step, n) ==
  {f \in [0..n -> S] : /\ f[0] = a
                       /\ \A k \in 0..n-1 : f[k + 1] = step[k][f[k]]}

LEMMA BeginningExists ==
  ASSUME NEW S, NEW a \in S, NEW step \in [Nat -> [S -> S]], NEW n \in Nat
  PROVE  Beginnings(S, a, step, n) # {}
<1> DEFINE N == {m \in Nat : Beginnings(S, a, step, m) # {}}
<1>1. 0 \in N
  <2> DEFINE f == [k \in 0..0 |-> a]
  <2>1. f \in [0..0 -> S] /\ f[0] = a /\ \A k \in 0..0-1 : FALSE
    OBVIOUS
  <2> HIDE DEF f
  <2>2. f \in Beginnings(S, a, step, 0)
    BY <2>1 DEF Beginnings
  <2>3. QED
    BY <2>2
<1>2. ASSUME NEW m \in Nat, m \in N PROVE m + 1 \in N
  <2>1. PICK g : g \in Beginnings(S, a, step, m)
    BY <1>2
  <2>2. /\ g \in [0..m -> S] /\ g[0] = a
        /\ \A k \in 0..m-1 : g[k + 1] = step[k][g[k]]
    BY <2>1 DEF Beginnings
  <2> DEFINE f == [k \in 0..m + 1 |-> IF k = m + 1 THEN step[m][g[m]] ELSE g[k]]
  <2>3. f \in [0..m + 1 -> S]
    <3>1. g[m] \in S /\ step[m] \in [S -> S]
      BY <2>2
    <3>2. step[m][g[m]] \in S
      BY <3>1
    <3>3. \A k \in 0..m + 1 : k # m + 1 => g[k] \in S
      BY <2>2
    <3>4. QED
      BY <3>2, <3>3
  <2>4. f[0] = a
    BY <2>2
  <2>5. ASSUME NEW k \in 0..m PROVE f[k + 1] = step[k][f[k]]
    <3>1. f[k] = g[k]
      OBVIOUS
    <3>2. CASE k = m
      BY <3>1, <3>2
    <3>3. CASE k # m
      <4>1. k \in 0..m-1 /\ f[k + 1] = g[k + 1]
        BY <3>3
      <4> HIDE DEF f
      <4>2. QED
        BY <2>2, <3>1, <4>1
    <3>4. QED
      BY <3>2, <3>3
  <2> HIDE DEF f
  <2>6. f \in Beginnings(S, a, step, m + 1)
    <3>1. (m + 1) - 1 = m
      OBVIOUS
    <3>2. QED
      BY <2>3, <2>4, <2>5, <3>1 DEF Beginnings
  <2>7. QED
    BY <2>6
<1> HIDE DEF N
<1>3. Nat \subseteq N
  BY <1>1, <1>2, SetInduction
<1>4. QED
  BY <1>3 DEF N

LEMMA BeginningsAgree ==
  ASSUME NEW S, NEW a \in S, NEW step \in [Nat -> [S -> S]],
         NEW m \in Nat, NEW n \in Nat, m <= n,
         NEW f \in Beginnings(S, a, step, m),
         NEW g \in Beginnings(S, a, step, n)
  PROVE  \A k \in 0..m : f[k] = g[k]
<1>1. /\ f[0] = a /\ \A k \in 0..m-1 : f[k + 1] = step[k][f[k]]
      /\ g[0] = a /\ \A k \in 0..n-1 : g[k + 1] = step[k][g[k]]
  BY DEF Beginnings
<1> DEFINE T == {k \in Nat : f[k] = g[k]}
<1>2. 0 \in T /\ \A k \in 0..m-1 : k \in T => k + 1 \in T
  BY <1>1
<1> HIDE DEF T
<1>3. 0..m \subseteq T
  BY <1>2, BoundedInduction
<1>4. QED
  BY <1>3 DEF T

(* What is defined by recursion over the numbers is a function.              *)
Steps(S) == [Nat -> [S -> S]]
IsRecursion(f, S, a, step) ==
  f \in [Nat -> S] /\ f[0] = a /\ \A k \in Nat : f[k + 1] = step[k][f[k]]

LEMMA RecursionExists ==
  ASSUME NEW S, NEW a \in S, NEW step \in Steps(S)
  PROVE  \E f : IsRecursion(f, S, a, step)
<1> DEFINE B(n) == Beginnings(S, a, step, n)
           pick(n) == CHOOSE g : g \in B(n)
           f == [n \in Nat |-> pick(n)[n]]
<1>1. step \in [Nat -> [S -> S]]
  BY DEF Steps
<1>2. \A n \in Nat : pick(n) \in B(n)
  BY <1>1, BeginningExists
<1>3. \A n \in Nat : /\ pick(n) \in [0..n -> S] /\ pick(n)[0] = a
                     /\ \A k \in 0..n-1 :
                          pick(n)[k + 1] = step[k][pick(n)[k]]
  BY <1>2 DEF Beginnings
<1> HIDE DEF pick
<1>4. f \in [Nat -> S] /\ f[0] = a
  BY <1>3
<1>5. ASSUME NEW k \in Nat PROVE f[k + 1] = step[k][f[k]]
  <2>1. pick(k) \in B(k) /\ pick(k + 1) \in B(k + 1)
    BY <1>2
  <2>2. pick(k)[k] = pick(k + 1)[k]
    BY <1>1, <2>1, BeginningsAgree
  <2>3. pick(k + 1)[k + 1] = step[k][pick(k + 1)[k]]
    BY <1>3
  <2>4. QED
    BY <2>2, <2>3
<1> HIDE DEF f
<1>6. IsRecursion(f, S, a, step)
  BY <1>4, <1>5 DEF IsRecursion
<1>7. QED
  BY <1>6

(* A function of 1..n + 1 that is defined by recursion.                     *)
IsDefinedTo(n, f, S, a, step) ==
  /\ f \in [1..n + 1 -> S] /\ f[1] = a
  /\ \A k \in 1..n : f[k + 1] = step[k][f[k]]

LEMMA FunctionExists ==
  ASSUME NEW S, NEW a \in S, NEW step \in Steps(S), NEW n \in Nat
  PROVE  \E f : IsDefinedTo(n, f, S, a, step)
<1>0. \A k \in Nat : step[k + 1] \in [S -> S]
  BY DEF Steps
<1> DEFINE later == [k \in Nat |-> step[k + 1]]
<1>1. later \in Steps(S) /\ \A k \in Nat : later[k] = step[k + 1]
  BY <1>0 DEF Steps
<1> HIDE DEF later
<1>2. PICK g : IsRecursion(g, S, a, later)
  BY <1>1, RecursionExists
<1>3. /\ g \in [Nat -> S] /\ g[0] = a
      /\ \A k \in Nat : g[k + 1] = step[k + 1][g[k]]
  BY <1>1, <1>2 DEF IsRecursion
<1> DEFINE f == [i \in 1..n + 1 |-> g[i - 1]]
<1>4. f \in [1..n + 1 -> S] /\ f[1] = a
  BY <1>3
<1>5. ASSUME NEW k \in 1..n PROVE f[k + 1] = step[k][f[k]]
  <2>1. k - 1 \in Nat /\ (k - 1) + 1 = k /\ (k + 1) - 1 = k
    OBVIOUS
  <2>2. g[(k - 1) + 1] = step[(k - 1) + 1][g[k - 1]]
    BY <1>3, <2>1
  <2>3. f[k + 1] = g[k] /\ f[k] = g[k - 1]
    BY <2>1
  <2> HIDE DEF f
  <2>4. QED
    BY <2>1, <2>2, <2>3
<1> HIDE DEF f
<1>6. IsDefinedTo(n, f, S, a, step)
  BY <1>4, <1>5 DEF IsDefinedTo
<1>7. QED
  BY <1>6
=============================================================================
