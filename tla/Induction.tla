------------------------------ MODULE Induction ------------------------------
(***************************************************************************)
(* Induction over the natural numbers and recursion along them, stated     *)
(* with sets and functions, for the proofs about argument vectors, texts   *)
(* and documents of any length.                                            *)
(***************************************************************************)
EXTENDS Integers, WellFoundedInduction, TLAPS

\* A set of natural numbers that is not empty has a least element.
LEMMA LeastElement ==
    ASSUME NEW T, T \subseteq Nat, T # {}
    PROVE  \E m \in T : \A k \in T : m <= k
<1> DEFINE R == OpToRel(<, Nat)
<1>1. IsWellFoundedOn(R, Nat)
  BY NatLessThanWellFounded
<1>2. PICK m \in T : \A k \in T : <<k, m>> \notin R
  <2> HIDE DEF R
  <2> QED
    BY <1>1, WFMin
<1>3. \A k \in T : ~(k < m)
  BY <1>2 DEF OpToRel
<1> HIDE DEF R
<1>4. \A k \in T : m <= k
  BY <1>3
<1> QED
  BY <1>4

\* A set of natural numbers below a bound has a greatest element.
LEMMA GreatestElement ==
    ASSUME NEW n \in Nat, NEW T, T \subseteq 0 .. n, T # {}
    PROVE  \E m \in T : \A k \in T : k <= m
<1> DEFINE U == {u \in 0 .. n : n - u \in T}
<1>1. U \subseteq Nat
  OBVIOUS
<1>2. U # {}
  <2>1. PICK t \in T : TRUE
    OBVIOUS
  <2>2. n - t \in U
    BY <2>1
  <2> QED
    BY <2>2
<1>3. PICK u \in U : \A k \in U : u <= k
  <2> HIDE DEF U
  <2> QED
    BY <1>1, <1>2, LeastElement
<1>4. \A k \in T : n - k \in U
  OBVIOUS
<1>5. u \in 0 .. n /\ n - u \in T
  BY <1>3
<1>6. \A k \in T : k \in 0 .. n /\ u <= n - k
  <2> HIDE DEF U
  <2> QED
    BY <1>3, <1>4
<1>7. \A k \in T : k <= n - u
  BY <1>5, <1>6
<1> HIDE DEF U
<1> QED
  BY <1>5, <1>7

\* Induction: a set with 0 in it, and with n + 1 whenever n is in it, has
\* every natural number in it.
LEMMA SetInduction ==
    ASSUME NEW S, 0 \in S, \A n \in Nat : n \in S => n + 1 \in S
    PROVE  \A n \in Nat : n \in S
<1> SUFFICES ASSUME NEW n \in Nat, n \notin S PROVE FALSE
  OBVIOUS
<1> DEFINE T == Nat \ S
<1>1. T \subseteq Nat /\ T # {}
  OBVIOUS
<1>2. PICK m \in T : \A k \in T : m <= k
  <2> HIDE DEF T
  <2> QED
    BY <1>1, LeastElement
<1>3. m # 0 /\ m - 1 \in Nat
  BY <1>2
<1>4. m - 1 \in S
  BY <1>2, <1>3
<1> QED
  BY <1>2, <1>3, <1>4

\* The same up to a bound.
LEMMA BoundedInduction ==
    ASSUME NEW b \in Nat, NEW S, 0 \in S, \A n \in 0 .. b - 1 : n \in S => n + 1 \in S
    PROVE  \A n \in 0 .. b : n \in S
<1> DEFINE U == {n \in Nat : n <= b => n \in S}
<1>1. 0 \in U
  OBVIOUS
<1>2. \A n \in Nat : n \in U => n + 1 \in U
  OBVIOUS
<1>3. \A n \in Nat : n \in U
  <2> HIDE DEF U
  <2> QED
    BY <1>1, <1>2, SetInduction
<1> QED
  BY <1>3

\* Downwards from a bound.
LEMMA DownwardInduction ==
    ASSUME NEW b \in Nat, NEW S, b \in S, \A n \in 1 .. b : n \in S => n - 1 \in S
    PROVE  \A n \in 0 .. b : n \in S
<1> DEFINE U == {n \in 0 .. b : b - n \in S}
<1>1. 0 \in U
  OBVIOUS
<1>2. \A n \in 0 .. b - 1 : n \in U => n + 1 \in U
  <2> SUFFICES ASSUME NEW n \in 0 .. b - 1, n \in U PROVE n + 1 \in U
    OBVIOUS
  <2>1. b - n \in 1 .. b /\ b - n \in S /\ (b - n) - 1 = b - (n + 1)
    OBVIOUS
  <2> QED
    BY <2>1
<1>3. \A n \in 0 .. b : n \in U
  <2> HIDE DEF U
  <2> QED
    BY <1>1, <1>2, BoundedInduction
<1> SUFFICES ASSUME NEW n \in 0 .. b PROVE n \in S
  OBVIOUS
<1>4. b - n \in U /\ b - (b - n) = n
  BY <1>3
<1> QED
  BY <1>4

\* The functions on 0 .. n that begin with base and make each value out of the
\* one before it.
Iterates(S, base, n, step) ==
    {f \in [0 .. n -> S] : f[0] = base /\ \A i \in 1 .. n : f[i] = step[i][f[i - 1]]}

\* Recursion along 0 .. n: there is one.
LEMMA PrimitiveRecursion ==
    ASSUME NEW S, NEW base \in S, NEW n \in Nat, NEW step \in [1 .. n -> [S -> S]]
    PROVE  Iterates(S, base, n, step) # {}
<1> DEFINE Good(f, m) == f[0] = base /\ \A i \in 1 .. m : f[i] = step[i][f[i - 1]]
           T == {m \in 0 .. n : \E f \in [0 .. m -> S] : Good(f, m)}
<1>1. 0 \in T
  <2> DEFINE f == [i \in 0 .. 0 |-> base]
  <2>1. f \in [0 .. 0 -> S] /\ Good(f, 0)
    OBVIOUS
  <2> HIDE DEF f, Good
  <2> QED
    BY <2>1
<1>2. \A m \in 0 .. n - 1 : m \in T => m + 1 \in T
  <2> SUFFICES ASSUME NEW m \in 0 .. n - 1, m \in T PROVE m + 1 \in T
    OBVIOUS
  <2>1. PICK f \in [0 .. m -> S] : Good(f, m)
    OBVIOUS
  <2> DEFINE g == [i \in 0 .. m + 1 |-> IF i = m + 1 THEN step[m + 1][f[m]] ELSE f[i]]
  <2>2. m + 1 \in 1 .. n /\ f[m] \in S
    OBVIOUS
  <2>3. g \in [0 .. m + 1 -> S]
    BY <2>2
  <2>4. \A i \in 0 .. m : g[i] = f[i]
    OBVIOUS
  <2>5. g[m + 1] = step[m + 1][g[m]]
    BY <2>4
  <2>6. Good(g, m + 1)
    <3>1. g[0] = base
      BY <2>1, <2>4
    <3>2. ASSUME NEW i \in 1 .. m + 1 PROVE g[i] = step[i][g[i - 1]]
      <4>1. CASE i = m + 1
        BY <4>1, <2>5
      <4>2. CASE i # m + 1
        <5>1. i \in 1 .. m /\ i - 1 \in 0 .. m /\ i \in 0 .. m
          BY <4>2
        <5> QED
          BY <5>1, <2>1, <2>4
      <4> QED
        BY <4>1, <4>2
    <3> QED
      BY <3>1, <3>2
  <2> HIDE DEF g, Good
  <2> QED
    BY <2>3, <2>6
<1>3. \A m \in 0 .. n : m \in T
  <2> HIDE DEF T
  <2> QED
    BY <1>1, <1>2, BoundedInduction
<1>4. \E f \in [0 .. n -> S] : Good(f, n)
  BY <1>3
<1> QED
  BY <1>4 DEF Iterates
=============================================================================
