---------------------------- MODULE NatInduction ----------------------------
(***************************************************************************)
(* Induction over the naturals, for what a recursive function computes, in *)
(* a form that takes a set and no operator.                                *)
(***************************************************************************)
EXTENDS Integers, WellFoundedInduction, TLAPS

Precedes == {p \in Nat \X Nat : p[1] < p[2]}

(* The naturals are well founded.                                          *)
LEMMA NatWellFounded == IsWellFoundedOn(Precedes, Nat)
BY NatLessThanWellFounded DEF OpToRel, Precedes

(* A set of naturals that is not empty has a least element.                *)
LEMMA LeastElement ==
  ASSUME NEW X, X \subseteq Nat, X # {}
  PROVE  \E x \in X : \A y \in X : x <= y
<1>1. PICK x \in X : \A y \in X : ~(<<y, x>> \in Precedes)
  BY NatWellFounded, WFMin
<1>2. \A y \in X : ~(y < x)
  BY <1>1 DEF Precedes
<1>3. QED
  BY <1>1, <1>2

(* A set that has 0, and with a number the next one, has all of them.      *)
LEMMA Induction ==
  ASSUME NEW X, 0 \in X, \A n \in Nat : n \in X => n + 1 \in X
  PROVE  \A n \in Nat : n \in X
<1>1. SUFFICES ASSUME Nat \ X # {} PROVE FALSE
  OBVIOUS
<1>2. PICK n \in Nat \ X : \A y \in Nat \ X : n <= y
  BY <1>1, LeastElement
<1>3. n # 0 /\ n - 1 \in Nat /\ n - 1 \in X
  BY <1>2
<1>4. QED
  BY <1>2, <1>3

(* The same up to a bound.                                                 *)
LEMMA BoundedInduction ==
  ASSUME NEW X, NEW N \in Nat, 0 \in X, \A n \in 1..N : n - 1 \in X => n \in X
  PROVE  \A n \in 0..N : n \in X
<1> DEFINE Y == {n \in Nat : n <= N => n \in X}
<1>1. 0 \in Y
  OBVIOUS
<1>2. ASSUME NEW n \in Nat, n \in Y PROVE n + 1 \in Y
  <2>1. CASE n + 1 \in 1..N
    <3>1. (n + 1) - 1 = n /\ n \in X
      BY <1>2, <2>1
    <3>2. QED
      BY <2>1, <3>1
  <2>2. CASE n + 1 \notin 1..N
    BY <2>2
  <2>3. QED
    BY <2>1, <2>2
<1> HIDE DEF Y
<1>3. \A n \in Nat : n \in Y
  BY <1>1, <1>2, Induction
<1>4. QED
  BY <1>3 DEF Y

(* f is made step by step, from a by the functions that g lists.           *)
Course(f, a, N, g) == f = [n \in 0..N |-> IF n = 0 THEN a ELSE g[n][f[n - 1]]]

(* There is such a function, with values in the set that the steps stay in. *)
LEMMA CourseExists ==
  ASSUME NEW A, NEW a \in A, NEW N \in Nat, NEW g \in [1..N -> [A -> A]]
  PROVE  \E f \in [0..N -> A] : Course(f, a, N, g)
<1> DEFINE X == {m \in Nat : m <= N => \E f \in [0..m -> A] : Course(f, a, m, g)}
<1>1. 0 \in X
  <2> DEFINE f == [n \in 0..0 |-> a]
  <2>1. f \in [0..0 -> A] /\ Course(f, a, 0, g)
    BY DEF Course
  <2>2. QED
    BY <2>1
<1>2. ASSUME NEW m \in Nat, m \in X PROVE m + 1 \in X
  <2>1. SUFFICES ASSUME m + 1 <= N
                 PROVE  \E f \in [0..m + 1 -> A] : Course(f, a, m + 1, g)
    OBVIOUS
  <2>2. PICK f \in [0..m -> A] : Course(f, a, m, g)
    BY <1>2, <2>1
  <2> DEFINE h == [n \in 0..m + 1 |-> IF n <= m THEN f[n] ELSE g[m + 1][f[m]]]
  <2>3. g[m + 1] \in [A -> A] /\ f[m] \in A
    BY <2>1
  <2>4. h \in [0..m + 1 -> A]
    BY <2>3
  <2>5. \A n \in 0..m : h[n] = f[n]
    OBVIOUS
  <2>6. \A n \in 0..m : f[n] = IF n = 0 THEN a ELSE g[n][f[n - 1]]
    BY <2>2 DEF Course
  <2>7. h[m + 1] = g[m + 1][f[m]]
    OBVIOUS
  <2>8. ASSUME NEW n \in 0..m + 1 PROVE h[n] = IF n = 0 THEN a ELSE g[n][h[n - 1]]
    <3> HIDE DEF h
    <3>1. CASE n = m + 1
      <4>1. n # 0 /\ n - 1 = m /\ h[m] = f[m]
        BY <3>1, <2>5
      <4>2. QED
        BY <4>1, <3>1, <2>7
    <3>2. CASE n \in 0..m
      <4>1. n # 0 => h[n - 1] = f[n - 1]
        BY <3>2, <2>5
      <4>2. QED
        BY <4>1, <3>2, <2>5, <2>6
    <3>3. QED
      BY <3>1, <3>2
  <2>9. Course(h, a, m + 1, g)
    <3> HIDE DEF h
    <3>1. QED
      BY <2>4, <2>8 DEF Course
  <2>10. QED
    BY <2>4, <2>9
<1> HIDE DEF X
<1>3. N \in X
  BY <1>1, <1>2, Induction
<1>4. QED
  BY <1>3 DEF X

=============================================================================
