------------------------------ MODULE Induction ------------------------------
(***************************************************************************)
(* Induction over the naturals, stated with sets instead of predicates.    *)
(***************************************************************************)
EXTENDS WellFoundedInduction, TLAPS

(* A set of naturals that is not empty has a least element. *)
LEMMA NatMin ==
  ASSUME NEW T, T \subseteq Nat, T # {}
  PROVE  \E x \in T : \A y \in T : x <= y
<1>. DEFINE R == {p \in Nat \X Nat : p[1] < p[2]}
<1>1. IsWellFoundedOn(R, Nat)
  <2>1. OpToRel(<, Nat) = R
    BY DEF OpToRel
  <2>. QED
    BY <2>1, NatLessThanWellFounded
<1>2. \A x, y \in Nat : <<y, x>> \in R <=> y < x
  OBVIOUS
<1>3. \E x \in T : \A y \in T : ~(<<y, x>> \in R)
  <2>. HIDE DEF R
  <2>. QED
    BY <1>1, WFMin
<1>4. PICK x \in T : \A y \in T : ~(<<y, x>> \in R)
  BY <1>3
<1>5. ASSUME NEW y \in T PROVE x <= y
  <2>. HIDE DEF R
  <2>1. x \in Nat /\ y \in Nat /\ ~(<<y, x>> \in R)
    BY <1>4
  <2>2. ~(y < x)
    BY <1>2, <2>1
  <2>. QED
    BY <2>1, <2>2
<1>. QED
  BY <1>5

(* Induction: a set that holds 0 and the successors of its elements.       *)
LEMMA NatInd ==
  ASSUME NEW S, 0 \in S, \A n \in Nat : n \in S => n + 1 \in S
  PROVE  Nat \subseteq S
<1>. SUFFICES ASSUME Nat \ S # {} PROVE FALSE
  OBVIOUS
<1>1. PICK x \in Nat \ S : \A y \in Nat \ S : x <= y
  BY NatMin
<1>2. x # 0 /\ x - 1 \in Nat /\ ~(x <= x - 1)
  BY <1>1
<1>3. x - 1 \in S
  BY <1>1, <1>2
<1>. QED
  BY <1>1, <1>2, <1>3

(* ... and up to a bound. *)
LEMMA UpTo ==
  ASSUME NEW N \in Nat, NEW S, 0 \in S, \A n \in 0 .. (N - 1) : n \in S => n + 1 \in S
  PROVE  0 .. N \subseteq S
<1>. DEFINE T == {n \in Nat : n <= N => n \in S}
<1>1. 0 \in T
  OBVIOUS
<1>2. ASSUME NEW n \in Nat, n \in T PROVE n + 1 \in T
  <2>1. CASE n + 1 <= N
    <3>1. n \in 0 .. (N - 1) /\ n <= N
      BY <2>1
    <3>. QED
      BY <1>2, <3>1
  <2>2. CASE ~(n + 1 <= N)
    BY <2>2
  <2>. QED
    BY <2>1, <2>2
<1>3. Nat \subseteq T
  <2>. HIDE DEF T
  <2>. QED
    BY <1>1, <1>2, NatInd
<1>. QED
  BY <1>3

(* ... from one integer up to another. *)
LEMMA UpFrom ==
  ASSUME NEW a \in Int, NEW b \in Int, NEW S, a \in S, \A n \in a .. (b - 1) : n \in S => n + 1 \in S
  PROVE  a .. b \subseteq S
<1>1. CASE b < a
  BY <1>1
<1>2. CASE a <= b
  <2>. DEFINE T == {n \in Nat : a + n \in S}
              N == b - a
  <2>1. N \in Nat /\ 0 \in T
    BY <1>2
  <2>2. ASSUME NEW n \in 0 .. (N - 1), n \in T PROVE n + 1 \in T
    <3>1. a + n \in a .. (b - 1) /\ (a + n) + 1 = a + (n + 1) /\ n + 1 \in Nat
      BY <1>2
    <3>. QED
      BY <2>2, <3>1
  <2>3. 0 .. N \subseteq T
    <3>. HIDE DEF T, N
    <3>. QED
      BY <2>1, <2>2, UpTo
  <2>4. ASSUME NEW m \in a .. b PROVE m \in S
    <3>1. m - a \in 0 .. N /\ a + (m - a) = m
      BY <1>2
    <3>2. m - a \in T
      <4>. HIDE DEF T, N
      <4>. QED
        BY <2>3, <3>1
    <3>. QED
      BY <3>1, <3>2
  <2>. QED
    BY <2>4
<1>. QED
  BY <1>1, <1>2

(* ... and down from one to another. *)
LEMMA DownFrom ==
  ASSUME NEW a \in Int, NEW b \in Int, NEW S, b \in S, \A n \in (a + 1) .. b : n \in S => n - 1 \in S
  PROVE  a .. b \subseteq S
<1>1. CASE b < a
  BY <1>1
<1>2. CASE a <= b
  <2>. DEFINE T == {n \in Nat : b - n \in S}
              N == b - a
  <2>1. N \in Nat /\ 0 \in T
    BY <1>2
  <2>2. ASSUME NEW n \in 0 .. (N - 1), n \in T PROVE n + 1 \in T
    <3>1. b - n \in (a + 1) .. b /\ (b - n) - 1 = b - (n + 1) /\ n + 1 \in Nat
      BY <1>2
    <3>. QED
      BY <2>2, <3>1
  <2>3. 0 .. N \subseteq T
    <3>. HIDE DEF T, N
    <3>. QED
      BY <2>1, <2>2, UpTo
  <2>4. ASSUME NEW m \in a .. b PROVE m \in S
    <3>1. b - m \in 0 .. N /\ b - (b - m) = m
      BY <1>2
    <3>2. b - m \in T
      <4>. HIDE DEF T, N
      <4>. QED
        BY <2>3, <3>1
    <3>. QED
      BY <3>1, <3>2
  <2>. QED
    BY <2>4
<1>. QED
  BY <1>1, <1>2

(* A function that is defined by recursion up to a bound exists.           *)
Recursive(f, N, S, base, step) ==
  /\ f \in [0 .. N -> S] /\ f[0] = base
  /\ \A n \in 1 .. N : f[n] = step[n][f[n - 1]]
Steps(N, S) == [1 .. N -> [S -> S]]

LEMMA RecExists ==
  ASSUME NEW N \in Nat, NEW S, NEW base \in S, NEW step \in Steps(N, S)
  PROVE  \E f : Recursive(f, N, S, base, step)
<1>0. step \in [1 .. N -> [S -> S]]
  BY DEF Steps
<1>. DEFINE Rec(f, k) == \A n \in 0 .. k : f[n] = IF n = 0 THEN base ELSE step[n][f[n - 1]]
            T == {k \in Nat : \E f \in [0 .. k -> S] : Rec(f, k)}
<1>1. 0 \in T
  <2>1. [n \in 0 .. 0 |-> base] \in [0 .. 0 -> S] /\ Rec([n \in 0 .. 0 |-> base], 0)
    OBVIOUS
  <2>. QED
    BY <2>1
<1>2. ASSUME NEW k \in 0 .. (N - 1), k \in T PROVE k + 1 \in T
  <2>1. PICK f \in [0 .. k -> S] : Rec(f, k)
    BY <1>2
  <2>. DEFINE g == [n \in 0 .. (k + 1) |-> IF n = k + 1 THEN step[k + 1][f[k]] ELSE f[n]]
  <2>2. k + 1 \in 1 .. N /\ k \in 0 .. k /\ k + 1 \in Nat /\ k \in Nat
    OBVIOUS
  <2>3. g \in [0 .. (k + 1) -> S]
    <3>1. step[k + 1][f[k]] \in S
      BY <1>0, <2>1, <2>2
    <3>2. \A n \in 0 .. (k + 1) : n # k + 1 => n \in 0 .. k
      BY <2>2
    <3>. QED
      BY <2>1, <3>1, <3>2
  <2>4. Rec(g, k + 1)
    <3>. SUFFICES ASSUME NEW n \in 0 .. (k + 1)
                  PROVE  g[n] = IF n = 0 THEN base ELSE step[n][g[n - 1]]
      OBVIOUS
    <3>1. CASE n = k + 1
      <4>1. g[n] = step[n][f[k]] /\ g[n - 1] = f[k] /\ n # 0
        BY <2>2, <3>1
      <4>2. n - 1 = k
        BY <2>2, <3>1
      <4>. QED
        BY <4>1, <4>2
    <3>2. CASE n # k + 1
      <4>1. n \in 0 .. k /\ g[n] = f[n]
        BY <2>2, <3>2
      <4>2. n # 0 => g[n - 1] = f[n - 1]
        BY <2>2, <3>2
      <4>. HIDE DEF g
      <4>. QED
        BY <2>1, <4>1, <4>2
    <3>. QED
      BY <3>1, <3>2
  <2>. QED
    BY <2>2, <2>3, <2>4
<1>3. 0 .. N \subseteq T
  <2>. HIDE DEF T
  <2>. QED
    BY <1>1, <1>2, UpTo
<1>4. PICK f \in [0 .. N -> S] : Rec(f, N)
  <2>1. N \in T
    <3>1. N \in 0 .. N
      OBVIOUS
    <3>. HIDE DEF T
    <3>. QED
      BY <1>3, <3>1
  <2>. HIDE DEF Rec
  <2>. QED
    BY <2>1
<1>5. f[0] = base /\ \A n \in 1 .. N : f[n] = step[n][f[n - 1]]
  <2>1. 0 \in 0 .. N /\ \A n \in 1 .. N : n \in 0 .. N /\ n # 0
    OBVIOUS
  <2>. QED
    BY <1>4, <2>1
<1>6. Recursive(f, N, S, base, step)
  BY <1>5 DEF Recursive
<1>. QED
  BY <1>6
=============================================================================
