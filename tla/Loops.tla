------------------------------- MODULE Loops -------------------------------
(***************************************************************************)
(* Loops of the code are modelled as recursive functions                   *)
(*     after[i \in 0 .. n] == IF i = 0 THEN start                          *)
(*                            ELSE what round i makes of after[i - 1]      *)
(* This module shows that such a function exists and satisfies its         *)
(* equations, and gives induction over naturals in a form that needs no    *)
(* operator as a parameter.  A loop is an instance: c holds what the loop  *)
(* takes from its context.                                                 *)
(***************************************************************************)
EXTENDS Naturals, WellFoundedInduction, TLAPS

CONSTANTS
  Start(_),       \* the state before the loop in context c
  Round(_, _, _)  \* the state that round i makes of a state in context c

After(c, n) ==
  LET after[i \in 0 .. n] == IF i = 0 THEN Start(c) ELSE Round(c, after[i - 1], i)
  IN after

\* A set that holds zero and with every number the next one holds all of them.
LEMMA Induction ==
  ASSUME NEW S, 0 \in S, \A n \in Nat : n \in S => n + 1 \in S
  PROVE  \A n \in Nat : n \in S
<1> DEFINE T == {n \in Nat : n \notin S}
           R == OpToRel(<, Nat)
<1>1. SUFFICES ASSUME T # {} PROVE FALSE
  BY Zenon
<1>2. PICK x \in T : \A y \in T : ~(<<y, x>> \in R)
  <2>1. IsWellFoundedOn(R, Nat)
    BY NatLessThanWellFounded, Zenon
  <2>2. T \subseteq Nat
    BY Zenon
  <2> HIDE DEF T, R
  <2> QED
    BY <1>1, <2>1, <2>2, WFMin, Zenon
<1>3. x \in Nat /\ x # 0
  BY Zenon
<1>4. x - 1 \in Nat /\ x - 1 < x /\ (x - 1) + 1 = x
  BY <1>3, SMT
<1>5. <<x - 1, x>> \in R
  BY <1>3, <1>4, Zenon DEF OpToRel
<1>6. x - 1 \in T
  BY <1>4, Zenon
<1> QED
  BY <1>2, <1>5, <1>6, Zenon

\* The same up to a bound: what every round hands on holds after each of them.
LEMMA InductionUpTo ==
  ASSUME NEW m \in Nat, NEW S, 0 \in S, \A n \in 1 .. m : n - 1 \in S => n \in S
  PROVE  \A n \in 0 .. m : n \in S
<1> DEFINE T == {n \in Nat : n \in S \/ n > m}
<1>1. 0 \in T
  BY Zenon
<1>2. ASSUME NEW n \in Nat, n \in T PROVE n + 1 \in T
  <2>1. CASE n + 1 > m
    BY <2>1
  <2>2. CASE n + 1 <= m
    <3>1. n + 1 \in 1 .. m /\ (n + 1) - 1 = n /\ ~(n > m)
      BY <2>2, SMT
    <3>2. n \in S
      BY <1>2, <3>1
    <3> QED BY <3>1, <3>2
  <2> QED BY <2>1, <2>2
<1>3. \A n \in Nat : n \in T
  <2> HIDE DEF T
  <2> QED BY <1>1, <1>2, Induction
<1>4. SUFFICES ASSUME NEW n \in 0 .. m PROVE n \in S
  OBVIOUS
<1>5. n \in Nat /\ ~(n > m)
  BY SMT
<1> QED BY <1>3, <1>5

\* A loop of n rounds: its states satisfy the equations that define them.
LEMMA Unfold ==
  ASSUME NEW c, NEW n \in Nat
  PROVE  /\ After(c, n)[0] = Start(c)
         /\ \A i \in 1 .. n : After(c, n)[i] = Round(c, After(c, n)[i - 1], i)
<1> DEFINE Rounds(f, k) == f = [i \in 0 .. k |-> IF i = 0 THEN Start(c) ELSE Round(c, f[i - 1], i)]
           Defined == {k \in Nat : \E f : Rounds(f, k)}
<1>1. 0 \in Defined
  <2> DEFINE f == [i \in 0 .. 0 |-> Start(c)]
  <2>1. Rounds(f, 0)
    OBVIOUS
  <2> QED BY <2>1, Zenon
<1>2. ASSUME NEW k \in Nat, k \in Defined PROVE k + 1 \in Defined
  <2>1. PICK f : Rounds(f, k)
    BY <1>2, Zenon
  <2> DEFINE g == [i \in 0 .. (k + 1) |-> IF i = k + 1 THEN Round(c, f[k], k + 1) ELSE f[i]]
  <2>2. \A i \in 0 .. k : f[i] = IF i = 0 THEN Start(c) ELSE Round(c, f[i - 1], i)
    <3> DEFINE h == [i \in 0 .. k |-> IF i = 0 THEN Start(c) ELSE Round(c, f[i - 1], i)]
    <3>1. \A i \in 0 .. k : h[i] = IF i = 0 THEN Start(c) ELSE Round(c, f[i - 1], i)
      BY Zenon
    <3> QED BY <2>1, <3>1, Zenon
  <2>3. ASSUME NEW i \in 0 .. (k + 1)
        PROVE  g[i] = IF i = 0 THEN Start(c) ELSE Round(c, g[i - 1], i)
    <3>1. CASE i = k + 1
      <4>1. i # 0 /\ i - 1 = k /\ k \in 0 .. (k + 1) /\ k # k + 1
        BY <3>1, SMT
      <4>2. g[k] = f[k]
        BY <4>1, Zenon
      <4>3. g[i] = Round(c, f[k], k + 1)
        BY <3>1, Zenon
      <4> QED BY <3>1, <4>1, <4>2, <4>3, Zenon
    <3>2. CASE i # k + 1 /\ i # 0
      <4>1. i \in 0 .. k /\ i - 1 \in 0 .. (k + 1) /\ i - 1 # k + 1
        BY <3>2, SMT
      <4>2. g[i] = f[i] /\ g[i - 1] = f[i - 1]
        BY <3>2, <4>1, Zenon
      <4> QED BY <2>2, <3>2, <4>1, <4>2, Zenon
    <3>3. CASE i = 0
      <4>1. i \in 0 .. k /\ i # k + 1
        BY <3>3, SMT
      <4>2. g[i] = f[i]
        BY <4>1, Zenon
      <4> QED BY <2>2, <3>3, <4>1, <4>2, Zenon
    <3> QED BY <3>1, <3>2, <3>3, Zenon
  <2>4. Rounds(g, k + 1)
    BY <2>3, Zenon
  <2>5. k + 1 \in Nat
    BY SMT
  <2> QED BY <2>4, <2>5, Zenon
<1>3. \E f : Rounds(f, n)
  <2>1. \A k \in Nat : k \in Defined
    <3> HIDE DEF Defined
    <3> QED BY <1>1, <1>2, Induction, Zenon
  <2> QED BY <2>1, Zenon
<1>4. Rounds(After(c, n), n)
  BY <1>3, Zenon DEF After
<1>5. \A i \in 0 .. n : After(c, n)[i] = IF i = 0 THEN Start(c) ELSE Round(c, After(c, n)[i - 1], i)
  <2> DEFINE A == After(c, n)
             h == [i \in 0 .. n |-> IF i = 0 THEN Start(c) ELSE Round(c, A[i - 1], i)]
  <2>1. \A i \in 0 .. n : h[i] = IF i = 0 THEN Start(c) ELSE Round(c, A[i - 1], i)
    BY Zenon
  <2>2. A = h
    BY <1>4, Zenon
  <2> HIDE DEF A
  <2> QED BY <2>1, <2>2, Zenon DEF A
<1>6. 0 \in 0 .. n /\ \A i \in 1 .. n : i \in 0 .. n /\ i # 0
  BY SMT
<1> QED BY <1>5, <1>6, Zenon
=============================================================================
