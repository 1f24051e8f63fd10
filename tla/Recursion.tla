------------------------------ MODULE Recursion ------------------------------
(***************************************************************************)
(* Induction over the numbers up to a bound, stated for sets, and the      *)
(* existence of functions defined by recursion over them.                  *)
(***************************************************************************)
EXTENDS Integers, Sequences, WellFoundedInduction, TLAPS

\* A set of numbers that is not empty has a least one.
LEMMA LeastNumber ==
  ASSUME NEW D, D \subseteq Nat, D # {}
  PROVE  \E d \in D : \A e \in D : d <= e
<1>1. PICK d \in D : \A e \in D : ~ (<<e, d>> \in OpToRel(<, Nat))
  BY NatLessThanWellFounded, WFMin
<1>2. \A e \in D : ~ (e < d)
  BY <1>1 DEF OpToRel
<1> QED BY <1>2

\* Induction: a set with 0 in it, and with n + 1 whenever n is, is all of them.
LEMMA UpTo ==
  ASSUME NEW N \in Nat, NEW D, 0 \in D, \A n \in 0 .. N : n \in D /\ n < N => n + 1 \in D
  PROVE  0 .. N \subseteq D
<1> SUFFICES ASSUME (0 .. N) \ D # {} PROVE FALSE
  OBVIOUS
<1> DEFINE M == (0 .. N) \ D
<1>1. PICK d \in M : \A e \in M : d <= e
  <2>1. M \subseteq Nat /\ M # {}
    OBVIOUS
  <2> HIDE DEF M
  <2> QED BY <2>1, LeastNumber
<1>2. d # 0 /\ d - 1 \in 0 .. N /\ ~ (d <= d - 1)
  BY <1>1
<1>3. d - 1 \in D
  BY <1>1, <1>2
<1> QED BY <1>1, <1>2, <1>3

\* From a first value and a function for each step there is a function that
\* takes the steps in turn.
OfSteps(g, N, S) == g \in [1 .. N -> [S -> S]]
Taken(f, N, S, b, g) ==
    f \in [0 .. N -> S] /\ f[0] = b /\ \A n \in 1 .. N : f[n] = g[n][f[n - 1]]

LEMMA StepByStep ==
  ASSUME NEW N \in Nat, NEW S, NEW b \in S, NEW g, OfSteps(g, N, S)
  PROVE  \E f : Taken(f, N, S, b, g)
<1> USE DEF OfSteps, Taken
<1> DEFINE Upto(n) == {f \in [0 .. n -> S] : f[0] = b /\ \A k \in 1 .. n : f[k] = g[k][f[k - 1]]}
           D == {n \in 0 .. N : Upto(n) # {}}
<1>1. 0 \in D
  <2>1. [k \in 0 .. 0 |-> b] \in Upto(0)
    OBVIOUS
  <2> QED BY <2>1
<1>2. ASSUME NEW n \in 0 .. N, n \in D, n < N
      PROVE  n + 1 \in D
  <2>1. PICK f \in [0 .. n -> S] : f[0] = b /\ \A k \in 1 .. n : f[k] = g[k][f[k - 1]]
    BY <1>2
  <2> DEFINE h == [k \in 0 .. n + 1 |-> IF k = n + 1 THEN g[n + 1][f[n]] ELSE f[k]]
  <2>2. g[n + 1][f[n]] \in S
    BY <2>1, <1>2
  <2>3. h \in [0 .. n + 1 -> S]
    BY <2>1, <2>2
  <2>4. h[0] = b /\ h[n + 1] = g[n + 1][f[n]] /\ \A k \in 0 .. n : h[k] = f[k]
    BY <2>1
  <2> HIDE DEF h
  <2>5. \A k \in 1 .. n + 1 : h[k] = g[k][h[k - 1]]
    <3> SUFFICES ASSUME NEW k \in 1 .. n + 1 PROVE h[k] = g[k][h[k - 1]]
      OBVIOUS
    <3>1. CASE k = n + 1
      BY <3>1, <2>4
    <3>2. CASE k \in 1 .. n
      <4>1. k - 1 \in 0 .. n /\ k \in 0 .. n
        BY <3>2
      <4> QED BY <3>2, <4>1, <2>1, <2>4
    <3> QED BY <3>1, <3>2
  <2>6. h \in Upto(n + 1)
    BY <2>3, <2>4, <2>5
  <2>7. n + 1 \in 0 .. N
    BY <1>2
  <2> QED BY <2>6, <2>7
<1> HIDE DEF D
<1>3. 0 .. N \subseteq D
  BY <1>1, <1>2, UpTo
<1> QED BY <1>3 DEF D
=============================================================================
