------------------------------ MODULE Induction ------------------------------
(***************************************************************************)
(* Induction over the natural numbers in a form without operator           *)
(* parameters, and what it says of functions that are defined by steps.    *)
(***************************************************************************)
EXTENDS Integers, FiniteSetTheorems, WellFoundedInduction, TLAPS

\* Intervals from 0 are finite sets of naturals, and strict inclusion is
\* well-founded on those.
LEMMA Smallest ==
    ASSUME NEW S \in SUBSET Nat, S # {}
    PROVE  \E m \in S : \A n \in S : m <= n
  <1> DEFINE R == StrictSubsetOrdering(Nat)
             D == FiniteSubsetsOf(Nat)
             T == {0 .. n : n \in S}
  <1>1. IsWellFoundedOn(R, D)
    BY FS_StrictSubsetOrderingWellFounded
  <1>2. T \subseteq D
    <2>1. \A n \in Nat : 0 .. n \in SUBSET Nat /\ IsFiniteSet(0 .. n)
      BY FS_Interval
    <2> QED BY <2>1 DEF FiniteSubsetsOf
  <1>3. T # {}
    OBVIOUS
  <1> HIDE DEF R, D, T
  <1>4. PICK x \in T : \A y \in T : <<y, x>> \notin R
    BY <1>1, <1>2, <1>3, WFMin
  <1>5. PICK m \in S : x = 0 .. m
    BY <1>4 DEF T
  <1>6. ASSUME NEW n \in S, n < m PROVE FALSE
    <2>1. 0 .. n \in T
      BY DEF T
    <2>2. 0 .. n \in SUBSET Nat /\ 0 .. m \in SUBSET Nat
      OBVIOUS
    <2>3. 0 .. n \subseteq 0 .. m /\ 0 .. n # 0 .. m
      BY <1>6
    <2>4. <<0 .. n, x>> \in R
      BY <1>5, <2>2, <2>3 DEF R, StrictSubsetOrdering
    <2> QED BY <1>4, <2>1, <2>4
  <1> QED BY <1>6

\* A set that holds 0 and, with a number up to L, the next holds all of them.
LEMMA Induct ==
    ASSUME NEW L \in Nat, NEW S, 0 \in S, \A n \in 1 .. L : n - 1 \in S => n \in S
    PROVE  \A n \in 0 .. L : n \in S
  <1> SUFFICES ASSUME (0 .. L) \ S # {} PROVE FALSE
    OBVIOUS
  <1>1. (0 .. L) \ S \in SUBSET Nat
    OBVIOUS
  <1>2. PICK m \in (0 .. L) \ S : \A n \in (0 .. L) \ S : m <= n
    BY <1>1, Smallest
  <1>3. m \in 1 .. L /\ m - 1 \in 0 .. L
    BY <1>2
  <1>4. m - 1 \in S
    <2>1. ~ (m <= m - 1)
      BY <1>3
    <2> QED BY <1>2, <1>3, <2>1
  <1> QED BY <1>2, <1>3, <1>4

Steps(V, L) == [1 .. L -> [V -> V]]

\* f[n] is what the first n steps make of the start.
Iterated(f, V, start, step, L) ==
    /\ f \in [0 .. L -> V]
    /\ f[0] = start
    /\ \A n \in 1 .. L : f[n] = step[n][f[n - 1]]

\* Steps from a start make a function: a recursive definition has a solution.
LEMMA Iterates ==
    ASSUME NEW V, NEW L \in Nat, NEW start \in V, NEW step \in Steps(V, L)
    PROVE  \E f : Iterated(f, V, start, step, L)
  <1> DEFINE Solves(f, k) == f[0] = start /\ \A n \in 1 .. k : f[n] = step[n][f[n - 1]]
             S == {k \in 0 .. L : \E f \in [0 .. k -> V] : Solves(f, k)}
  <1> USE DEF Steps
  <1>1. 0 \in S
    <2> DEFINE f == [n \in 0 .. 0 |-> start]
    <2>1. f \in [0 .. 0 -> V] /\ f[0] = start
      OBVIOUS
    <2> HIDE DEF f
    <2>2. 1 .. 0 = {} /\ 0 \in 0 .. L
      OBVIOUS
    <2>3. Solves(f, 0)
      BY <2>1, <2>2
    <2> QED BY <2>1, <2>2, <2>3
  <1>2. ASSUME NEW k \in 1 .. L, k - 1 \in S PROVE k \in S
    <2>1. PICK g \in [0 .. k - 1 -> V] : Solves(g, k - 1)
      BY <1>2
    <2> DEFINE f == [n \in 0 .. k |-> IF n = k THEN step[k][g[k - 1]] ELSE g[n]]
    <2>2. g[k - 1] \in V
      OBVIOUS
    <2>3. f \in [0 .. k -> V]
      BY <2>2
    <2>4. f[0] = start /\ f[k] = step[k][f[k - 1]]
      BY <2>1
    <2>5. \A n \in 1 .. k - 1 : f[n] = step[n][f[n - 1]]
      <3> TAKE n \in 1 .. k - 1
      <3>1. f[n] = g[n] /\ f[n - 1] = g[n - 1]
        OBVIOUS
      <3> QED BY <2>1, <3>1
    <2>6. \A n \in 1 .. k : n \in 1 .. k - 1 \/ n = k
      OBVIOUS
    <2> HIDE DEF f
    <2>7. Solves(f, k)
      BY <2>4, <2>5, <2>6
    <2> QED BY <2>3, <2>7
  <1> HIDE DEF S
  <1>3. L \in S
    <2>1. \A k \in 1 .. L : k - 1 \in S => k \in S
      BY <1>2
    <2>2. \A k \in 0 .. L : k \in S
      BY <1>1, <2>1, Induct
    <2> QED BY <2>2
  <1> QED BY <1>3 DEF S, Iterated
=============================================================================
