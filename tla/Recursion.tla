----------------------------- MODULE Recursion -----------------------------
(***************************************************************************)
(* Induction over data for the other proofs.  The library's induction      *)
(* theorem takes an operator as a parameter; its theorem on minimal        *)
(* elements, WFMin, takes sets, and induction for a set of numbers follows *)
(* from it, and from that the existence of a function that is defined by   *)
(* recursion along a sequence.                                             *)
(***************************************************************************)
EXTENDS Integers, Sequences, TLAPS, WellFoundedInduction

\* A set of numbers that holds 0, and n + 1 with each n, holds them all.
LEMMA NatSetInduction ==
  ASSUME NEW S, 0 \in S, \A n \in Nat : n \in S => n + 1 \in S
  PROVE  Nat \subseteq S
<1> DEFINE T == Nat \ S
<1> SUFFICES ASSUME T # {} PROVE FALSE
  OBVIOUS
<1>1. T \subseteq Nat
  OBVIOUS
<1> HIDE DEF T
<1>2. PICK x \in T : \A y \in T : <<y, x>> \notin OpToRel(<, Nat)
  BY <1>1, NatLessThanWellFounded, WFMin, Zenon
<1>3. ASSUME NEW y \in T PROVE ~(y < x)
  <2>1. ~(<<y, x>> \in Nat \X Nat /\ y < x)
    BY <1>2, Zenon DEF OpToRel
  <2> QED
    BY <1>1, <2>1
<1>4. x \in Nat /\ x \notin S
  BY DEF T
<1>5. x - 1 \in Nat /\ x - 1 < x /\ x = (x - 1) + 1
  BY <1>4
<1>6. x - 1 \in S
  BY <1>3, <1>5 DEF T
<1> QED
  BY <1>4, <1>5, <1>6

\* The same up to a bound.
LEMMA BoundedInduction ==
  ASSUME NEW L \in Nat, NEW S, 0 \in S, \A n \in 0 .. L - 1 : n \in S => n + 1 \in S
  PROVE  0 .. L \subseteq S
<1> DEFINE T == {n \in Nat : n <= L => n \in S}
<1>1. 0 \in T
  OBVIOUS
<1>2. ASSUME NEW n \in Nat, n \in T PROVE n + 1 \in T
  <2> SUFFICES ASSUME n + 1 <= L PROVE n + 1 \in S
    OBVIOUS
  <2>1. n \in 0 .. L - 1 /\ n \in S
    BY <1>2
  <2> QED
    BY <2>1
<1> HIDE DEF T
<1>3. Nat \subseteq T
  BY <1>1, <1>2, NatSetInduction
<1> QED
  BY <1>3 DEF T

IsRecursion(f, L, base, step) ==
  f[0] = base /\ \A n \in 1 .. L : f[n] = step[n][f[n - 1]]

\* A function that starts with base and goes on by step.
LEMMA RecursionExists ==
  ASSUME NEW A, NEW base \in A, NEW L \in Nat, NEW step \in [1 .. L -> [A -> A]]
  PROVE  \E f \in [0 .. L -> A] : IsRecursion(f, L, base, step)
<1> DEFINE Good(k) == \E f \in [0 .. k -> A] :
                        f[0] = base /\ \A n \in 1 .. k : f[n] = step[n][f[n - 1]]
           S == {k \in 0 .. L : Good(k)}
<1>1. Good(0)
  <2> DEFINE f == [n \in 0 .. 0 |-> base]
  <2>1. f \in [0 .. 0 -> A] /\ f[0] = base /\ \A n \in 1 .. 0 : f[n] = step[n][f[n - 1]]
    BY 0 \in 0 .. 0
  <2> HIDE DEF f
  <2> QED
    BY <2>1, Zenon
<1>2. ASSUME NEW k \in Nat, k + 1 <= L, Good(k) PROVE Good(k + 1)
  <2> HIDE DEF Good
  <2>0. k + 1 \in 1 .. L
    BY <1>2
  <2> USE DEF Good
  <2>1. PICK f \in [0 .. k -> A] : f[0] = base /\ \A n \in 1 .. k : f[n] = step[n][f[n - 1]]
    BY <1>2, Zenon
  <2> DEFINE g == [n \in 0 .. k + 1 |-> IF n = k + 1 THEN step[k + 1][f[k]] ELSE f[n]]
  <2>2. step[k + 1][f[k]] \in A
    <3>1. f[k] \in A /\ step[k + 1] \in [A -> A]
      BY <2>0
    <3> QED
      BY <3>1
  <2>3. \A n \in 0 .. k + 1 : n # k + 1 => n \in 0 .. k
    OBVIOUS
  <2>4. g \in [0 .. k + 1 -> A]
    BY <2>2, <2>3
  <2>5. g[0] = base
    <3>1. 0 \in 0 .. k + 1 /\ 0 # k + 1
      OBVIOUS
    <3> QED
      BY <2>1, <3>1
  <2>6. ASSUME NEW n \in 1 .. k + 1 PROVE g[n] = step[n][g[n - 1]]
    <3>0. n \in 0 .. k + 1 /\ n - 1 \in 0 .. k + 1 /\ n - 1 # k + 1
      OBVIOUS
    <3>1. g[n - 1] = f[n - 1]
      BY <3>0
    <3>2. CASE n = k + 1
      <4>1. g[n] = step[k + 1][f[k]] /\ n - 1 = k
        BY <3>0, <3>2
      <4> QED
        BY <3>1, <3>2, <4>1
    <3>3. CASE n # k + 1
      <4>1. n \in 1 .. k
        BY <3>3
      <4>2. g[n] = f[n]
        BY <3>0, <3>3
      <4> HIDE DEF g
      <4> QED
        BY <2>1, <3>1, <4>1, <4>2
    <3> QED
      BY <3>2, <3>3
  <2> HIDE DEF g
  <2> QED
    BY <2>4, <2>5, <2>6, Zenon
<1> HIDE DEF Good
<1>3. Good(L)
  <2>1. 0 \in S
    BY <1>1
  <2>2. ASSUME NEW k \in 0 .. L - 1, k \in S PROVE k + 1 \in S
    BY <1>2, <2>2
  <2> HIDE DEF S
  <2>3. 0 .. L \subseteq S
    BY <2>1, <2>2, BoundedInduction
  <2>4. L \in S
    BY <2>3
  <2> QED
    BY <2>4 DEF S
<1> QED
  BY <1>3, Zenon DEF Good, IsRecursion

\* What holds of the base and is kept by each step holds of every value.
LEMMA RecursionKeeps ==
  ASSUME NEW L \in Nat, NEW f, NEW A, f[0] \in A,
         \A n \in 1 .. L : f[n - 1] \in A => f[n] \in A
  PROVE  \A n \in 0 .. L : f[n] \in A
<1> DEFINE T == {k \in 0 .. L : f[k] \in A}
<1>1. 0 \in T
  OBVIOUS
<1>2. ASSUME NEW k \in 0 .. L - 1, k \in T PROVE k + 1 \in T
  <2>1. k + 1 \in 1 .. L /\ k + 1 \in 0 .. L /\ (k + 1) - 1 = k /\ f[k] \in A
    BY <1>2
  <2> QED
    BY <2>1
<1> HIDE DEF T
<1>3. 0 .. L \subseteq T
  BY <1>1, <1>2, BoundedInduction
<1> QED
  BY <1>3 DEF T
=============================================================================
