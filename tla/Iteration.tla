----------------------------- MODULE Iteration -----------------------------
(***************************************************************************)
(* Induction over the natural numbers without an operator as parameter: on *)
(* a set of numbers, which is first order.  It follows from the fact that  *)
(* the numbers are well founded, stated of subsets in WellFoundedInduction. *)
(* From it, that a recursive definition has a function it describes.       *)
(***************************************************************************)
EXTENDS Integers, WellFoundedInduction, TLAPS

\* A set with 0 and, with each number, the next has them all.
LEMMA SetInduction ==
  ASSUME NEW S, 0 \in S, \A n \in Nat : n \in S => n + 1 \in S
  PROVE  Nat \subseteq S
<1> DEFINE T == Nat \ S
           less == {ss \in Nat \X Nat : ss[1] < ss[2]}
<1>1. IsWellFoundedOn(less, Nat)
  BY NatLessThanWellFounded DEF OpToRel
<1>2. ASSUME T # {} PROVE FALSE
  <2>1. PICK x \in T : \A y \in T : ~ (<<y, x>> \in less)
    <3>1. T \subseteq Nat
      OBVIOUS
    <3> HIDE DEF T, less
    <3> QED
      BY <1>1, <1>2, <3>1, WFMin
  <2>2. x \in Nat \ {0}
    OBVIOUS
  <2>3. x - 1 \in Nat /\ <<x - 1, x>> \in less
    BY <2>2
  <2>4. x - 1 \in S
    BY <2>1, <2>3
  <2>5. (x - 1) + 1 \in S
    BY <2>3, <2>4
  <2> QED
    BY <2>2, <2>5
<1> QED
  BY <1>2

\* f[i] is what i applications of D make of c.
Iterated(f, S, c, D, n) ==
    f \in [0..n -> S] /\ f[0] = c /\ \A i \in 1..n : f[i] = D[<<f[i - 1], i>>]

\* There is such a function.
LEMMA Iterates ==
  ASSUME NEW S, NEW c \in S, NEW D \in [S \X Nat -> S], NEW n \in Nat
  PROVE  \E f : Iterated(f, S, c, D, n)
<1> DEFINE Good(m, f) == f[0] = c /\ \A i \in 1..m : f[i] = D[<<f[i - 1], i>>]
           all == {m \in Nat : \E f \in [0..m -> S] : Good(m, f)}
<1>1. 0 \in all
  <2>1. [i \in 0..0 |-> c] \in [0..0 -> S] /\ Good(0, [i \in 0..0 |-> c])
    OBVIOUS
  <2> QED
    BY <2>1
<1>2. ASSUME NEW m \in Nat, m \in all PROVE m + 1 \in all
  <2>1. PICK f \in [0..m -> S] : Good(m, f)
    BY <1>2
  <2> DEFINE g == [i \in 0..m + 1 |-> IF i = m + 1 THEN D[<<f[m], m + 1>>] ELSE f[i]]
  <2>2. D[<<f[m], m + 1>>] \in S
    <3>1. f[m] \in S /\ m + 1 \in Nat
      BY <2>1
    <3> QED
      BY <3>1
  <2>3. g \in [0..m + 1 -> S]
    BY <2>1, <2>2
  <2>4. /\ \A i \in 0..m : g[i] = f[i]
        /\ g[m + 1] = D[<<f[m], m + 1>>]
    OBVIOUS
  <2> HIDE DEF g
  <2>5. g[0] = c
    BY <2>1, <2>4
  <2>6. ASSUME NEW i \in 1..m + 1 PROVE g[i] = D[<<g[i - 1], i>>]
    <3>1. CASE i = m + 1
      BY <2>4, <3>1, SMTT(60)
    <3>2. CASE i # m + 1
      <4>1. i \in 1..m /\ i \in 0..m /\ i - 1 \in 0..m
        BY <3>2
      <4> QED
        BY <2>1, <2>4, <4>1
    <3> QED
      BY <3>1, <3>2
  <2> QED
    BY <2>3, <2>5, <2>6
<1> HIDE DEF all
<1>3. Nat \subseteq all
  BY <1>1, <1>2, SetInduction
<1>4. n \in all
  BY <1>3
<1> QED
  BY <1>4 DEF all, Iterated
=============================================================================
