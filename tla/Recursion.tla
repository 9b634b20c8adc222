------------------------------ MODULE Recursion ------------------------------
(***************************************************************************)
(* Induction and recursion over the naturals, stated for sets and          *)
(* functions: a fact is the set of numbers it holds of, and the step of a  *)
(* recursive definition is a function.                                     *)
(***************************************************************************)
EXTENDS Integers, WellFoundedInduction, TLAPS

LEMMA FromZero ==
    ASSUME NEW P, 0 \in P, \A n \in Nat : n \in P => n + 1 \in P
    PROVE  \A n \in Nat : n \in P
  <1> DEFINE Out == Nat \ P
             Less == OpToRel(<, Nat)
  <1>1. SUFFICES ASSUME Out # {} PROVE FALSE
    OBVIOUS
  <1>2. \A x, y \in Nat : x < y => <<x, y>> \in Less
    BY DEF OpToRel
  <1>3. IsWellFoundedOn(Less, Nat)
    BY NatLessThanWellFounded
  <1>4. Out \subseteq Nat
    OBVIOUS
  <1> HIDE DEF Less
  <1>5. PICK x \in Out : \A y \in Out : ~(<<y, x>> \in Less)
    BY <1>1, <1>3, <1>4, WFMin
  <1>6. x \in Nat /\ x # 0 /\ x - 1 \in Nat /\ x - 1 + 1 = x
    BY <1>5
  <1>7. x - 1 \notin Out
    <2>1. x - 1 < x
      BY <1>6
    <2>2. <<x - 1, x>> \in Less
      BY <1>2, <1>6, <2>1
    <2> QED
      BY <1>5, <2>2
  <1> QED
    BY <1>5, <1>6, <1>7

\* f starts with base and goes on by Step.
Follows(f, base, len, Step) ==
    f[0] = base /\ \A n \in 1..len : f[n] = Step[<<f[n - 1], n>>]

\* A sequence can be defined element by element.
LEMMA ByRecursion ==
    ASSUME NEW S, NEW base \in S, NEW len \in Nat, NEW Step \in [S \X (1..len) -> S]
    PROVE  \E f \in [0..len -> S] : Follows(f, base, len, Step)
  <1> DEFINE Starts(f, m) == Follows(f, base, m, Step)
             P == {m \in Nat : m <= len => \E f \in [0..m -> S] : Starts(f, m)}
  <1>1. 0 \in P
    <2> DEFINE f == [n \in 0..0 |-> base]
    <2>1. f \in [0..0 -> S] /\ Starts(f, 0)
      BY DEF Follows
    <2> QED
      BY <2>1
  <1>2. ASSUME NEW m \in Nat, m \in P
        PROVE  m + 1 \in P
    <2>1. SUFFICES ASSUME m + 1 <= len
                   PROVE  \E f \in [0..m + 1 -> S] : Starts(f, m + 1)
      OBVIOUS
    <2>2. PICK g \in [0..m -> S] : Starts(g, m)
      BY <1>2, <2>1
    <2> DEFINE f == [n \in 0..m + 1 |-> IF n = m + 1 THEN Step[<<g[m], m + 1>>] ELSE g[n]]
    <2>3. g[m] \in S /\ <<g[m], m + 1>> \in S \X (1..len)
      BY <2>1
    <2>4. Step[<<g[m], m + 1>>] \in S
      BY <2>3
    <2>5. f \in [0..m + 1 -> S]
      BY <2>4
    <2>6. f[0] = base
      BY <2>2 DEF Follows
    <2>7. ASSUME NEW n \in 1..m + 1
          PROVE  f[n] = Step[<<f[n - 1], n>>]
      <3>1. CASE n = m + 1
        <4>1. n - 1 = m /\ m \in 0..m + 1 /\ m # m + 1
          BY <3>1
        <4> QED
          BY <3>1, <4>1
      <3>2. CASE n # m + 1
        BY <2>2, <3>2 DEF Follows
      <3> QED
        BY <3>1, <3>2
    <2> QED
      BY <2>5, <2>6, <2>7 DEF Follows
  <1> HIDE DEF P
  <1>3. len \in P
    BY <1>1, <1>2, FromZero
  <1> QED
    BY <1>3 DEF P
=============================================================================
