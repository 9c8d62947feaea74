----------------------------- MODULE Arithmetic -----------------------------
(***************************************************************************)
(* Arithmetic that several proofs need: induction over numbers, and where  *)
(* the numbers of packets lie in a ring of cells (win_index).              *)
(***************************************************************************)
EXTENDS Integers, WellFoundedInduction, TLAPS

(***************************************************************************)
(* A set of natural numbers that is not empty has a least element.         *)
(***************************************************************************)
Less == {s \in Nat \X Nat : s[1] < s[2]}

LEMMA LessWellFounded == IsWellFoundedOn(Less, Nat)
BY NatLessThanWellFounded DEF OpToRel, Less

LEMMA LeastNumber ==
    ASSUME NEW S, S \subseteq Nat, S # {}
    PROVE  \E x \in S : \A y \in S : x <= y
<1>1. PICK x \in S : \A y \in S : ~ (<<y, x>> \in Less)
  <2>1. \E x \in S : \A y \in S : ~ (<<y, x>> \in Less)
    BY LessWellFounded, WFMin
  <2> QED BY <2>1
<1>2. \A y \in S : x <= y
  <2>1. TAKE y \in S
  <2>2. x \in Nat /\ y \in Nat /\ <<y, x>> \in Nat \X Nat
    OBVIOUS
  <2>3. ~(y < x)
    BY <1>1, <2>2 DEF Less
  <2> QED BY <2>2, <2>3
<1> QED BY <1>2

(***************************************************************************)
(* Induction up to n: a set that holds 0, and with each number below n the *)
(* next one, holds them all.                                               *)
(***************************************************************************)
LEMMA InductionUpTo ==
    ASSUME NEW n \in Nat, NEW S, 0 \in S, \A i \in 0 .. n - 1 : i \in S => i + 1 \in S
    PROVE  \A i \in 0 .. n : i \in S
<1> SUFFICES ASSUME (0 .. n) \ S # {} PROVE FALSE
  OBVIOUS
<1>1. PICK x \in (0 .. n) \ S : \A y \in (0 .. n) \ S : x <= y
  <2>1. (0 .. n) \ S \subseteq Nat
    OBVIOUS
  <2> QED BY <2>1, LeastNumber
<1>2. x - 1 \in 0 .. n - 1 /\ x - 1 + 1 = x
  BY <1>1
<1>3. x - 1 \in S
  BY <1>1, <1>2
<1> QED BY <1>1, <1>2, <1>3

-----------------------------------------------------------------------------
(***************************************************************************)
(* A number and its remainder.                                             *)
(***************************************************************************)
LEMMA Division ==
    ASSUME NEW x \in Int, NEW w \in Int, w > 0
    PROVE  x % w = x - w * (x \div w) /\ (x \div w) \in Int
BY SMT

LEMMA Products ==
    ASSUME NEW p \in Int, NEW q \in Int, NEW w \in Int, w > 0
    PROVE  /\ w * p \in Int
           /\ w * (p - q) = w * p - w * q
           /\ p >= 1 => w * p >= w
           /\ p <= 0 => w * p <= 0
OBVIOUS

(***************************************************************************)
(* Two numbers less than w apart with the same remainder are equal.        *)
(***************************************************************************)
LEMMA SameResidue ==
    ASSUME NEW a \in Int, NEW b \in Int, NEW w \in Int, w > 0,
           a <= b, b < a + w, a % w = b % w
    PROVE  a = b
<1> DEFINE qa == a \div w
           qb == b \div w
           u  == w * qa
           v  == w * qb
           t  == w * (qb - qa)
           ra == a % w
           rb == b % w
<1>1. qa \in Int /\ qb \in Int
  BY Division
<1>2. t = b - a
  <2>1. ra = a - u /\ rb = b - v /\ ra = rb
    BY Division
  <2> HIDE DEF qa, qb
  <2>2. u \in Int /\ v \in Int /\ t = v - u
    BY <1>1, Products
  <2> HIDE DEF u, v, t, ra, rb
  <2> QED BY <2>1, <2>2
<1> HIDE DEF qa, qb
<1>3. /\ qb - qa >= 1 => t >= w
      /\ qb - qa <= 0 => t <= 0
  BY <1>1, Products
<1> HIDE DEF t
<1> QED BY <1>1, <1>2, <1>3
=============================================================================
