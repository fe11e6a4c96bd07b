------------------------------- MODULE Arithmetic ------------------------------
(***************************************************************************)
(* Facts about quotients and remainders by a variable, and about the least *)
(* element of a set of naturals, that the provers do not find themselves.  *)
(***************************************************************************)
EXTENDS Integers, WellFoundedInduction, TLAPS

(* Multiplication is monotone, by whole steps.                             *)
LEMMA Products ==
  ASSUME NEW R \in Nat \ {0}, NEW p \in Int, NEW q \in Int, p < q
  PROVE  R * p + R <= R * q
<1>1. PICK d \in Nat : q = p + 1 + d BY SMT
<1>2. R * d \in Nat OBVIOUS
<1>3. R * q = R * p + R + R * d BY <1>1
<1>4. QED BY <1>2, <1>3

(* Quotient and remainder give the number back.                            *)
LEMMA Division ==
  ASSUME NEW R \in Nat \ {0}, NEW a \in Int
  PROVE  /\ a = R * (a \div R) + (a % R)
         /\ a % R \in 0 .. R - 1 /\ a \div R \in Int
OBVIOUS

(* They are the only ones that do.                                         *)
LEMMA Remainder ==
  ASSUME NEW R \in Nat \ {0}, NEW q \in Int, NEW r \in 0 .. R - 1, NEW a \in Int,
         a = R * q + r
  PROVE  a % R = r /\ a \div R = q
<1>1. /\ a = R * (a \div R) + (a % R) /\ a % R \in 0 .. R - 1 /\ a \div R \in Int
  BY Division
<1>2. R * (a \div R) \in Int /\ R * q \in Int BY <1>1
<1>3. ~(a \div R < q)
  <2>1. SUFFICES ASSUME a \div R < q PROVE FALSE OBVIOUS
  <2>2. R * (a \div R) + R <= R * q BY <2>1, <1>1, Products
  <2>3. QED BY <2>2, <1>1, <1>2
<1>4. ~(q < a \div R)
  <2>1. SUFFICES ASSUME q < a \div R PROVE FALSE OBVIOUS
  <2>2. R * q + R <= R * (a \div R) BY <2>1, <1>1, Products
  <2>3. QED BY <2>2, <1>1, <1>2
<1>5. a \div R = q BY <1>1, <1>3, <1>4
<1>6. QED BY <1>1, <1>2, <1>5

(* A number below the divisor is its own remainder.                        *)
LEMMA SmallRemainder ==
  ASSUME NEW R \in Nat \ {0}, NEW r \in 0 .. R - 1
  PROVE  r % R = r
<1>1. r = R * 0 + r OBVIOUS
<1>2. QED BY <1>1, Remainder

(* Counting modulo R, one by one.                                          *)
LEMMA Successors ==
  ASSUME NEW R \in Nat \ {0}, NEW a \in Int
  PROVE  /\ (a + 1) % R = IF (a % R) + 1 = R THEN 0 ELSE (a % R) + 1
         /\ ((a % R) + 1) % R = (a + 1) % R
<1> DEFINE q == a \div R
           r == a % R
<1>1. a = R * q + r /\ r \in 0 .. R - 1 /\ q \in Int BY Division
<1>2. R * q \in Int BY <1>1
<1> HIDE DEF q, r
<1>3. CASE r + 1 = R
  <2>1. a + 1 = R * (q + 1) + 0
    <3>1. R * (q + 1) = R * q + R BY <1>1
    <3>2. QED BY <3>1, <1>1, <1>2, <1>3
  <2>2. (a + 1) % R = 0 BY <2>1, <1>1, Remainder
  <2>3. r + 1 = R * 1 + 0 BY <1>3
  <2>4. (r + 1) % R = 0 BY <2>3, <1>1, Remainder
  <2>5. QED BY <2>2, <2>4, <1>3 DEF r
<1>4. CASE r + 1 # R
  <2>1. a + 1 = R * q + (r + 1) /\ r + 1 \in 0 .. R - 1 BY <1>1, <1>2, <1>4
  <2>2. (a + 1) % R = r + 1 BY <2>1, <1>1, Remainder
  <2>3. r + 1 = R * 0 + (r + 1) BY <1>1
  <2>4. (r + 1) % R = r + 1 BY <2>1, <2>3, <1>1, Remainder
  <2>5. QED BY <2>2, <2>4, <1>4 DEF r
<1>5. QED BY <1>3, <1>4

(* A set of naturals that is not empty has a least element: induction      *)
(* without an operator.                                                    *)
LEMMA LeastNatural ==
  ASSUME NEW T \in SUBSET Nat, T # {}
  PROVE  \E x \in T : \A y \in T : x <= y
<1> DEFINE R == OpToRel(<, Nat)
<1>1. IsWellFoundedOn(R, Nat) BY NatLessThanWellFounded, Zenon
<1>2. \A x, y \in Nat : x < y => <<x, y>> \in R BY Zenon DEF OpToRel
<1> HIDE DEF R
<1>3. PICK x \in T : \A y \in T : ~(<<y, x>> \in R) BY <1>1, WFMin
<1>4. \A y \in T : ~(y < x) BY <1>2, <1>3
<1>5. \A y \in T : x <= y BY <1>4
<1>6. QED BY <1>3, <1>5
===============================================================================
