------------------------------- MODULE Intrinsics -----------------------------
(***************************************************************************)
(* The instructions that cmsis_gcc.h offers as functions: those that move  *)
(* bits and those that saturate.                                           *)
(* A word is the set of the numbers of its bits that are 1.                *)
(***************************************************************************)
EXTENDS Integers

Bits == 0 .. 31
ShiftRight(word, n) == {b - n : b \in {c \in word : c >= n}}
ShiftLeft(word, n) == {b + n : b \in {c \in word : c + n \in Bits}}

RORShift(word, n) ==
  IF n = 0 THEN word ELSE ShiftRight(word, n) \cup ShiftLeft(word, 32 - n)
ROR(word, n) ==
  IF n % 32 = 0 THEN word
  ELSE ShiftRight(word, n % 32) \cup ShiftLeft(word, 32 - (n % 32))
REV(word) == {8 * (3 - (b \div 8)) + (b % 8) : b \in word}
REV16(word) == {16 * (b \div 16) + ((b + 8) % 16) : b \in word}
(* The sign of the low half-word is extended.                              *)
REVSH(word) ==
  LET low == REV16(word) \cap 0 .. 15
  IN  low \cup (IF 15 \in low THEN 16 .. 31 ELSE {})
RBIT(word) == {31 - b : b \in word}
CLZ(word) ==
  IF word = {} THEN 32
  ELSE CHOOSE n \in Bits : 31 - n \in word /\ \A b \in word : b <= 31 - n
RRX(word, carry) == ShiftRight(word, 1) \cup (IF carry THEN {31} ELSE {})

(* To sat bits, which hold 2^sat values, the half of them negative for     *)
(* __SSAT(): limit stands for 2^( sat - 1 ) there and for 2^sat here.      *)
SSAT(value, limit) ==
  IF value < -limit THEN -limit ELSE IF value >= limit THEN limit - 1 ELSE value
USAT(value, limit) ==
  IF value < 0 THEN 0 ELSE IF value >= limit THEN limit - 1 ELSE value

(* The definitions in terms of one another and of what they stand for: no  *)
(* bit is lost, doubled or moved to another place.                         *)
MovesBits(word, n) ==
  /\ REV(REV(word)) = word /\ RBIT(RBIT(word)) = word
  /\ REV16(word) = ROR(REV(word), 16)
  /\ REVSH(word) \cap 0 .. 15 = REV16(word) \cap 0 .. 15
  /\ ROR(ROR(word, n), 64 - (n % 32)) = word
  /\ RRX(word, 0 \in word) = ROR(word, 1)
  /\ ShiftRight(word, 32 - CLZ(word)) = {} /\ (word # {} => 31 - CLZ(word) \in word)

(* The saturated value fits, and none that fits is closer.                 *)
Distance(v, w) == IF v < w THEN w - v ELSE v - w
ClosestOf(result, value, fitting) ==
  /\ result \in fitting
  /\ \A v \in fitting : Distance(result, value) <= Distance(v, value)

Saturates(value, limit) ==
  /\ ClosestOf(SSAT(value, limit), value, (-limit) .. limit - 1)
  /\ ClosestOf(USAT(value, limit), value, 0 .. limit - 1)
===============================================================================
