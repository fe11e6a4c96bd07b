--------------------------- MODULE RandomSourceProofs --------------------------
(***************************************************************************)
(* The generator for any modulus, any multiplier and any mask.             *)
(***************************************************************************)
EXTENDS RandomSource, TLAPS

LEMMA DrawTyping ==
  ASSUME NEW x \in UBase
  PROVE  /\ Successor(x) \in UBase
         /\ Output(x) \in 0 .. OutputRange - 1
<1>1. /\ Modulus \in Nat \ {0} /\ Divisor \in Nat \ {0}
      /\ OutputRange \in Nat \ {0} /\ Multiplier \in Nat
  BY RandomAssumption DEF RandomAssumption
<1>2. x \in Nat BY <1>1 DEF UBase
<1>3. Multiplier * x + 1 \in Nat BY <1>1, <1>2
<1>4. Successor(x) \in UBase BY <1>1, <1>3 DEF Successor, UBase
<1>5. x \div Divisor \in Nat BY <1>1, <1>2
<1>6. Output(x) \in 0 .. OutputRange - 1 BY <1>1, <1>5 DEF Output
<1>7. QED BY <1>4, <1>6

(* Whatever the seed, and however the two tasks interleave, every state of *)
(* the generator and every number it yields is in range.                   *)
THEOREM TypeCorrect == RandomSpec => []RandomTypeOK
<1>1. RandomInit => RandomTypeOK
  BY RandomAssumption DEF RandomAssumption, RandomInit, RandomTypeOK, UBase
<1>2. ASSUME RandomTypeOK, [RandomNext]_randomVars PROVE RandomTypeOK'
  <2> USE <1>2 DEF RandomTypeOK
  <2>1. CASE Load BY <2>1 DEF Load
  <2>2. CASE Store
    <3>1. ulNextRand' \in UBase /\ number' \in 0 .. OutputRange - 1
      BY <2>2, DrawTyping DEF Store
    <3>2. QED BY <2>2, <3>1 DEF Store
  <2>3. CASE Test BY <2>3 DEF Test
  <2>4. CASE Fill BY <2>4 DEF Fill
  <2>5. CASE StackDraw
    BY <2>5, DrawTyping, RandomAssumption DEF StackDraw, RandomAssumption
  <2>6. CASE UNCHANGED randomVars BY <2>6 DEF randomVars
  <2>7. QED BY <2>1, <2>2, <2>3, <2>4, <2>5, <2>6 DEF RandomNext, App
<1>3. QED BY <1>1, <1>2, PTL DEF RandomSpec
===============================================================================
