------------------------------- MODULE CmsisProofs -----------------------------
(***************************************************************************)
(* Proofs about the CMSIS functions, for every input that the hardware can *)
(* have.                                                                   *)
(***************************************************************************)
EXTENDS CmsisFunctions, Arithmetic

(* Words.  A word is a set of bits: two words with the same bits are the   *)
(* same, whatever moves they went through.                                 *)
LEMMA Rotated ==
  ASSUME NEW word \in SUBSET Bits, NEW n \in Nat
  PROVE  ROR(word, n) = {(b + 32 - (n % 32)) % 32 : b \in word}
<1> DEFINE k == n % 32
<1>1. k \in 0 .. 31 OBVIOUS
<1> HIDE DEF k
<1>2. CASE k = 0
  <2>1. \A b \in word : (b + 32 - k) % 32 = b BY <1>2 DEF Bits
  <2>2. ROR(word, n) = word BY <1>2 DEF ROR, k
  <2>3. QED BY <2>1, <2>2 DEF k
<1>3. CASE k # 0
  <2>1. ROR(word, n) = ShiftRight(word, k) \cup ShiftLeft(word, 32 - k)
    BY <1>3 DEF ROR, k
  <2>2. \A b \in word : b >= k => (b + 32 - k) % 32 = b - k BY <1>1 DEF Bits
  <2>3. \A b \in word : b < k => (b + 32 - k) % 32 = b + (32 - k) BY <1>1 DEF Bits
  <2>4. \A b \in word : b + (32 - k) \in Bits <=> b < k BY <1>1 DEF Bits
  <2>5. \A b \in word : b >= k <=> ~(b < k) BY <1>1 DEF Bits
  <2>6. ShiftRight(word, k) = {(b + 32 - k) % 32 : b \in {c \in word : c >= k}}
    BY <2>2 DEF ShiftRight
  <2>7. ShiftLeft(word, 32 - k) = {(b + 32 - k) % 32 : b \in {c \in word : c < k}}
    BY <2>3, <2>4 DEF ShiftLeft
  <2>8. QED BY <2>1, <2>5, <2>6, <2>7 DEF k
<1>4. QED BY <1>2, <1>3

LEMMA MovedBack ==
  ASSUME NEW word \in SUBSET Bits, NEW n \in Nat
  PROVE  ROR(ROR(word, n), 64 - (n % 32)) = word
<1> DEFINE k == n % 32
           there(b) == (b + 32 - k) % 32
           back(b) == (b + 32 - ((64 - k) % 32)) % 32
<1>1. k \in 0 .. 31 OBVIOUS
<1> HIDE DEF k
<1>2. \A b \in Bits : there(b) \in Bits /\ back(there(b)) = b BY <1>1 DEF Bits
<1>3. ROR(word, n) = {there(b) : b \in word} BY Rotated DEF k
<1>4. ROR(word, n) \in SUBSET Bits BY <1>2, <1>3
<1>5. ROR(ROR(word, n), 64 - k) = {back(b) : b \in ROR(word, n)}
  BY <1>1, <1>4, Rotated
<1> HIDE DEF there, back
<1>6. {back(b) : b \in {there(c) : c \in word}} = {back(there(c)) : c \in word}
  OBVIOUS
<1>7. {back(there(c)) : c \in word} = {c : c \in word} BY <1>2
<1>8. QED BY <1>3, <1>5, <1>6, <1>7 DEF k

LEMMA BytesReversed ==
  ASSUME NEW word \in SUBSET Bits
  PROVE  /\ REV(REV(word)) = word /\ RBIT(RBIT(word)) = word
         /\ REV16(word) = ROR(REV(word), 16)
         /\ REVSH(word) \cap 0 .. 15 = REV16(word) \cap 0 .. 15
<1> DEFINE rev(b) == 8 * (3 - (b \div 8)) + (b % 8)
<1>1. \A b \in Bits : rev(b) \in Bits /\ rev(rev(b)) = b BY DEF Bits
<1>2. REV(word) = {rev(b) : b \in word} BY DEF REV
<1>3. REV(word) \in SUBSET Bits BY <1>1, <1>2
<1>4. REV(REV(word)) = {rev(b) : b \in REV(word)} BY DEF REV
<1>5. \A b \in Bits : 16 * (b \div 16) + ((b + 8) % 16) = (rev(b) + 32 - (16 % 32)) % 32
  BY DEF Bits
<1>6. ROR(REV(word), 16) = {(b + 32 - (16 % 32)) % 32 : b \in REV(word)}
  BY <1>3, Rotated
<1> HIDE DEF rev
<1>7. REV(REV(word)) = word BY <1>1, <1>2, <1>4
<1>8. REV16(word) = ROR(REV(word), 16) BY <1>2, <1>5, <1>6 DEF REV16
<1>9. RBIT(RBIT(word)) = word
  <2>1. \A b \in word : 31 - (31 - b) = b BY DEF Bits
  <2>2. QED BY <2>1 DEF RBIT
<1>10. REVSH(word) \cap 0 .. 15 = REV16(word) \cap 0 .. 15 BY DEF REVSH
<1>11. QED BY <1>7, <1>8, <1>9, <1>10

LEMMA CarryRotated ==
  ASSUME NEW word \in SUBSET Bits
  PROVE  RRX(word, 0 \in word) = ROR(word, 1)
<1>1. ShiftLeft(word, 31) = IF 0 \in word THEN {31} ELSE {}
  <2>1. \A b \in word : b + 31 \in Bits <=> b = 0 BY DEF Bits
  <2>2. QED BY <2>1 DEF ShiftLeft
<1>2. 1 % 32 = 1 /\ 32 - 1 = 31 OBVIOUS
<1>3. QED BY <1>1, <1>2 DEF RRX, ROR

LEMMA ZerosCounted ==
  ASSUME NEW word \in SUBSET Bits
  PROVE  /\ ShiftRight(word, 32 - CLZ(word)) = {}
         /\ word # {} => 31 - CLZ(word) \in word
<1>1. CASE word = {} BY <1>1 DEF ShiftRight
<1>2. CASE word # {}
  <2> DEFINE T == {31 - b : b \in word}
             First(n) == 31 - n \in word /\ \A b \in word : b <= 31 - n
  <2>1. T \in SUBSET Nat /\ T # {}
    <3>1. \A b \in word : 31 - b \in Nat BY DEF Bits
    <3>2. QED BY <1>2, <3>1
  <2>2. PICK n \in T : \A m \in T : n <= m BY <2>1, LeastNatural
  <2>3. PICK b \in word : n = 31 - b BY <2>2
  <2>4. n \in Bits /\ 31 - n = b BY <2>3 DEF Bits
  <2>5. \A c \in word : c <= b
    <3>1. TAKE c \in word
    <3>2. 31 - c \in T OBVIOUS
    <3>3. 31 - b <= 31 - c BY <2>2, <2>3, <3>2
    <3>4. QED BY <2>4, <3>3 DEF Bits
  <2>6. First(n) BY <2>3, <2>4, <2>5
  <2>7. CLZ(word) = CHOOSE k \in Bits : First(k) BY <1>2 DEF CLZ
  <2> HIDE DEF First
  <2>8. CLZ(word) \in Bits /\ First(CLZ(word)) BY <2>4, <2>6, <2>7
  <2>9. CLZ(word) \in Int /\ 31 - CLZ(word) \in word
    BY <2>8 DEF Bits, First
  <2>10. \A c \in word : ~(c >= 32 - CLZ(word))
    <3>1. TAKE c \in word
    <3>2. c <= 31 - CLZ(word) BY <2>8 DEF First
    <3>3. QED BY <2>9, <3>2 DEF Bits
  <2>11. QED BY <2>9, <2>10 DEF ShiftRight
<1>3. QED BY <1>1, <1>2

LEMMA Saturated ==
  ASSUME NEW value \in Int, NEW limit \in Nat \ {0}
  PROVE  Saturates(value, limit)
BY DEF Saturates, ClosestOf, Distance, SSAT, USAT

(* The intrinsics of cmsis_gcc.h lose, double and misplace no bit of any   *)
(* word, and saturate every value to the closest one.                      *)
THEOREM BitsAreMoved == BoardSpec => []BitsMoved
<1>1. \A word \in Words, n \in Shifts : MovesBits(word, n)
  BY CmsisAssumption, BytesReversed, MovedBack, CarryRotated, ZerosCounted
  DEF CmsisAssumption, MovesBits
<1>2. \A value \in Values, limit \in Limits : Saturates(value, limit)
  BY CmsisAssumption, Saturated DEF CmsisAssumption
<1>3. BitsMoved BY <1>1, <1>2 DEF BitsMoved
<1>4. QED BY <1>3, PTL
-------------------------------------------------------------------------------
(* The interrupt controller.  The number of an interrupt is the number of  *)
(* its word and that of its bit, and of no other word and bit.             *)
LEMMA Places ==
  /\ \A irq \in IRQs : irq \in 0 .. 239 /\ Word(irq) \in InterruptWords /\ Bit(irq) \in 0 .. 31
  /\ \A irq, other \in IRQs : Word(irq) = Word(other) /\ Bit(irq) = Bit(other) => irq = other
  /\ SystemIRQs \subseteq -12 .. -1
<1>1. \A irq \in IRQs : irq \in 0 .. 239 /\ Word(irq) \in InterruptWords /\ Bit(irq) \in 0 .. 31
  BY CmsisAssumption DEF CmsisAssumption, InterruptWords, Word, Bit
<1>2. \A irq, other \in 0 .. 239 :
        Word(irq) = Word(other) /\ Bit(irq) = Bit(other) => irq = other
  BY DEF Word, Bit
<1>3. SystemIRQs \subseteq -12 .. -1 BY DEF SystemIRQs, HardFault_IRQn, IRQn_Type
<1>4. QED BY <1>1, <1>2, <1>3

LEMMA Numbers ==
  ASSUME NEW irq \in IRQs \cup SystemIRQs
  PROVE  /\ irq \in Int
         /\ irq >= 0 <=> irq \in IRQs
         /\ irq < 0 => irq \in -12 .. -1
<1>1. CASE irq \in IRQs
  <2>1. irq \in 0 .. 239 BY <1>1, Places
  <2>2. QED BY <1>1, <2>1
<1>2. CASE irq \in SystemIRQs
  <2>1. irq \in -12 .. -1 BY <1>2, Places
  <2>2. irq \notin IRQs BY <2>1, Places
  <2>3. QED BY <2>1, <2>2
<1>3. QED BY <1>1, <1>2

LEMMA TableIsFunction ==
  ASSUME NEW irq \in Int, NEW other \in Int,
         {irq + 17, other + 17} \subseteq DOMAIN isr_vector
  PROVE  GetVector(SetVector(isr_vector, irq, "other"), other)
           = IF other = irq THEN "other" ELSE GetVector(isr_vector, other)
<1> DEFINE v == isr_vector
<1>1. v = [x \in DOMAIN v |-> v[x]] BY DEF isr_vector
<1> HIDE DEF v
<1>2. irq + 16 + 1 = irq + 17 /\ other + 16 + 1 = other + 17 OBVIOUS
<1>3. irq + 17 = other + 17 <=> irq = other OBVIOUS
<1>4. irq + 17 \in DOMAIN v /\ other + 17 \in DOMAIN v BY DEF v
<1>5. GetVector(SetVector(v, irq, "other"), other)
        = IF other = irq THEN "other" ELSE GetVector(v, other)
  BY <1>2, <1>3, <1>4 DEF GetVector, SetVector
<1>6. QED BY <1>5 DEF v

LEMMA OneIsTouched ==
  ASSUME NEW n \in InterruptFile,
         NEW irq \in IRQs \cup SystemIRQs, NEW other \in IRQs \cup SystemIRQs
  PROVE  TouchesOne(n, irq, other)
<1>1. irq \in Int /\ other \in Int /\ (irq >= 0 <=> irq \in IRQs) /\ (other >= 0 <=> other \in IRQs)
  BY Numbers
<1>2. /\ irq >= 0 => Word(irq) \in InterruptWords
      /\ other >= 0 => Word(other) \in InterruptWords
      /\ irq >= 0 /\ other >= 0 /\ Word(irq) = Word(other) /\ Bit(irq) = Bit(other) => irq = other
  BY <1>1, Places
<1> HIDE DEF InterruptFile
<1>3. /\ GetEnableIRQ(EnableIRQ(n, irq), other)
           <=> GetEnableIRQ(n, other) \/ (other = irq /\ irq >= 0)
      /\ GetEnableIRQ(DisableIRQ(n, irq), other) <=> GetEnableIRQ(n, other) /\ other # irq
  BY <1>1, <1>2 DEF GetEnableIRQ, EnableIRQ, DisableIRQ, InterruptFile
<1>4. /\ GetPendingIRQ(SetPendingIRQ(n, irq), other)
           <=> GetPendingIRQ(n, other) \/ (other = irq /\ irq >= 0)
      /\ GetPendingIRQ(ClearPendingIRQ(n, irq), other) <=> GetPendingIRQ(n, other) /\ other # irq
  BY <1>1, <1>2 DEF GetPendingIRQ, SetPendingIRQ, ClearPendingIRQ, InterruptFile
<1>5. irq >= 0 => (GetActive(ActivateIRQ(n, irq), other) <=> GetActive(n, other) \/ other = irq)
  <2>1. SUFFICES ASSUME irq >= 0
                 PROVE  GetActive(ActivateIRQ(n, irq), other) <=> GetActive(n, other) \/ other = irq
    OBVIOUS
  <2>2. ActivateIRQ(n, irq).IABR = [n.IABR EXCEPT ![Word(irq)] = @ \cup {Bit(irq)}]
    BY <2>1 DEF ActivateIRQ, ClearPendingIRQ, InterruptFile
  <2>3. n.IABR \in [InterruptWords -> SUBSET (0 .. 31)] BY DEF InterruptFile
  <2>4. QED BY <1>1, <1>2, <2>1, <2>2, <2>3 DEF GetActive
<1>6. {irq + 17, other + 17} \subseteq DOMAIN isr_vector =>
        GetVector(SetVector(isr_vector, irq, "other"), other)
          = IF other = irq THEN "other" ELSE GetVector(isr_vector, other)
  BY <1>1, TableIsFunction
<1>7. QED BY <1>3, <1>4, <1>5, <1>6 DEF TouchesOne

(* A priority register is a byte: a priority in its implemented bits comes *)
(* back from it.                                                           *)
LEMMA PriorityFits ==
  ASSUME NEW priority \in 0 .. 255 \div PriorityStep
  PROVE  /\ PriorityByte(priority) \in 0 .. 255
         /\ PriorityByte(priority) = priority * PriorityStep
         /\ PriorityByte(priority) \div PriorityStep = priority
BY PriorityAssumption DEF PriorityAssumption, PriorityByte

LEMMA OnePriorityIsSet ==
  ASSUME NEW n \in InterruptFile, NEW priority \in 0 .. 255 \div PriorityStep,
         NEW irq \in IRQs \cup SystemIRQs, NEW other \in IRQs \cup SystemIRQs
  PROVE  SetsOnePriority(n, irq, other, priority)
<1>1. irq \in Int /\ other \in Int /\ (irq >= 0 <=> irq \in IRQs) /\ (other >= 0 <=> other \in IRQs)
  BY Numbers
<1>2. /\ irq < 0 => irq \in -12 .. -1
      /\ other < 0 => other \in -12 .. -1
  BY Numbers
<1>3. /\ irq < 0 => SystemHandler(irq) \in 0 .. 11
      /\ other < 0 => SystemHandler(other) \in 0 .. 11
      /\ irq < 0 /\ other < 0 /\ SystemHandler(irq) = SystemHandler(other) => irq = other
  BY <1>2 DEF SystemHandler
<1>4. PriorityByte(priority) \div PriorityStep = priority BY PriorityFits
<1>5. n.IP \in [IRQs -> 0 .. 255] /\ n.SHP \in [0 .. 11 -> 0 .. 255] BY DEF InterruptFile
<1>6. CASE irq >= 0
  <2>1. /\ SetPriority(n, irq, priority).IP = [n.IP EXCEPT ![irq] = PriorityByte(priority)]
        /\ SetPriority(n, irq, priority).SHP = n.SHP
    BY <1>6 DEF SetPriority, InterruptFile
  <2>2. QED BY <1>1, <1>4, <1>5, <1>6, <2>1 DEF SetsOnePriority, GetPriority
<1>7. CASE irq < 0
  <2>1. /\ SetPriority(n, irq, priority).SHP =
             [n.SHP EXCEPT ![SystemHandler(irq)] = PriorityByte(priority)]
        /\ SetPriority(n, irq, priority).IP = n.IP
    BY <1>1, <1>7 DEF SetPriority, InterruptFile
  <2>2. QED BY <1>1, <1>3, <1>4, <1>5, <1>7, <2>1 DEF SetsOnePriority, GetPriority
<1>8. QED BY <1>1, <1>6, <1>7

(* For every state of the interrupt controller and every two of its        *)
(* interrupts and exceptions.                                              *)
THEOREM InterruptsAreIndependent == BoardSpec => []InterruptsIndependent
<1>1. InterruptsIndependent
  BY CmsisAssumption, OneIsTouched, OnePriorityIsSet
  DEF CmsisAssumption, InterruptsIndependent
<1>2. QED BY <1>1, PTL
-------------------------------------------------------------------------------
(* The core registers.  Every value in a register is one that survives     *)
(* being written to it.                                                    *)
LEMMA Survives ==
  ASSUME NEW saved \in CoreState
  PROVE  /\ saved.MSP - (saved.MSP % 4) = saved.MSP
         /\ saved.PSP - (saved.PSP % 4) = saved.PSP
         /\ saved.PRIMASK % 2 = saved.PRIMASK /\ saved.FAULTMASK % 2 = saved.FAULTMASK
         /\ Implemented(saved.BASEPRI) = saved.BASEPRI
         /\ get_CONTROL(saved) % 2 = saved.nPRIV
         /\ (get_CONTROL(saved) \div 2) % 2 = saved.SPSEL
<1>1. /\ saved.MSP \in StackPointer /\ saved.PSP \in StackPointer
      /\ saved.PRIMASK \in {0, 1} /\ saved.FAULTMASK \in {0, 1}
      /\ saved.nPRIV \in {0, 1} /\ saved.SPSEL \in {0, 1}
  BY DEF CoreState
<1>2. PICK p \in 0 .. 255 : saved.BASEPRI = Implemented(p) BY DEF CoreState
<1>3. Implemented(Implemented(p)) = Implemented(p)
  BY PriorityAssumption DEF PriorityAssumption, Implemented
<1>4. get_CONTROL(saved) % 2 = saved.nPRIV /\ (get_CONTROL(saved) \div 2) % 2 = saved.SPSEL
  BY <1>1 DEF get_CONTROL
<1>5. saved.MSP - (saved.MSP % 4) = saved.MSP /\ saved.PSP - (saved.PSP % 4) = saved.PSP
  <2>1. \A a \in StackPointer : a - (a % 4) = a BY DEF StackPointer
  <2>2. QED BY <1>1, <2>1
<1>6. saved.PRIMASK % 2 = saved.PRIMASK /\ saved.FAULTMASK % 2 = saved.FAULTMASK
  BY <1>1
<1>7. QED BY <1>2, <1>3, <1>4, <1>5, <1>6

(* What Restore writes, register by register: the privilege is there until *)
(* the last one, as none of those before it decides on it.                 *)
LEMMA Restored ==
  ASSUME NEW now \in CoreState, NEW saved \in CoreState,
         Privileged(now), Privileged(saved)
  PROVE  Restore(now, saved) =
           [saved EXCEPT !.IPSR = get_IPSR(now), !.SPSEL = StackKept(now, saved)]
<1> DEFINE core(msp, psp, primask, faultmask, basepri) ==
             [nPRIV |-> now.nPRIV, SPSEL |-> now.SPSEL, IPSR |-> now.IPSR, MSP |-> msp,
              PSP |-> psp, PRIMASK |-> primask, FAULTMASK |-> faultmask, BASEPRI |-> basepri]
           c0 == core(now.MSP, now.PSP, now.PRIMASK, now.FAULTMASK, now.BASEPRI)
           c1 == core(saved.MSP, now.PSP, now.PRIMASK, now.FAULTMASK, now.BASEPRI)
           c2 == core(saved.MSP, saved.PSP, now.PRIMASK, now.FAULTMASK, now.BASEPRI)
           c3 == core(saved.MSP, saved.PSP, saved.PRIMASK, now.FAULTMASK, now.BASEPRI)
           c4 == core(saved.MSP, saved.PSP, saved.PRIMASK, saved.FAULTMASK, now.BASEPRI)
           c5 == core(saved.MSP, saved.PSP, saved.PRIMASK, saved.FAULTMASK, saved.BASEPRI)
<1>1. /\ get_MSP(saved) = saved.MSP /\ get_PSP(saved) = saved.PSP
      /\ get_PRIMASK(saved) = saved.PRIMASK /\ get_FAULTMASK(saved) = saved.FAULTMASK
      /\ get_BASEPRI(saved) = saved.BASEPRI
  BY DEF get_MSP, get_PSP, get_PRIMASK, get_FAULTMASK, get_BASEPRI, ReadOf
<1>2. \A c : c.nPRIV = now.nPRIV /\ c.IPSR = now.IPSR => Privileged(c) BY DEF Privileged
<1>3. c0 = now BY DEF CoreState
<1>4. set_MSP(c0, saved.MSP) = c1 BY <1>2, Survives DEF set_MSP, Written
<1>5. set_PSP(c1, saved.PSP) = c2 BY <1>2, Survives DEF set_PSP, Written
<1>6. set_PRIMASK(c2, saved.PRIMASK) = c3 BY <1>2, Survives DEF set_PRIMASK, Written
<1>7. set_FAULTMASK(c3, saved.FAULTMASK) = c4 BY <1>2, Survives DEF set_FAULTMASK, Written
<1>8. set_BASEPRI(c4, saved.BASEPRI) = c5 BY <1>2, Survives DEF set_BASEPRI, Written
<1>9. get_IPSR(now) = now.IPSR BY DEF get_IPSR, ReadOf
<1> DEFINE last == [nPRIV |-> saved.nPRIV, SPSEL |-> StackKept(now, saved),
                    IPSR |-> now.IPSR, MSP |-> saved.MSP, PSP |-> saved.PSP,
                    PRIMASK |-> saved.PRIMASK, FAULTMASK |-> saved.FAULTMASK,
                    BASEPRI |-> saved.BASEPRI]
<1>10. set_CONTROL(c5, get_CONTROL(saved)) = last
  <2>1. StackKept(now, saved) = IF c5.IPSR = 0 THEN (get_CONTROL(saved) \div 2) % 2 ELSE c5.SPSEL
    BY <1>9, Survives DEF StackKept
  <2>2. set_CONTROL(c5, get_CONTROL(saved)) =
          [c5 EXCEPT !.nPRIV = get_CONTROL(saved) % 2, !.SPSEL = StackKept(now, saved)]
    BY <1>2, <2>1 DEF set_CONTROL, Written
  <2>3. \A p, s : [c5 EXCEPT !.nPRIV = p, !.SPSEL = s] =
                   [nPRIV |-> p, SPSEL |-> s, IPSR |-> now.IPSR, MSP |-> saved.MSP,
                    PSP |-> saved.PSP, PRIMASK |-> saved.PRIMASK,
                    FAULTMASK |-> saved.FAULTMASK, BASEPRI |-> saved.BASEPRI]
    <3> DEFINE all(p, s) ==
                 [nPRIV |-> p, SPSEL |-> s, IPSR |-> now.IPSR, MSP |-> saved.MSP,
                  PSP |-> saved.PSP, PRIMASK |-> saved.PRIMASK,
                  FAULTMASK |-> saved.FAULTMASK, BASEPRI |-> saved.BASEPRI]
    <3>1. \A p, s, o : [all(p, s) EXCEPT !.nPRIV = o] = all(o, s) OBVIOUS
    <3>2. \A p, s, o : [all(p, s) EXCEPT !.SPSEL = o] = all(p, o) OBVIOUS
    <3>3. c5 = all(now.nPRIV, now.SPSEL) OBVIOUS
    <3> HIDE DEF all, c5
    <3>4. TAKE p, s
    <3>5. [c5 EXCEPT !.nPRIV = p] = all(p, now.SPSEL) BY <3>1, <3>3
    <3>6. [all(p, now.SPSEL) EXCEPT !.SPSEL = s] = all(p, s) BY <3>2
    <3>7. [c5 EXCEPT !.nPRIV = p, !.SPSEL = s] = all(p, s) BY <3>5, <3>6
    <3>8. QED BY <3>7 DEF all
  <2>4. get_CONTROL(saved) % 2 = saved.nPRIV BY Survives
  <2> HIDE DEF c5
  <2>5. QED BY <2>2, <2>3, <2>4
<1>11. [saved EXCEPT !.IPSR = now.IPSR, !.SPSEL = StackKept(now, saved)] = last
  <2> DEFINE all(s, i) == [nPRIV |-> saved.nPRIV, SPSEL |-> s, IPSR |-> i,
                           MSP |-> saved.MSP, PSP |-> saved.PSP, PRIMASK |-> saved.PRIMASK,
                           FAULTMASK |-> saved.FAULTMASK, BASEPRI |-> saved.BASEPRI]
  <2>1. saved = all(saved.SPSEL, saved.IPSR) BY DEF CoreState
  <2>2. \A s, i, j : [all(s, i) EXCEPT !.IPSR = j] = all(s, j) OBVIOUS
  <2>3. \A s, i, t : [all(s, i) EXCEPT !.SPSEL = t] = all(t, i) OBVIOUS
  <2>4. last = all(StackKept(now, saved), now.IPSR) OBVIOUS
  <2>5. [saved EXCEPT !.IPSR = now.IPSR, !.SPSEL = StackKept(now, saved)]
          = [[saved EXCEPT !.IPSR = now.IPSR] EXCEPT !.SPSEL = StackKept(now, saved)]
    OBVIOUS
  <2> HIDE DEF all, last
  <2>6. [saved EXCEPT !.IPSR = now.IPSR] = all(saved.SPSEL, now.IPSR)
    <3>1. [all(saved.SPSEL, saved.IPSR) EXCEPT !.IPSR = now.IPSR] = all(saved.SPSEL, now.IPSR)
      BY <2>2
    <3>2. QED BY <2>1, <3>1, Zenon
  <2>7. [all(saved.SPSEL, now.IPSR) EXCEPT !.SPSEL = StackKept(now, saved)]
          = all(StackKept(now, saved), now.IPSR)
    BY <2>3
  <2>8. QED BY <2>4, <2>5, <2>6, <2>7
<1> HIDE DEF c0, c1, c2, c3, c4, c5, last
<1>12. Restore(now, saved) = last
  BY <1>1, <1>3, <1>4, <1>5, <1>6, <1>7, <1>8, <1>10 DEF Restore
<1>13. QED BY <1>9, <1>11, <1>12

LEMMA ContextIsKept ==
  ASSUME NEW now \in CoreState, NEW saved \in CoreState
  PROVE  KeepsContext(now, saved)
<1>1. CASE Privileged(now)
  <2>1. Privileged(saved) =>
          Restore(now, saved) =
            [saved EXCEPT !.IPSR = get_IPSR(now), !.SPSEL = StackKept(now, saved)]
    BY <1>1, Restored
  <2>2. /\ get_FAULTMASK(disable_fault_irq(now)) = 1
        /\ enable_fault_irq(disable_fault_irq(now)) = enable_fault_irq(now)
    BY <1>1 DEF get_FAULTMASK, disable_fault_irq, enable_fault_irq, ReadOf, Written,
                Privileged, CoreState
  <2>3. QED BY <1>1, <2>1, <2>2 DEF KeepsContext
<1>2. CASE ~Privileged(now)
  <2>1. Restore(now, saved) = now
    BY <1>2 DEF Restore, set_CONTROL, set_BASEPRI, set_FAULTMASK, set_PRIMASK, set_PSP,
                set_MSP, Written
  <2>2. disable_fault_irq(now) = now /\ enable_fault_irq(now) = now
    BY <1>2 DEF disable_fault_irq, enable_fault_irq, Written
  <2>3. QED BY <1>2, <2>1, <2>2 DEF KeepsContext
<1>3. QED BY <1>1, <1>2

(* Nine bits make a number, and no other one.                              *)
LEMMA SameBits ==
  ASSUME NEW x \in 0 .. 511, NEW y \in 0 .. 511,
         \A b \in 0 .. 8 : (x \div PowerOf2[b + 1]) % 2 = (y \div PowerOf2[b + 1]) % 2
  PROVE  x = y
<1> DEFINE bit(z, p) == (z \div p) % 2
           rest(z, p) == z \div p
           Digits(z) ==
             /\ rest(z, 256) = bit(z, 256) /\ rest(z, 128) = 2 * rest(z, 256) + bit(z, 128)
             /\ rest(z, 64) = 2 * rest(z, 128) + bit(z, 64) /\ rest(z, 32) = 2 * rest(z, 64) + bit(z, 32)
             /\ rest(z, 16) = 2 * rest(z, 32) + bit(z, 16) /\ rest(z, 8) = 2 * rest(z, 16) + bit(z, 8)
             /\ rest(z, 4) = 2 * rest(z, 8) + bit(z, 4) /\ rest(z, 2) = 2 * rest(z, 4) + bit(z, 2)
             /\ z = 2 * rest(z, 2) + bit(z, 1)
<1>1. Digits(x) /\ Digits(y) OBVIOUS
<1>2. /\ bit(x, 1) = bit(y, 1) /\ bit(x, 2) = bit(y, 2) /\ bit(x, 4) = bit(y, 4)
      /\ bit(x, 8) = bit(y, 8) /\ bit(x, 16) = bit(y, 16) /\ bit(x, 32) = bit(y, 32)
      /\ bit(x, 64) = bit(y, 64) /\ bit(x, 128) = bit(y, 128) /\ bit(x, 256) = bit(y, 256)
  BY DEF PowerOf2
<1> HIDE DEF bit, rest
<1>3. rest(x, 64) = rest(y, 64) BY <1>1, <1>2
<1>4. rest(x, 8) = rest(y, 8) BY <1>1, <1>2, <1>3
<1>5. QED BY <1>1, <1>2, <1>4

LEMMA StatusIsRead ==
  ASSUME NEW now \in CoreState, NEW other \in CoreState, NEW flags \in SUBSET DOMAIN APSR
  PROVE  ReadsStatus(now, other, flags)
<1> DEFINE word == get_xPSR(now, flags)
           bits(x) == {b \in 0 .. 8 : (x \div PowerOf2[b + 1]) % 2 = 1}
<1>1. get_IPSR(now) \in 0 .. 511 /\ get_IPSR(other) \in 0 .. 511
  BY DEF get_IPSR, ReadOf, CoreState
<1>2. \A f \in DOMAIN APSR : APSR[f] \in 27 .. 31 BY DEF APSR
<1>3. \A f, g \in DOMAIN APSR : APSR[f] = APSR[g] => f = g BY DEF APSR
<1>4. word = {APSR[f] : f \in flags} \cup bits(get_IPSR(now))
  BY DEF get_xPSR, get_APSR
<1>5. get_xPSR(other, {}) = bits(get_IPSR(other)) BY DEF get_xPSR, get_APSR
<1>6. {f \in DOMAIN APSR : APSR[f] \in word} = flags BY <1>2, <1>3, <1>4
<1>7. word \cap 0 .. 8 = bits(get_IPSR(now)) BY <1>2, <1>4
<1>8. get_xPSR(other, {}) \cap 0 .. 8 = bits(get_IPSR(other)) BY <1>5
<1>9. bits(get_IPSR(now)) = bits(get_IPSR(other)) => get_IPSR(now) = get_IPSR(other)
  <2>1. SUFFICES ASSUME bits(get_IPSR(now)) = bits(get_IPSR(other))
                 PROVE  get_IPSR(now) = get_IPSR(other)
    OBVIOUS
  <2>2. \A b \in 0 .. 8 : PowerOf2[b + 1] \in Nat \ {0} BY DEF PowerOf2
  <2>3. \A b \in 0 .. 8 : (get_IPSR(now) \div PowerOf2[b + 1]) % 2
                            = (get_IPSR(other) \div PowerOf2[b + 1]) % 2
    <3>1. TAKE b \in 0 .. 8
    <3>2. (get_IPSR(now) \div PowerOf2[b + 1]) % 2 = 1
            <=> (get_IPSR(other) \div PowerOf2[b + 1]) % 2 = 1
      BY <2>1
    <3>3. \A x \in 0 .. 511 : (x \div PowerOf2[b + 1]) % 2 \in {0, 1} BY <2>2
    <3>4. /\ (get_IPSR(now) \div PowerOf2[b + 1]) % 2 \in {0, 1}
          /\ (get_IPSR(other) \div PowerOf2[b + 1]) % 2 \in {0, 1}
      BY <1>1, <3>3
    <3>5. \A u, v \in {0, 1} : (u = 1 <=> v = 1) => u = v OBVIOUS
    <3>6. QED BY <3>2, <3>4, <3>5, Zenon
  <2>4. QED BY <1>1, <2>3, SameBits
<1> HIDE DEF word, bits
<1>10. QED BY <1>6, <1>7, <1>8, <1>9 DEF ReadsStatus, word

(* For every two states of the core registers and all flags.               *)
THEOREM ContextsAreKept == BoardSpec => []ContextsKept
<1>1. ContextsKept
  BY CmsisAssumption, ContextIsKept, StatusIsRead DEF CmsisAssumption, ContextsKept
<1>2. QED BY <1>1, PTL
-------------------------------------------------------------------------------
(* Encoded priorities.  The implemented bits of a byte are split into two  *)
(* parts, and the split is at the bit that the grouping says, or below all *)
(* of them.                                                                *)
LEMMA Powers ==
  /\ \A p \in 1 .. 9 : PowerOf2[p] \in 1 .. 256
  /\ \A p, q \in 1 .. 9 : p + q <= 10 => PowerOf2[p] * PowerOf2[q] = PowerOf2[p + q - 1]
<1>1. /\ PowerOf2[1] = 1 /\ PowerOf2[2] = 2 /\ PowerOf2[3] = 4 /\ PowerOf2[4] = 8
      /\ PowerOf2[5] = 16 /\ PowerOf2[6] = 32 /\ PowerOf2[7] = 64 /\ PowerOf2[8] = 128
      /\ PowerOf2[9] = 256
  BY DEF PowerOf2
<1>2. \A p \in 1 .. 9 : PowerOf2[p] \in 1 .. 256 BY <1>1
<1>3. \A p \in 1 .. 8 : PowerOf2[p + 1] = 2 * PowerOf2[p] BY <1>1
<1>4. ASSUME NEW p \in 1 .. 9, NEW q \in 1 .. 9, p + q <= 10
      PROVE  PowerOf2[p] * PowerOf2[q] = PowerOf2[p + q - 1]
  <2>1. PowerOf2[p] \in Int BY <1>2
  <2>2. q >= 2 => PowerOf2[p + 1] = 2 * PowerOf2[p] BY <1>3, <1>4
  <2>3. q >= 3 => PowerOf2[p + 2] = 4 * PowerOf2[p]
    <3>1. q >= 3 => PowerOf2[(p + 1) + 1] = 2 * PowerOf2[p + 1] BY <1>3, <1>4
    <3>2. (p + 1) + 1 = p + 2 OBVIOUS
    <3>3. QED BY <2>1, <2>2, <3>1, <3>2
  <2>4. q >= 4 => PowerOf2[p + 3] = 8 * PowerOf2[p]
    <3>1. q >= 4 => PowerOf2[(p + 2) + 1] = 2 * PowerOf2[p + 2] BY <1>3, <1>4
    <3>2. (p + 2) + 1 = p + 3 OBVIOUS
    <3>3. QED BY <2>1, <2>3, <3>1, <3>2
  <2>5. q >= 5 => PowerOf2[p + 4] = 16 * PowerOf2[p]
    <3>1. q >= 5 => PowerOf2[(p + 3) + 1] = 2 * PowerOf2[p + 3] BY <1>3, <1>4
    <3>2. (p + 3) + 1 = p + 4 OBVIOUS
    <3>3. QED BY <2>1, <2>4, <3>1, <3>2
  <2>6. q >= 6 => p \in 1 .. 4 BY <1>4
  <2>7. CASE q <= 5 BY <1>1, <2>1, <2>2, <2>3, <2>4, <2>5, <2>7
  <2>8. CASE q >= 6 BY <1>1, <1>4, <2>6, <2>8
  <2>9. QED BY <2>7, <2>8
<1>5. QED BY <1>2, <1>4

SplitsByte(S, Q, T, D) ==
  /\ S \in 1 .. 256 /\ Q \in 1 .. 256 /\ D \in 1 .. 256
  /\ S * Q * T = 256
  /\ D = S * T \/ (S = 1 /\ \E k \in 1 .. 256 : T = D * k)

LEMMA Split ==
  ASSUME NEW group \in 0 .. 7
  PROVE  SplitsByte(PowerOf2[SubBits(group) + 1], PowerOf2[PreemptBits(group) + 1],
                    PriorityStep, PowerOf2[group + 2])
<1> DEFINE bits == PriorityBits
<1>1. bits \in 1 .. 8 /\ PowerOf2[9 - bits] = PriorityStep
  <2>1. \E b \in 1 .. 8 : PowerOf2[9 - b] = PriorityStep
    BY PriorityAssumption DEF PriorityAssumption, PowerOf2
  <2>2. QED BY <2>1 DEF PriorityBits
<1>2. PreemptBits(group) = IF 7 - group > bits THEN bits ELSE 7 - group
  BY DEF PreemptBits
<1>3. SubBits(group) = IF group + bits < 7 THEN 0 ELSE group + bits - 7 BY DEF SubBits
<1> HIDE DEF bits
<1>4. PowerOf2[1] = 1 /\ PowerOf2[9] = 256 BY DEF PowerOf2
<1>5. CASE group + bits < 7
  <2>1. SubBits(group) + 1 = 1 /\ PreemptBits(group) + 1 = bits + 1
    BY <1>1, <1>2, <1>3, <1>5
  <2>2. PowerOf2[bits + 1] * PowerOf2[9 - bits] = 256
    <3>1. bits + 1 + (9 - bits) <= 10 /\ bits + 1 + (9 - bits) - 1 = 9 BY <1>1
    <3>2. bits + 1 \in 1 .. 9 /\ 9 - bits \in 1 .. 9 BY <1>1
    <3>3. QED BY <1>4, <3>1, <3>2, Powers
  <2>3. PriorityStep = PowerOf2[group + 2] * PowerOf2[8 - bits - group]
    <3>1. group + 2 \in 1 .. 9 /\ 8 - bits - group \in 1 .. 9 BY <1>1, <1>5
    <3>2. /\ group + 2 + (8 - bits - group) <= 10
          /\ group + 2 + (8 - bits - group) - 1 = 9 - bits
      BY <1>1
    <3>3. QED BY <1>1, <3>1, <3>2, Powers
  <2>4. /\ bits + 1 \in 1 .. 9 /\ group + 2 \in 1 .. 9 /\ 8 - bits - group \in 1 .. 9
    BY <1>1, <1>5
  <2>5. /\ PowerOf2[bits + 1] \in 1 .. 256 /\ PowerOf2[group + 2] \in 1 .. 256
        /\ PowerOf2[8 - bits - group] \in 1 .. 256
    BY <2>4, Powers
  <2>6. 1 * PowerOf2[bits + 1] * PriorityStep = 256 BY <1>1, <2>2, <2>5
  <2>7. \E k \in 1 .. 256 : PriorityStep = PowerOf2[group + 2] * k BY <2>3, <2>5
  <2>8. QED BY <1>4, <2>1, <2>5, <2>6, <2>7 DEF SplitsByte
<1>6. CASE group + bits >= 7
  <2>1. SubBits(group) + 1 = group + bits - 6 /\ PreemptBits(group) + 1 = 8 - group
    BY <1>1, <1>2, <1>3, <1>6
  <2>2. /\ group + bits - 6 \in 1 .. 9 /\ 9 - bits \in 1 .. 9
        /\ group + 2 \in 1 .. 9 /\ 8 - group \in 1 .. 9
    BY <1>1, <1>6
  <2>3. PowerOf2[group + bits - 6] * PowerOf2[9 - bits] = PowerOf2[group + 2]
    <3>1. /\ group + bits - 6 + (9 - bits) <= 10
          /\ group + bits - 6 + (9 - bits) - 1 = group + 2
      BY <1>1
    <3>2. QED BY <2>2, <3>1, Powers
  <2>4. PowerOf2[group + 2] * PowerOf2[8 - group] = 256
    <3>1. group + 2 + (8 - group) <= 10 /\ group + 2 + (8 - group) - 1 = 9 OBVIOUS
    <3>2. QED BY <1>4, <2>2, <3>1, Powers
  <2>5. /\ PowerOf2[group + bits - 6] \in 1 .. 256 /\ PowerOf2[8 - group] \in 1 .. 256
        /\ PowerOf2[group + 2] \in 1 .. 256 /\ PowerOf2[9 - bits] \in 1 .. 256
    BY <2>2, Powers
  <2>6. PowerOf2[group + bits - 6] * PowerOf2[8 - group] * PowerOf2[9 - bits] = 256
    <3> DEFINE S == PowerOf2[group + bits - 6]
               Q == PowerOf2[8 - group]
               T == PowerOf2[9 - bits]
               D == PowerOf2[group + 2]
    <3>1. S \in Int /\ Q \in Int /\ T \in Int /\ D \in Int BY <2>5
    <3>2. S * T = D /\ D * Q = 256 BY <2>3, <2>4
    <3> HIDE DEF S, Q, T, D
    <3>3. S * Q * T = (S * T) * Q BY <3>1
    <3>4. S * Q * T = 256 BY <3>2, <3>3, Zenon
    <3>5. QED BY <3>4 DEF S, Q, T
  <2>7. QED BY <1>1, <2>1, <2>3, <2>5, <2>6 DEF SplitsByte
<1>7. group + bits < 7 \/ group + bits >= 7 BY <1>1
<1>8. QED BY <1>5, <1>6, <1>7

LEMMA Decoded ==
  ASSUME NEW group \in 0 .. 7, NEW x \in Nat, NEW y \in Nat
  PROVE  DecodePriority(EncodePriority(group, x, y), group)
           = <<x % PowerOf2[PreemptBits(group) + 1], y % PowerOf2[SubBits(group) + 1]>>
<1> DEFINE S == PowerOf2[SubBits(group) + 1]
           Q == PowerOf2[PreemptBits(group) + 1]
           u == x % Q
           v == y % S
           enc == EncodePriority(group, x, y)
<1>1. S \in Nat \ {0} /\ Q \in Nat \ {0}
  <2>1. SplitsByte(S, Q, PriorityStep, PowerOf2[group + 2]) BY Split
  <2> HIDE DEF S, Q
  <2>2. S \in 1 .. 256 /\ Q \in 1 .. 256 BY <2>1, Zenon DEF SplitsByte
  <2>3. QED BY <2>2
<1>2. enc = u * S + v BY DEF EncodePriority
<1>3. DecodePriority(enc, group) = <<(enc \div S) % Q, enc % S>> BY DEF DecodePriority
<1> HIDE DEF S, Q, enc
<1>4. u \in 0 .. Q - 1 /\ v \in 0 .. S - 1 BY <1>1, Division
<1>5. u % Q = u BY <1>1, <1>4, SmallRemainder
<1> HIDE DEF u, v
<1>6. enc = S * u + v /\ u \in Int /\ enc \in Int BY <1>1, <1>2, <1>4
<1>7. enc % S = v /\ enc \div S = u BY <1>1, <1>4, <1>6, Remainder
<1>8. DecodePriority(enc, group) = <<u, v>> BY <1>3, <1>5, <1>7, Zenon
<1>9. QED BY <1>8 DEF enc, u, v, Q, S

(* A byte that holds the two parts has a group priority that depends on    *)
(* the first one alone, and is a multiple of it.                           *)
GroupsByFirst(S, Q, T, D, E) ==
  \A x \in 0 .. Q - 1, y \in 0 .. S - 1 :
    (((x * S + y) * T) % 256) - ((((x * S + y) * T) % 256) % D) = E * x

LEMMA GroupedByte ==
  ASSUME NEW S, NEW Q, NEW T, NEW D, T \in 1 .. 256, SplitsByte(S, Q, T, D)
  PROVE  \E E \in Nat \ {0} : GroupsByFirst(S, Q, T, D, E)
<1>1. /\ S \in 1 .. 256 /\ Q \in 1 .. 256 /\ D \in 1 .. 256
      /\ S * Q * T = 256
      /\ D = S * T \/ (S = 1 /\ \E k \in 1 .. 256 : T = D * k)
  BY Zenon DEF SplitsByte
<1>2. /\ S \in Nat \ {0} /\ Q \in Nat \ {0} /\ T \in Nat \ {0} /\ D \in Nat \ {0}
  BY <1>1
<1>3. ASSUME NEW x \in 0 .. Q - 1, NEW y \in 0 .. S - 1
      PROVE  ((x * S + y) * T) % 256 = (x * S + y) * T
  <2>1. S * x + S <= S * Q BY <1>3, <1>2, Products
  <2>2. S * x \in Nat /\ S * Q \in Nat /\ x * S = S * x BY <1>3, <1>2
  <2>3. PICK enc \in Nat : enc = x * S + y BY <1>3, <1>2, <2>2
  <2>4. enc < S * Q BY <1>3, <1>2, <2>1, <2>2, <2>3
  <2>5. T * enc + T <= T * (S * Q) BY <1>2, <2>2, <2>4, Products
  <2>6. T * (S * Q) = 256 /\ T * enc = enc * T /\ T * enc \in Nat BY <1>1, <1>2, <2>2, <2>3
  <2>7. enc * T \in 0 .. 255 BY <2>5, <2>6
  <2>8. QED BY <2>3, <2>7
<1>4. CASE D = S * T
  <2>1. ASSUME NEW x \in 0 .. Q - 1, NEW y \in 0 .. S - 1
        PROVE  (x * S + y) * T - (((x * S + y) * T) % D) = D * x
    <3>1. x \in Int /\ y \in Int BY <2>1
    <3>2. (x * S + y) * T = D * x + y * T BY <1>4, <1>2, <3>1
    <3>3. y * T \in 0 .. D - 1
      <4>1. T * y + T <= T * S BY <1>2, <2>1, Products
      <4>2. T * S = D /\ T * y = y * T /\ T * y \in Nat BY <1>4, <1>2, <2>1
      <4>3. QED BY <1>2, <4>1, <4>2
    <3>4. PICK r \in 0 .. D - 1 : r = y * T BY <3>3
    <3>5. D * x \in Int BY <1>2, <3>1
    <3>6. PICK z \in Int : z = D * x + r BY <3>4, <3>5
    <3>7. z % D = r
      <4>1. D \in Nat \ {0} BY <1>2
      <4>2. QED BY <4>1, <3>1, <3>4, <3>6, Remainder, SMTT(60)
    <3>8. (x * S + y) * T = z BY <3>2, <3>4, <3>6
    <3>9. z - r = D * x BY <3>4, <3>5, <3>6
    <3>10. QED BY <3>7, <3>8, <3>9
  <2>2. ASSUME NEW x \in 0 .. Q - 1, NEW y \in 0 .. S - 1
        PROVE  (((x * S + y) * T) % 256) - ((((x * S + y) * T) % 256) % D) = D * x
    <3> DEFINE e == (x * S + y) * T
    <3>1. e % 256 = e BY <1>3, <2>2
    <3>2. e - (e % D) = D * x BY <2>1
    <3> HIDE DEF e
    <3>3. (e % 256) - ((e % 256) % D) = D * x BY <3>1, <3>2
    <3>4. QED BY <3>3 DEF e
  <2>3. QED BY <1>2, <2>2 DEF GroupsByFirst
<1>5. CASE S = 1 /\ \E k \in 1 .. 256 : T = D * k
  <2>1. PICK k \in 1 .. 256 : T = D * k BY <1>5
  <2>2. ASSUME NEW x \in 0 .. Q - 1, NEW y \in 0 .. S - 1
        PROVE  (x * S + y) * T - (((x * S + y) * T) % D) = T * x
    <3>1. x \in Int /\ y = 0 BY <1>5, <2>2
    <3>2. (x * S + y) * T = T * x BY <1>5, <1>2, <3>1
    <3>3. T * x = D * (k * x) + 0 /\ k * x \in Int /\ T * x \in Int BY <1>2, <2>1, <3>1
    <3>4. PICK q \in Int : q = k * x BY <3>3
    <3>5. PICK z \in Int : z = T * x BY <3>3
    <3>6. 0 \in 0 .. D - 1 /\ z = D * q + 0 BY <1>2, <3>3, <3>4, <3>5
    <3>7. z % D = 0 BY <1>2, <3>6, Remainder, SMTT(60)
    <3>8. (x * S + y) * T = z BY <3>2, <3>5
    <3>9. z - (z % D) = z BY <3>7
    <3>10. QED BY <3>5, <3>8, <3>9, Zenon
  <2>3. ASSUME NEW x \in 0 .. Q - 1, NEW y \in 0 .. S - 1
        PROVE  (((x * S + y) * T) % 256) - ((((x * S + y) * T) % 256) % D) = T * x
    <3> DEFINE e == (x * S + y) * T
    <3>1. e % 256 = e BY <1>3, <2>3
    <3>2. e - (e % D) = T * x BY <2>2
    <3> HIDE DEF e
    <3>3. (e % 256) - ((e % 256) % D) = T * x BY <3>1, <3>2
    <3>4. QED BY <3>3 DEF e
  <2>4. GroupsByFirst(S, Q, T, D, T) BY <2>3, Zenon DEF GroupsByFirst
  <2>5. QED BY <1>2, <2>4
<1>6. QED BY <1>4, <1>5, <1>1

LEMMA Grouped ==
  ASSUME NEW n \in InterruptFile, NEW group \in Int
  PROVE  /\ SetPriorityGrouping(n, group) = [n EXCEPT !.PRIGROUP = group % 8]
         /\ SetPriorityGrouping(n, group).PRIGROUP = group % 8
         /\ GetPriorityGrouping(SetPriorityGrouping(n, group)) = group % 8
         /\ WriteAIRCR(n, [ReadAIRCR(n) EXCEPT !.PRIGROUP = group % 8]) = n
<1>1. [ReadAIRCR(n) EXCEPT !.VECTKEY = VECTKEY, !.PRIGROUP = group % 8]
        = [VECTKEY |-> VECTKEY, PRIGROUP |-> group % 8, SYSRESETREQ |-> 0]
  <2>1. \A k, g, w : [[VECTKEY |-> k, PRIGROUP |-> g, SYSRESETREQ |-> 0] EXCEPT !.VECTKEY = w]
                       = [VECTKEY |-> w, PRIGROUP |-> g, SYSRESETREQ |-> 0]
    OBVIOUS
  <2>2. \A k, g, h : [[VECTKEY |-> k, PRIGROUP |-> g, SYSRESETREQ |-> 0] EXCEPT !.PRIGROUP = h]
                       = [VECTKEY |-> k, PRIGROUP |-> h, SYSRESETREQ |-> 0]
    OBVIOUS
  <2>3. [ReadAIRCR(n) EXCEPT !.VECTKEY = VECTKEY, !.PRIGROUP = group % 8]
          = [[ReadAIRCR(n) EXCEPT !.VECTKEY = VECTKEY] EXCEPT !.PRIGROUP = group % 8]
    OBVIOUS
  <2> DEFINE aircr(k, g) == [VECTKEY |-> k, PRIGROUP |-> g, SYSRESETREQ |-> 0]
  <2>4. ReadAIRCR(n) = aircr(64005, n.PRIGROUP) BY DEF ReadAIRCR
  <2>5. [ReadAIRCR(n) EXCEPT !.VECTKEY = VECTKEY] = aircr(VECTKEY, n.PRIGROUP)
    BY <2>1, <2>4
  <2>6. [aircr(VECTKEY, n.PRIGROUP) EXCEPT !.PRIGROUP = group % 8] = aircr(VECTKEY, group % 8)
    BY <2>2
  <2> HIDE DEF aircr
  <2>7. [ReadAIRCR(n) EXCEPT !.VECTKEY = VECTKEY, !.PRIGROUP = group % 8]
          = aircr(VECTKEY, group % 8)
    BY <2>5, <2>6
  <2>8. QED BY <2>7 DEF aircr
<1>2. SetPriorityGrouping(n, group) = [n EXCEPT !.PRIGROUP = group % 8]
  BY <1>1 DEF SetPriorityGrouping, WriteAIRCR
<1>3. SetPriorityGrouping(n, group).PRIGROUP = group % 8 BY <1>2 DEF InterruptFile
<1>4. [ReadAIRCR(n) EXCEPT !.PRIGROUP = group % 8].VECTKEY # VECTKEY
  BY DEF ReadAIRCR, VECTKEY
<1>5. QED BY <1>2, <1>3, <1>4 DEF GetPriorityGrouping, ReadAIRCR, WriteAIRCR

LEMMA GroupIsKept ==
  ASSUME NEW n \in InterruptFile
  PROVE  KeepsGroup(n)
<1>1. \A group \in 0 .. 9 :
        /\ GetPriorityGrouping(SetPriorityGrouping(n, group)) = group % 8
        /\ WriteAIRCR(n, [ReadAIRCR(n) EXCEPT !.PRIGROUP = group % 8]) = n
  BY Grouped
<1>2. WriteAIRCR(n, SystemReset(n)) = [n EXCEPT !.PRIGROUP = n.PRIGROUP]
  BY DEF WriteAIRCR, SystemReset, GetPriorityGrouping, ReadAIRCR
<1>3. [n EXCEPT !.PRIGROUP = n.PRIGROUP] = n BY DEF InterruptFile
<1>4. SystemReset(n).SYSRESETREQ = 1 BY DEF SystemReset
<1>5. QED BY <1>1, <1>2, <1>3, <1>4 DEF KeepsGroup

LEMMA GroupingsAgree ==
  ASSUME NEW n \in InterruptFile, NEW group \in 0 .. 7,
         NEW a \in Nat \X Nat, NEW b \in Nat \X Nat
  PROVE  GroupsAgree(SetPriorityGrouping(n, group), a, b)
<1> DEFINE m == SetPriorityGrouping(n, group)
           S == PowerOf2[SubBits(group) + 1]
           Q == PowerOf2[PreemptBits(group) + 1]
           D == PowerOf2[group + 2]
           enc(p) == EncodePriority(group, p[1], p[2])
           fits(p) == p[1] < Q /\ p[2] < S
<1>1. m.PRIGROUP = group /\ GetPriorityGrouping(m) = group
  <2>1. group \in Int /\ group % 8 = group OBVIOUS
  <2>2. QED BY <2>1, Grouped
<1>2. S \in Nat \ {0} /\ Q \in Nat \ {0} /\ SplitsByte(S, Q, PriorityStep, D)
  <2>1. SplitsByte(S, Q, PriorityStep, D) BY Split
  <2> HIDE DEF S, Q, D
  <2>2. S \in 1 .. 256 /\ Q \in 1 .. 256 BY <2>1, Zenon DEF SplitsByte
  <2>3. QED BY <2>1, <2>2
<1>3. \A p : enc(p) = (p[1] % Q) * S + (p[2] % S) BY DEF EncodePriority
<1>4. a[1] \in Nat /\ a[2] \in Nat /\ b[1] \in Nat /\ b[2] \in Nat OBVIOUS
<1>5. DecodePriority(enc(a), group) = <<a[1] % Q, a[2] % S>> BY <1>4, Decoded, Zenon
<1>6. \A p : GroupPriority(m, PriorityByte(enc(p)))
               = PriorityByte(enc(p)) - (PriorityByte(enc(p)) % D)
  BY <1>1 DEF GroupPriority
<1>7. \A p : PriorityByte(enc(p)) = (enc(p) * PriorityStep) % 256 BY DEF PriorityByte
<1>8. GroupsAgree(m, a, b) <=>
        /\ DecodePriority(enc(a), group) = <<a[1] % Q, a[2] % S>>
        /\ fits(a) /\ fits(b) =>
             (GroupPriority(m, PriorityByte(enc(a))) < GroupPriority(m, PriorityByte(enc(b)))
                <=> a[1] < b[1])
  BY <1>1, Zenon DEF GroupsAgree
<1> HIDE DEF m, S, Q, D, enc
<1>9. PICK E \in Nat \ {0} : GroupsByFirst(S, Q, PriorityStep, D, E)
  <2>1. PriorityStep \in 1 .. 256 BY PriorityAssumption DEF PriorityAssumption
  <2>2. QED BY <1>2, <2>1, GroupedByte, Zenon
<1>10. ASSUME NEW p \in Nat \X Nat, fits(p)
       PROVE  GroupPriority(m, PriorityByte(enc(p))) = E * p[1]
  <2>1. p[1] \in 0 .. Q - 1 /\ p[2] \in 0 .. S - 1 BY <1>2, <1>10
  <2>2. p[1] % Q = p[1] /\ p[2] % S = p[2] BY <1>2, <2>1, SmallRemainder
  <2>3. enc(p) = p[1] * S + p[2] BY <1>3, <2>2
  <2>4. QED BY <1>6, <1>7, <1>9, <2>1, <2>3 DEF GroupsByFirst
<1>11. ASSUME fits(a), fits(b)
       PROVE  E * a[1] < E * b[1] <=> a[1] < b[1]
  <2>1. E * a[1] \in Int /\ E * b[1] \in Int BY <1>4
  <2>2. a[1] < b[1] => E * a[1] + E <= E * b[1] BY <1>4, Products
  <2>3. b[1] < a[1] => E * b[1] + E <= E * a[1] BY <1>4, Products
  <2>4. a[1] = b[1] => E * a[1] = E * b[1] OBVIOUS
  <2>5. QED BY <1>4, <2>1, <2>2, <2>3, <2>4
<1>12. QED BY <1>8, <1>5, <1>10, <1>11 DEF m

(* The tick.  Nothing depends on how many counts the counter can hold.     *)
LEMMA Counter == ReloadLimit \in Int
BY SMT DEF ReloadLimit

LEMMA TickIsAccepted ==
  ASSUME NEW n \in InterruptFile, NEW ticks \in Nat
  PROVE  TickAccepted(n, ticks)
<1>1. ticks \in 1 .. ReloadLimit <=> ~(ticks = 0 \/ ticks - 1 > ReloadLimit - 1)
  BY Counter
<1>2. QED BY <1>1 DEF TickAccepted, SysTick_Config, SysTickStopped

LEMMA TickComes ==
  ASSUME NEW n \in InterruptFile, NEW ticks \in 2 .. ReloadLimit,
         NEW before \in Nat, NEW i \in Nat
  PROVE  TicksEvery(n, ticks, before, i)
<1> DEFINE timer(val, flag) ==
             [LOAD |-> ticks - 1, VAL |-> val, CLKSOURCE |-> 1, TICKINT |-> 1,
              ENABLE |-> 1, COUNTFLAG |-> flag]
           started == SysTick_Config(n, SysTickStopped(before), ticks).timer
           value(k) == IF k % ticks = 0 THEN 0 ELSE ticks - (k % ticks)
           flagged(k) == IF k > 0 /\ k % ticks = 0 THEN 1 ELSE 0
<1>1. ~(ticks = 0 \/ ticks - 1 > ReloadLimit - 1) BY Counter
<1>2. started = timer(0, 0) BY <1>1 DEF SysTick_Config, SysTickStopped
<1>3. \A v, f : [started EXCEPT !.VAL = v, !.COUNTFLAG = f] = timer(v, f)
  <2>1. \A u, g, v : [timer(u, g) EXCEPT !.VAL = v] = timer(v, g) OBVIOUS
  <2>2. \A u, g, f : [timer(u, g) EXCEPT !.COUNTFLAG = f] = timer(u, f) OBVIOUS
  <2>3. \A v, f : [started EXCEPT !.VAL = v, !.COUNTFLAG = f]
                    = [[started EXCEPT !.VAL = v] EXCEPT !.COUNTFLAG = f]
    OBVIOUS
  <2> HIDE DEF timer, started
  <2>4. TAKE v, f
  <2>5. [started EXCEPT !.VAL = v] = timer(v, 0) BY <1>2, <2>1
  <2>6. [timer(v, 0) EXCEPT !.COUNTFLAG = f] = timer(v, f) BY <2>2
  <2>7. QED BY <2>3, <2>5, <2>6
<1>4. \A k : After(n, ticks, before, k) = timer(value(k), flagged(k))
  BY <1>3, Zenon DEF After
<1>5. \A v, f : Count(timer(v, f)) = timer(IF v = 0 THEN ticks - 1 ELSE v - 1,
                                           IF v = 1 THEN 1 ELSE 0)
  <2>1. TAKE v, f
  <2>2. \A u, g, w : [timer(u, g) EXCEPT !.VAL = w] = timer(w, g) OBVIOUS
  <2>3. \A u, g, h : [timer(u, g) EXCEPT !.COUNTFLAG = h] = timer(u, h) OBVIOUS
  <2> DEFINE val == IF v = 0 THEN ticks - 1 ELSE v - 1
             flag == IF v = 1 THEN 1 ELSE 0
  <2>4. timer(v, f).VAL = v /\ timer(v, f).LOAD = ticks - 1 /\ timer(v, f).ENABLE = 1 OBVIOUS
  <2> HIDE DEF timer
  <2>5. Count(timer(v, f)) = [[timer(v, f) EXCEPT !.VAL = val] EXCEPT !.COUNTFLAG = flag]
    BY <2>4 DEF Count
  <2> HIDE DEF val, flag
  <2>6. [timer(v, f) EXCEPT !.VAL = val] = timer(val, f) BY <2>2
  <2>7. [timer(val, f) EXCEPT !.COUNTFLAG = flag] = timer(val, flag) BY <2>3
  <2>8. Count(timer(v, f)) = timer(val, flag) BY <2>5, <2>6, <2>7
  <2>9. QED BY <2>8 DEF val, flag
<1>6. ticks \in Nat \ {0} /\ ticks >= 2 BY Counter
<1>7. started = After(n, ticks, before, 0)
  <2>1. 0 % ticks = 0
    <3>1. 0 = ticks * 0 + 0 BY <1>6
    <3>2. QED BY <3>1, <1>6, Remainder
  <2>2. value(0) = 0 /\ flagged(0) = 0 BY <2>1
  <2>3. QED BY <1>2, <1>4, <2>2
<1>8. /\ value(i + 1) = IF value(i) = 0 THEN ticks - 1 ELSE value(i) - 1
      /\ flagged(i + 1) = IF value(i) = 1 THEN 1 ELSE 0
  <2>1. i % ticks \in 0 .. ticks - 1 BY <1>6, Division
  <2>2. (i + 1) % ticks = IF (i % ticks) + 1 = ticks THEN 0 ELSE (i % ticks) + 1
    <3>1. i \in Int OBVIOUS
    <3>2. QED BY <1>6, <3>1, Successors, Zenon
  <2> DEFINE r == i % ticks
             s == (i + 1) % ticks
  <2>3. /\ value(i) = IF r = 0 THEN 0 ELSE ticks - r
        /\ value(i + 1) = IF s = 0 THEN 0 ELSE ticks - s
        /\ flagged(i + 1) = IF s = 0 THEN 1 ELSE 0
    OBVIOUS
  <2> HIDE DEF r, s, value, flagged
  <2>4. ticks \in Int /\ r \in 0 .. ticks - 1 BY <1>6, <2>1 DEF r
  <2>5. s = IF r + 1 = ticks THEN 0 ELSE r + 1 BY <2>2 DEF r, s
  <2>6. QED BY <1>6, <2>3, <2>4, <2>5
<1> HIDE DEF timer, started, value, flagged
<1>9. Count(After(n, ticks, before, i)) = After(n, ticks, before, i + 1)
  BY <1>4, <1>5, <1>8
<1>10. QED BY <1>7, <1>9 DEF TicksEvery, started

(* For every grouping, priority, period and count.                         *)
THEOREM PrioritiesAgreed == BoardSpec => []PrioritiesAgree
<1>1. ASSUME NEW n \in Files
      PROVE  /\ \A group \in 0 .. 7, a, b \in Parts \X Parts :
                  GroupsAgree(SetPriorityGrouping(n, group), a, b)
             /\ KeepsGroup(n)
             /\ \A ticks \in Periods :
                  /\ TickAccepted(n, ticks)
                  /\ ticks \in 2 .. ReloadLimit =>
                       \A before, count \in Counts : TicksEvery(n, ticks, before, count)
  <2>1. n \in InterruptFile /\ Periods \subseteq Nat /\ Counts \subseteq Nat
    BY CmsisAssumption, <1>1 DEF CmsisAssumption
  <2>2. Parts \X Parts \subseteq Nat \X Nat BY CmsisAssumption DEF CmsisAssumption
  <2>3. \A group \in 0 .. 7, a, b \in Parts \X Parts :
          GroupsAgree(SetPriorityGrouping(n, group), a, b)
    BY <2>1, <2>2, GroupingsAgree
  <2>4. KeepsGroup(n) BY <2>1, GroupIsKept
  <2>5. \A ticks \in Periods :
          /\ TickAccepted(n, ticks)
          /\ ticks \in 2 .. ReloadLimit =>
               \A before, count \in Counts : TicksEvery(n, ticks, before, count)
    BY <2>1, TickIsAccepted, TickComes
  <2>6. QED BY <2>3, <2>4, <2>5
<1>2. PrioritiesAgree BY <1>1 DEF PrioritiesAgree
<1>3. QED BY <1>2, PTL
===============================================================================
