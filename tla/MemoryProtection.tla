---------------------------- MODULE MemoryProtection --------------------------
(***************************************************************************)
(* The memory protection unit: the functions and macros of mpu_armv7.h,    *)
(* the registers of core_cm3.h they write, and the unprivileged accesses   *)
(* of cmsis_gcc.h, which are checked as if the core had no privilege.      *)
(* A register is the record of its fields, each cut to its width.          *)
(***************************************************************************)
EXTENDS Integers, Sequences

CONSTANTS
  Tables,       (* the tables that ARM_MPU_Load() is called with             *)
  Mpus,         (* the states it finds the unit in                           *)
  Memory        (* what is in memory, in units of 32 bytes                   *)

MPU_TYPE_RALIASES == 4
Regions == 0 .. 15

(* How many values a field of RASR has.                                    *)
RasrField ==
  [XN |-> 2, AP |-> 8, TEX |-> 8, S |-> 2, C |-> 2, B |-> 2,
   SRD |-> 256, SIZE |-> 32, ENABLE |-> 2]

RasrZero == [f \in DOMAIN RasrField |-> 0]
MpuReset ==
  [CTRL |-> [ENABLE |-> 0, PRIVDEFENA |-> 0], MEMFAULTENA |-> 0, RNR |-> 0,
   RBAR |-> [r \in Regions |-> 0], RASR |-> [r \in Regions |-> RasrZero]]

MpuState ==
  [CTRL : [ENABLE : {0, 1}, PRIVDEFENA : {0, 1}], MEMFAULTENA : {0, 1},
   RNR : Regions, RBAR : [Regions -> Nat],
   RASR : [Regions -> [DOMAIN RasrField -> Nat]]]
ARM_MPU_Region_t ==
  [RBAR : [ADDR : Nat, REGION : Regions, VALID : {1}],
   RASR : [DOMAIN RasrField -> Nat]]

ASSUME MpuAssumption ==
  /\ Tables \subseteq Seq(ARM_MPU_Region_t)
  /\ Mpus \subseteq MpuState

VARIABLES
  mpu,          (* the registers                                             *)
  table,        (* the table, of which the first `skipped' rows are done     *)
  skipped, cnt, (* what ARM_MPU_Load() keeps                                 *)
  words,        (* the loop counter of ARM_MPU_OrderedMemcpy()               *)
  found         (* history: the registers before                             *)

loadVars == <<mpu, table, skipped, cnt, words, found>>

ARM_MPU_RBAR(region, base) == [ADDR |-> base \div 32, REGION |-> region % 16, VALID |-> 1]

ARM_MPU_ACCESS_(tex, shareable, cacheable, bufferable) ==
  [TEX |-> tex % RasrField.TEX, S |-> shareable % RasrField.S,
   C |-> cacheable % RasrField.C, B |-> bufferable % RasrField.B]
ARM_MPU_ACCESS_ORDERED == ARM_MPU_ACCESS_(0, 1, 0, 0)
ARM_MPU_ACCESS_DEVICE(shareable) ==
  IF shareable # 0 THEN ARM_MPU_ACCESS_(0, 1, 0, 1) ELSE ARM_MPU_ACCESS_(2, 0, 0, 0)
(* The cache policies are 0 to 3: none, write-back with write and read     *)
(* allocate, write-through, write-back.                                    *)
ARM_MPU_ACCESS_NORMAL(outer, inner, shareable) ==
  ARM_MPU_ACCESS_(4 + outer, shareable, inner \div 2, inner % 2)

ARM_MPU_RASR_EX(xn, ap, access, srd, size) ==
  [f \in DOMAIN RasrField |->
     CASE f = "XN" -> xn % RasrField.XN
       [] f = "AP" -> ap % RasrField.AP
       [] f = "SRD" -> srd % RasrField.SRD
       [] f = "SIZE" -> size % RasrField.SIZE
       [] f = "ENABLE" -> 1
       [] OTHER -> access[f]]
ARM_MPU_RASR(xn, ap, tex, shareable, cacheable, bufferable, srd, size) ==
  ARM_MPU_RASR_EX(xn, ap, ARM_MPU_ACCESS_(tex, shareable, cacheable, bufferable),
                  srd, size)

(* ARM_MPU_REGION_SIZE_...: s stands for 2^( s + 1 ) bytes.                *)
RegionSizes == 4 .. 31

(* ARM_MPU_AP_...: the accesses a permission allows.                       *)
Reads(privileged) == IF privileged THEN {1, 2, 3, 5, 6} ELSE {2, 3, 6}
Writes(privileged) == IF privileged THEN {1, 2, 3} ELSE {3}
-------------------------------------------------------------------------------
ARM_MPU_Enable(m, privdefena) ==
  [m EXCEPT !.CTRL = [ENABLE |-> 1, PRIVDEFENA |-> privdefena], !.MEMFAULTENA = 1]
ARM_MPU_Disable(m) == [m EXCEPT !.CTRL.ENABLE = 0, !.MEMFAULTENA = 0]

(* A base address that is VALID selects its region, which the attributes   *)
(* written after it are for.                                               *)
WriteRBAR(m, rbar) ==
  LET r == IF rbar.VALID = 1 THEN rbar.REGION ELSE m.RNR
  IN  [m EXCEPT !.RNR = r, !.RBAR[r] = rbar.ADDR]
WriteRASR(m, rasr) == [m EXCEPT !.RASR[m.RNR] = rasr]

ARM_MPU_ClrRegion(m, rnr) == WriteRASR([m EXCEPT !.RNR = rnr], RasrZero)
ARM_MPU_SetRegion(m, rbar, rasr) == WriteRASR(WriteRBAR(m, rbar), rasr)
ARM_MPU_SetRegionEx(m, rnr, rbar, rasr) ==
  ARM_MPU_SetRegion([m EXCEPT !.RNR = rnr], rbar, rasr)

LoadInit ==
  /\ mpu \in Mpus /\ found = mpu
  /\ table \in Tables
  /\ skipped = 0 /\ cnt = Len(table) /\ words = 0

(* A row is two words.  RBAR and RASR and their aliases take them in turn, *)
(* as many rows in one chunk as there are aliases.                         *)
rowWordSize == 2
Chunk == IF cnt > MPU_TYPE_RALIASES THEN MPU_TYPE_RALIASES ELSE cnt

ARM_MPU_OrderedMemcpy ==
  /\ words < Chunk * rowWordSize
  /\ LET row == table[skipped + words \div 2 + 1]
     IN  mpu' = IF words % 2 = 0 THEN WriteRBAR(mpu, row.RBAR) ELSE WriteRASR(mpu, row.RASR)
  /\ words' = words + 1
  /\ UNCHANGED <<table, skipped, cnt, found>>

Copied == words = Chunk * rowWordSize

NextChunkFirstAgain ==
  /\ Copied /\ cnt > MPU_TYPE_RALIASES
  /\ words' = 0 /\ cnt' = cnt - MPU_TYPE_RALIASES
  /\ UNCHANGED <<mpu, table, skipped, found>>
NextChunk ==
  /\ Copied /\ cnt > MPU_TYPE_RALIASES
  /\ words' = 0 /\ cnt' = cnt - MPU_TYPE_RALIASES
  /\ skipped' = skipped + MPU_TYPE_RALIASES
  /\ UNCHANGED <<mpu, table, found>>

LoadNext == ARM_MPU_OrderedMemcpy \/ NextChunk
LoadReturned == Copied /\ cnt <= MPU_TYPE_RALIASES

LoadSpec == LoadInit /\ [][LoadNext]_loadVars
-------------------------------------------------------------------------------
(* Which region decides on address a, counted in units of 32 bytes: the    *)
(* enabled one of the highest number that covers it with a sub-region that *)
(* is not disabled.                                                        *)
Covers(m, r, a) ==
  LET rasr == m.RASR[r]
      units == 2^(rasr.SIZE - 4)
      offset == a - (m.RBAR[r] - (m.RBAR[r] % units))
  IN  /\ rasr.ENABLE = 1
      /\ offset \in 0 .. units - 1
      /\ units >= 8 => (rasr.SRD \div 2^(offset \div (units \div 8))) % 2 = 0

Permits(m, privileged, permissions, a) ==
  LET hits == {r \in Regions : Covers(m, r, a)}
  IN  \/ m.CTRL.ENABLE = 0
      \/ hits = {} /\ privileged /\ m.CTRL.PRIVDEFENA = 1
      \/ \E r \in hits : /\ \A other \in hits : other <= r
                        /\ m.RASR[r].AP \in permissions

LDR(m, privileged, memory, a) ==
  IF Permits(m, privileged, Reads(privileged), a) THEN memory[a] ELSE "fault"
STR(m, privileged, memory, a, value) ==
  IF Permits(m, privileged, Writes(privileged), a)
  THEN [memory EXCEPT ![a] = value] ELSE memory
LDRT(m, memory, a) == LDR(m, FALSE, memory, a)
STRT(m, memory, a, value) == STR(m, FALSE, memory, a, value)
-------------------------------------------------------------------------------
(* However long the table and whatever the order of its regions, after    *)
(* every word the base address and the attributes of a region are those of *)
(* its last row so far, and as they were found if there is none; when      *)
(* ARM_MPU_Load() returns that holds for the whole table.                  *)
ShowsLast(value, before, rows, new) ==
  IF rows = {} THEN value = before
  ELSE \E j \in rows : value = new[j] /\ \A k \in rows : k <= j

RowsLoaded(bases, attributes) ==
  \A r \in Regions :
    LET rows(n) == {j \in 1 .. n : table[j].RBAR.REGION = r}
    IN  /\ ShowsLast(mpu.RBAR[r], found.RBAR[r], rows(bases),
                     [j \in DOMAIN table |-> table[j].RBAR.ADDR])
        /\ ShowsLast(mpu.RASR[r], found.RASR[r], rows(attributes),
                     [j \in DOMAIN table |-> table[j].RASR])

TableLoaded ==
  /\ RowsLoaded(skipped + (words + 1) \div 2, skipped + words \div 2)
  /\ LoadReturned => RowsLoaded(Len(table), Len(table))

(* ARM_MPU_ClrRegion() and ARM_MPU_SetRegionEx() change one region, which  *)
(* a VALID base address names whatever rnr says, and                       *)
(* ARM_MPU_Disable() changes none.                                         *)
EditsOne(m, r, row) ==
  LET cleared == ARM_MPU_ClrRegion(m, r)
      edited == ARM_MPU_SetRegionEx(m, r, row.RBAR, row.RASR)
      named == IF row.RBAR.VALID = 1 THEN row.RBAR.REGION ELSE r
  IN  /\ cleared.RASR = [m.RASR EXCEPT ![r] = RasrZero] /\ cleared.RBAR = m.RBAR
      /\ edited.RASR = [m.RASR EXCEPT ![named] = row.RASR]
      /\ edited.RBAR = [m.RBAR EXCEPT ![named] = row.RBAR.ADDR]
      /\ m.CTRL.ENABLE = 1 /\ m.MEMFAULTENA = 1 =>
           ARM_MPU_Enable(ARM_MPU_Disable(m), m.CTRL.PRIVDEFENA) = m

(* No two kinds of memory share their attributes, and no size loses bits.  *)
AttributesDiffer ==
  LET policies == 0 .. 3
      kinds == [outer : policies, inner : policies, shareable : {0, 1}]
      others == {ARM_MPU_ACCESS_ORDERED, ARM_MPU_ACCESS_DEVICE(0), ARM_MPU_ACCESS_DEVICE(1)}
      normal(k) == ARM_MPU_ACCESS_NORMAL(k.outer, k.inner, k.shareable)
  IN  /\ \A k, l \in kinds : normal(k) = normal(l) => k = l
      /\ \A k \in kinds : normal(k) \notin others
      /\ ARM_MPU_ACCESS_DEVICE(0) # ARM_MPU_ACCESS_DEVICE(1)
      /\ ARM_MPU_ACCESS_ORDERED \notin {ARM_MPU_ACCESS_DEVICE(s) : s \in {0, 1}}
      /\ \A s \in RegionSizes :
           ARM_MPU_RASR_EX(1, 3, ARM_MPU_ACCESS_ORDERED, 0, s).SIZE = s

(* Code without privilege reads and writes nothing that code with it could *)
(* not, and the unprivileged instructions, run with privilege, see what    *)
(* code without it sees.                                                   *)
ProtectsPrivileged(m, memory) ==
  \A a \in DOMAIN memory :
    /\ LDRT(m, memory, a) \in {"fault", LDR(m, TRUE, memory, a)}
    /\ STRT(m, memory, a, "new") \in {memory, STR(m, TRUE, memory, a, "new")}

(* All of this in every state of the unit that loading a table goes        *)
(* through, half-written rows included: with the unit on, a task that      *)
(* interrupts ARM_MPU_Load() runs under it.                                *)
RegionsLoaded ==
  /\ TableLoaded
  /\ AttributesDiffer
  /\ ProtectsPrivileged(mpu, Memory)
  /\ \A r \in Regions, j \in DOMAIN table : EditsOne(mpu, r, table[j])
===============================================================================
