----------------------------- MODULE CmsisFunctions ----------------------------
(***************************************************************************)
(* The access functions of core_cm3.h and cmsis_gcc.h as CortexM3 and      *)
(* Intrinsics define them, for inputs that are constants.  None of them    *)
(* depends on the state of the program: the properties are about the state *)
(* in which the board is switched on, so that TLC evaluates them once.     *)
(***************************************************************************)
EXTENDS Board, Intrinsics

CONSTANTS
  IRQs,         (* the interrupts the controller has                         *)
  Files,        (* its states                                                *)
  Levels,       (* priorities of interrupts                                  *)
  Parts,        (* preemption and sub-priorities, before they are encoded    *)
  Periods,      (* what SysTick_Config() is called with                      *)
  Counts,       (* how far the timer has counted                             *)
  Cores,        (* the core registers                                        *)
  Flags,        (* the flags that are set                                    *)
  Words,        (* sets of bits                                              *)
  Shifts,       (* numbers of bits                                           *)
  Values,       (* integers                                                  *)
  Limits        (* see SSAT and USAT                                         *)

InterruptWords == {Word(irq) : irq \in IRQs}
InterruptFile ==
  [ISER : [InterruptWords -> SUBSET (0 .. 31)],
   ISPR : [InterruptWords -> SUBSET (0 .. 31)],
   IABR : [InterruptWords -> SUBSET (0 .. 31)],
   IP : [IRQs -> 0 .. 255], SHP : [0 .. 11 -> 0 .. 255], PRIGROUP : 0 .. 7]

StackPointer == {a \in Nat : a % 4 = 0}
CoreState ==
  [nPRIV : {0, 1}, SPSEL : {0, 1}, IPSR : 0 .. 511, MSP : StackPointer, PSP : StackPointer,
   PRIMASK : {0, 1}, FAULTMASK : {0, 1}, BASEPRI : {Implemented(p) : p \in 0 .. 255}]

(* Every input is one that the hardware can be in or that fits.            *)
ASSUME CmsisAssumption ==
  /\ IRQs \subseteq 0 .. 239
  /\ Files \subseteq InterruptFile
  /\ Levels \subseteq 0 .. 255 \div PriorityStep
  /\ Parts \subseteq Nat /\ Periods \subseteq Nat /\ Counts \subseteq Nat
  /\ Cores \subseteq CoreState
  /\ Flags \subseteq SUBSET DOMAIN APSR
  /\ Words \subseteq SUBSET Bits
  /\ Shifts \subseteq Nat /\ Values \subseteq Int /\ Limits \subseteq Nat \ {0}

(* The exceptions of the system that have a priority of their own.         *)
SystemIRQs == {irq \in IRQn_Type : HardFault_IRQn < irq /\ irq < 0}

SwitchedOn ==
  /\ boot = "copy" /\ dest = 1 /\ resets = 0
  /\ config = {"APP_ROLE_SERVER"} /\ heap_end = 0 /\ ~xTasksAlreadyCreated
-------------------------------------------------------------------------------
(* core_cm3.h: whatever the registers hold, enabling, pending, taking,     *)
(* prioritising or vectoring one interrupt or exception does so and leaves *)
(* every other one as it was, in its own word and in the others.           *)
InterruptsIndependent ==
  SwitchedOn =>
    \A n \in Files, irq, other \in IRQs \cup SystemIRQs :
      /\ TouchesOne(n, irq, other)
      /\ \A priority \in Levels : SetsOnePriority(n, irq, other, priority)

(* core_cm3.h: for every grouping, encoded priorities preempt as their     *)
(* parts say; and the tick comes with the period it was configured for.    *)
PrioritiesAgree ==
  SwitchedOn =>
    \A n \in Files :
      /\ \A group \in 0 .. 7, a, b \in Parts \X Parts :
           GroupsAgree(SetPriorityGrouping(n, group), a, b)
      /\ KeepsGroup(n)
      /\ \A ticks \in Periods :
           /\ TickAccepted(n, ticks)
           /\ ticks \in 2 .. ReloadLimit =>
                \A before, count \in Counts : TicksEvery(n, ticks, before, count)

(* cmsis_gcc.h: a context that is saved and restored comes back, unless    *)
(* code without privilege tries to.                                        *)
ContextsKept ==
  SwitchedOn =>
    \A core, saved \in Cores :
      /\ KeepsContext(core, saved)
      /\ \A flags \in Flags : ReadsStatus(core, saved, flags)

(* cmsis_gcc.h: the bits of every word, and the value closest to one that  *)
(* does not fit.                                                           *)
BitsMoved ==
  SwitchedOn =>
    /\ \A word \in Words, n \in Shifts : MovesBits(word, n)
    /\ \A value \in Values, limit \in Limits : Saturates(value, limit)
===============================================================================
