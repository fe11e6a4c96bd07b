------------------------------- MODULE BoardProofs ------------------------------
(***************************************************************************)
(* Proofs about AppStart and Board: for any layout of the sections and any *)
(* heap, any number of network events, interrupts and resets.              *)
(***************************************************************************)
EXTENDS Board, TLAPS, FiniteSetTheorems

(* AppStart.  Reset_Handler() writes the words of a section in order, and  *)
(* heap_end is right until a claim comes into that of printf(), which has  *)
(* looked whether there is room.                                           *)
Filled ==
  /\ boot = "copy" => dest <= 1 + DataWords
  /\ boot # "copy" => dest <= 1 + BssWords
  /\ boot = "copy" /\ dest > HeapEndAt => heap_end = 0
  /\ boot # "copy" /\ ~raced => heap_end = claimed
  /\ boot \notin Started => claimed = 0 /\ ~raced
  /\ hook = "claim" => prev_heap_end + BufferSize <= HeapTop
  /\ boot = "zero" /\ dest > TasksCreatedAt => ~xTasksAlreadyCreated
  /\ boot \in {"start", "main", "ipInit"} => ~xTasksAlreadyCreated

(* The hook is called by the IP task, and it remembers that it has created *)
(* tasks, except between its two statements.                               *)
Remembered ==
  /\ boot \notin {"running", "halted"} => hook = "idle" /\ \A d \in Demos : tasks[d] = 0
  /\ boot = "running" /\ hook \in {"print", "claim", "start"} => ~xTasksAlreadyCreated
  /\ boot = "running" /\ hook # "created" /\ ~xTasksAlreadyCreated =>
       \A d \in Demos : tasks[d] = 0

AppInv == TypeOK /\ Filled /\ Remembered /\ OneDemoOnce

LEMMA AppTyping ==
  /\ DataWords \in Nat /\ BssWords \in Nat /\ HeapTop \in Nat /\ MaxIncr \in Nat
  /\ BufferSize \in Nat /\ MaxEvents \in Nat /\ MaxResets \in Nat
  /\ HeapEndAt \in 1 .. DataWords /\ TasksCreatedAt \in 1 .. BssWords
BY AppStartAssumption DEF AppStartAssumption

LEMMA NoTasks ==
  /\ [d \in Demos |-> 0] \in [Demos -> {0, 1}]
  /\ \A d \in Demos : [e \in Demos |-> 0][d] = 0
  /\ \A d \in Demos : 0 <= (IF d \in Selected THEN 1 ELSE 0)
OBVIOUS

LEMMA AppInit ==
  ASSUME Init
  PROVE  AppInv
<1>1. TypeOK
  <2>1. tasks \in [Demos -> {0, 1}] BY NoTasks DEF Init
  <2>2. uart \in BOOLEAN /\ xTasksAlreadyCreated \in BOOLEAN BY DEF Init
  <2>3. /\ dest \in 1 .. 1 + DataWords + BssWords /\ heap_end \in 0 .. HeapTop
        /\ prev_heap_end \in 0 .. HeapTop /\ claimed \in Nat
        /\ events \in 0 .. MaxEvents /\ resets \in 0 .. MaxResets
    BY AppTyping DEF Init
  <2>4. reports \in Seq(Event) /\ Len(reports) <= events BY DEF Init
  <2>5. QED BY <2>1, <2>2, <2>3, <2>4 DEF Init, TypeOK
<1>2. Filled BY AppTyping DEF Init, Filled, Started
<1>3. Remembered /\ OneDemoOnce BY NoTasks DEF Init, Remembered, OneDemoOnce
<1>4. QED BY <1>1, <1>2, <1>3 DEF AppInv

LEMMA AppStep ==
  ASSUME AppInv, Next
  PROVE  AppInv'
<1> USE AppTyping DEF AppInv, TypeOK, Filled, Remembered, OneDemoOnce, Started,
                      startup, heap, demo, Selected
<1>1. CASE CopyWord BY <1>1 DEF CopyWord, CopyMore
<1>2. CASE CopyEnds BY <1>2 DEF CopyEnds, CopyMore
<1>3. CASE ZeroWord
  <2>1. xTasksAlreadyCreated' \in BOOLEAN BY <1>3 DEF ZeroWord
  <2>2. dest = TasksCreatedAt => ~xTasksAlreadyCreated' BY <1>3 DEF ZeroWord
  <2>3. ~xTasksAlreadyCreated => ~xTasksAlreadyCreated' BY <1>3 DEF ZeroWord
  <2>4. /\ boot = "zero" /\ boot' = "zero" /\ dest <= BssWords /\ dest' = dest + 1
        /\ UNCHANGED <<config, boot, uart, heap_end, prev_heap_end, claimed, raced,
                       network, reports, hook, tasks, events, resets>>
    BY <1>3 DEF ZeroWord, ZeroMore
  <2>5. QED BY <2>1, <2>2, <2>3, <2>4
<1>4. CASE ZeroEnds BY <1>4 DEF ZeroEnds, ZeroMore
<1>5. CASE Start BY <1>5 DEF Start
<1>6. CASE EnterInit BY <1>6 DEF EnterInit
<1>7. CASE IPInit BY <1>7 DEF IPInit
<1>8. CASE StartDemo BY <1>8 DEF StartDemo
<1>9. CASE SetCreated BY <1>9 DEF SetCreated
<1>10. ASSUME NEW event \in Event, NetworkEvent(event) PROVE AppInv'
  <2>1. reports' = Append(reports, event) /\ events' = events + 1 BY <1>10 DEF NetworkEvent
  <2>2. reports' \in Seq(Event) /\ Len(reports') = Len(reports) + 1 BY <2>1
  <2>3. QED BY <1>10, <2>1, <2>2 DEF NetworkEvent
<1>11. ASSUME NEW incr \in 1 .. MaxIncr, Sbrk(incr) PROVE AppInv'
  BY <1>11 DEF Sbrk, SbrkFits
<1>12. CASE Fault BY <1>12 DEF Fault
<1>13. CASE Reset
  <2>1. TypeOK'
    <3>1. tasks' \in [Demos -> {0, 1}] BY <1>13, NoTasks DEF Reset
    <3>2. /\ boot' = "copy" /\ dest' = 1 /\ uart' = FALSE /\ claimed' = 0
          /\ prev_heap_end' = 0 /\ raced' = FALSE /\ reports' = <<>>
          /\ network' = "down" /\ hook' = "idle" /\ events' = 0
          /\ resets' = resets + 1 /\ resets < MaxResets
          /\ UNCHANGED <<config, heap_end, xTasksAlreadyCreated>>
      BY <1>13 DEF Reset
    <3>3. uart' \in BOOLEAN /\ xTasksAlreadyCreated' \in BOOLEAN BY <3>2
    <3>4. /\ dest' \in 1 .. 1 + DataWords + BssWords /\ heap_end' \in 0 .. HeapTop
          /\ prev_heap_end' \in 0 .. HeapTop /\ claimed' \in Nat
          /\ events' \in 0 .. MaxEvents /\ resets' \in 0 .. MaxResets
      BY <3>2
    <3>5. reports' \in Seq(Event) /\ Len(reports') <= events' BY <3>2
    <3>6. QED BY <3>1, <3>2, <3>3, <3>4, <3>5
  <2>2. Filled' BY <1>13 DEF Reset
  <2>3. Remembered' /\ OneDemoOnce' BY <1>13, NoTasks DEF Reset
  <2>4. QED BY <2>1, <2>2, <2>3
<1>14. CASE CallHook
  <2>1. reports' \in Seq(Event) /\ Len(reports') = Len(reports) - 1 BY <1>14 DEF CallHook
  <2>2. HookStarts(Head(reports)) => ~xTasksAlreadyCreated BY DEF HookStarts
  <2>3. /\ boot = "running" /\ hook = "idle"
        /\ hook' \in {"print", "idle"} /\ (hook' = "print" => ~xTasksAlreadyCreated)
        /\ UNCHANGED <<config, boot, dest, uart, heap_end, prev_heap_end, claimed,
                       raced, network, xTasksAlreadyCreated, tasks, events, resets>>
    BY <1>14, <2>2 DEF CallHook
  <2>4. QED BY <2>1, <2>3
<1>15. CASE HookPrints BY <1>15 DEF HookPrints
<1>16. CASE SbrkReads BY <1>16 DEF SbrkReads, SbrkFits
<1>17. CASE SbrkWrites
  <2>1. /\ boot = "running" /\ hook = "claim" /\ hook' = "start" /\ prev_heap_end' = 0
        /\ heap_end' = prev_heap_end + BufferSize /\ claimed' = claimed + BufferSize
        /\ UNCHANGED <<config, boot, dest, uart, network, reports,
                       xTasksAlreadyCreated, tasks, events, resets>>
    BY <1>17 DEF SbrkWrites
  <2>2. raced' \in BOOLEAN /\ (~raced' => ~raced /\ heap_end = prev_heap_end)
    BY <1>17 DEF SbrkWrites
  <2>3. heap_end' \in 0 .. HeapTop /\ claimed' \in Nat BY <2>1
  <2>4. ~raced' => heap_end' = claimed' BY <2>1, <2>2
  <2>5. QED BY <2>1, <2>2, <2>3, <2>4
<1>18. QED
  BY <1>1, <1>2, <1>3, <1>4, <1>5, <1>6, <1>7, <1>8, <1>9, <1>10, <1>11, <1>12,
     <1>13, <1>14, <1>15, <1>16, <1>17 DEF Next, Main

LEMMA AppSafe == Spec => []AppInv
<1>1. AppInv /\ UNCHANGED vars => AppInv'
  BY DEF vars, startup, heap, demo, AppInv, TypeOK, Filled, Remembered, OneDemoOnce,
         Selected
<1>2. QED BY <1>1, AppInit, AppStep, PTL DEF Spec

-------------------------------------------------------------------------------
(* Board.  The registers: main_tcp_network_init() and vTaskStartScheduler() *)
(* give Ethernet, the task switch and the tick priorities that the mask    *)
(* holds back; nothing of theirs is enabled before.                        *)
Low == {PendSV, SysTick, Ethernet}

Nvic ==
  [ISER : [{0} -> SUBSET {13}], ISPR : [{0} -> SUBSET {13}],
   IABR : [{0} -> SUBSET {13}], IP : [{13} -> 0 .. 255],
   SHP : [0 .. 11 -> 0 .. 255], PRIGROUP : {0}]

Core ==
  [nPRIV : {0}, SPSEL : {0}, IPSR : Nat, MSP : {0}, PSP : {0},
   PRIMASK : {0}, FAULTMASK : {0}, BASEPRI : {0, 4}]

Registers ==
  /\ nvic \in Nvic
  /\ nvic.SHP[7] = 0
  /\ cpu \in Core
  /\ scheduler \in BOOLEAN
  /\ boot \in {"ipInit", "running", "halted"} => nvic.IP[13] = PriorityByte(5)
  /\ scheduler => /\ boot \in {"running", "halted"}
                  /\ nvic.SHP[10] = PriorityByte(255)
                  /\ nvic.SHP[11] = PriorityByte(255)
  /\ ~scheduler => nvic.ISER[0] = {}

Exceptions ==
  /\ pend \subseteq {HardFault, SVCall, PendSV, SysTick}
  /\ active \in Seq({HardFault, SVCall} \cup Low)
  /\ ~scheduler => pend \subseteq {HardFault}
  /\ \A i \in 1 .. Len(active) : active[i] # HardFault => scheduler

(* Who is in the kernel's data is on top, or below a fault, and masks the  *)
(* others; the first task is started, and the program stops, with nobody   *)
(* in it.                                                                  *)
Innermost == IF active = <<>> THEN Thread ELSE active[1]

Masked ==
  /\ section # {} =>
       /\ cpu.BASEPRI = 4 /\ scheduler
       /\ \E e \in {Thread} \cup Low : section = {e} /\ Innermost \in {e, HardFault}
  /\ SVCall \in pend => section = {} /\ Innermost \in {Thread, HardFault}
  /\ boot = "halted" /\ Innermost # HardFault =>
       /\ active = <<>> /\ section = {} /\ cpu.BASEPRI = 4
       /\ pend \cap {SVCall, HardFault} = {}

BoardInv == Registers /\ Exceptions /\ Masked

LEMMA Numbers ==
  /\ HardFault = 3 /\ SVCall = 11 /\ PendSV = 14 /\ SysTick = 15 /\ Ethernet = 29
  /\ Exception(NonMaskableInt_IRQn) = 2 /\ Exception(HardFault_IRQn) = 3
  /\ IRQ(Ethernet) = 13
  /\ Word(13) = 0 /\ Bit(13) = 13
BY DEF HardFault, SVCall, PendSV, SysTick, Ethernet, Exception, IRQ, Word, Bit,
       HardFault_IRQn, SVCall_IRQn, PendSV_IRQn, SysTick_IRQn, ETHERNET_IRQn,
       NonMaskableInt_IRQn

LEMMA Handlers ==
  /\ GetVector(isr_vector, IRQ(HardFault)) = "Default_Handler2"
  /\ GetVector(isr_vector, IRQ(SVCall)) = "vPortSVCHandler"
  /\ GetVector(isr_vector, IRQ(PendSV)) = "xPortPendSVHandler"
  /\ GetVector(isr_vector, IRQ(SysTick)) = "xPortSysTickHandler"
  /\ GetVector(isr_vector, IRQ(Ethernet)) = "EthernetISR"
BY Numbers DEF GetVector, isr_vector, IRQ

LEMMA Steps ==
  /\ PriorityStep \in {1, 2, 4}
  /\ \A p \in {5, 255} : PriorityByte(p) \in 5 .. 255
  /\ Implemented(4) = 4 /\ Implemented(0) = 0
<1>1. PriorityStep \in {1, 2, 4}
  BY PriorityAssumption, BoardAssumption
     DEF PriorityAssumption, BoardAssumption, configMAX_SYSCALL_INTERRUPT_PRIORITY
<1>2. CASE PriorityStep = 1 BY <1>2 DEF PriorityByte, Implemented
<1>3. CASE PriorityStep = 2 BY <1>3 DEF PriorityByte, Implemented
<1>4. CASE PriorityStep = 4 BY <1>4 DEF PriorityByte, Implemented
<1>5. QED BY <1>1, <1>2, <1>3, <1>4

LEMMA Groups ==
  ASSUME Registers
  PROVE  /\ ExceptionPriority(nvic, HardFault) = -1
         /\ ExceptionGroup(nvic, HardFault) = -1
         /\ ExceptionPriority(nvic, SVCall) = 0
         /\ ExceptionGroup(nvic, SVCall) = 0
         /\ \A e \in Low : /\ ExceptionPriority(nvic, e) \in Nat
                           /\ ExceptionGroup(nvic, e) \in Nat
         /\ scheduler => \A e \in Low : /\ ExceptionPriority(nvic, e) >= 4
                                         /\ ExceptionGroup(nvic, e) >= 4
         /\ GroupPriority(nvic, 4) = 4
<1>1. \A b \in 0 .. 255 : GroupPriority(nvic, b) = b - (b % 2)
  <2>1. nvic.PRIGROUP + 2 = 2 BY DEF Registers, Nvic
  <2>2. PowerOf2[2] = 2 BY DEF PowerOf2
  <2>3. QED BY <2>1, <2>2 DEF GroupPriority
<1>2. \A b \in 0 .. 255 : b - (b % 2) >= 0 /\ (b >= 4 => b - (b % 2) >= 4)
  OBVIOUS
<1>3. ExceptionPriority(nvic, HardFault) = -1 /\ ExceptionPriority(nvic, SVCall) = 0
  BY Numbers DEF ExceptionPriority, Registers, Nvic
<1>4. /\ ExceptionPriority(nvic, PendSV) = nvic.SHP[10]
      /\ ExceptionPriority(nvic, SysTick) = nvic.SHP[11]
      /\ ExceptionPriority(nvic, Ethernet) = nvic.IP[13]
  BY Numbers DEF ExceptionPriority
<1>5. \A e \in Low :
        /\ ExceptionPriority(nvic, e) \in 0 .. 255
        /\ scheduler => ExceptionPriority(nvic, e) >= 4
  BY <1>4, Steps DEF Low, Registers, Nvic
<1>6. \A e \in Low \cup {SVCall} :
        ExceptionGroup(nvic, e) = GroupPriority(nvic, ExceptionPriority(nvic, e))
  BY <1>3, <1>5 DEF ExceptionGroup
<1>7. ExceptionGroup(nvic, HardFault) = -1 BY <1>3 DEF ExceptionGroup
<1>8. QED BY <1>1, <1>2, <1>3, <1>5, <1>6, <1>7

(* What may be taken: with the mask only a fault and the start of the      *)
(* first task, and nothing over a fault.                                   *)
LEMMA Preempting ==
  ASSUME Registers, Exceptions
  PROVE  /\ Pending \subseteq {HardFault, SVCall} \cup Low
         /\ pend \subseteq Pending
         /\ ~scheduler => Pending \subseteq {HardFault}
         /\ scheduler /\ cpu.BASEPRI = 4 => \A e \in Low : ~Preempts(e)
         /\ active # <<>> /\ active[1] = HardFault => \A e : ~Preempts(e)
         /\ active = <<>> => \A e \in pend \cap {HardFault, SVCall} : Preempts(e)
         /\ scheduler => \A e \in Low : ~MoreUrgent(e, SVCall)
<1>1. Pending \subseteq pend \cup {Ethernet} /\ pend \subseteq Pending
  BY DEF Pending, Ethernet
<1>2. Pending \subseteq {HardFault, SVCall} \cup Low
  BY <1>1 DEF Exceptions, Low
<1>3. ~scheduler => ~GetEnableIRQ(nvic, ETHERNET_IRQn)
  BY Numbers DEF Registers, Nvic, GetEnableIRQ, ETHERNET_IRQn
<1>4. ~scheduler => Pending \subseteq {HardFault}
  BY <1>3 DEF Pending, Exceptions
<1>5. scheduler /\ cpu.BASEPRI = 4 => \A e \in Low : ~Preempts(e)
  BY Groups DEF Preempts, Masks
<1>6. active # <<>> /\ active[1] = HardFault => \A e : ~Preempts(e)
  <2>1. \A e \in {HardFault, SVCall} \cup Low :
          ~(ExceptionGroup(nvic, e) < ExceptionGroup(nvic, HardFault))
    BY Groups
  <2>2. QED BY <2>1, <1>2 DEF Preempts
<1>7. active = <<>> => \A e \in pend \cap {HardFault, SVCall} : Preempts(e)
  <2>1. \A e \in {HardFault, SVCall} : ~Masks(nvic, cpu, e)
    BY Groups DEF Masks, Registers, Core
  <2>2. QED BY <2>1, <1>1 DEF Preempts
<1>8. scheduler => \A e \in Low : ~MoreUrgent(e, SVCall)
  <2>1. ASSUME NEW e \in Low, scheduler PROVE ~MoreUrgent(e, SVCall)
    <3>1. ExceptionPriority(nvic, e) \in Nat /\ ExceptionPriority(nvic, e) >= 4
      BY <2>1, Groups
    <3>2. QED BY <3>1, Groups DEF MoreUrgent
  <2>2. QED BY <2>1
<1>9. QED BY <1>1, <1>2, <1>4, <1>5, <1>6, <1>7, <1>8

(* The access functions on these registers.                                *)
LEMMA Updates ==
  ASSUME NEW n \in Nvic, NEW r \in [{0} -> SUBSET {13}]
  PROVE  /\ LET m == [n EXCEPT !.ISER = r]
            IN  m \in Nvic /\ m.IP = n.IP /\ m.SHP = n.SHP
         /\ LET m == [n EXCEPT !.ISPR = r]
            IN  m \in Nvic /\ m.IP = n.IP /\ m.SHP = n.SHP /\ m.ISER = n.ISER
         /\ LET m == [n EXCEPT !.IABR = r]
            IN  m \in Nvic /\ m.IP = n.IP /\ m.SHP = n.SHP /\ m.ISER = n.ISER
<1>1. [n EXCEPT !.ISER = r] \in Nvic BY ZenonT(60) DEF Nvic
<1>2. [n EXCEPT !.ISPR = r] \in Nvic BY ZenonT(60) DEF Nvic
<1>3. [n EXCEPT !.IABR = r] \in Nvic BY ZenonT(60) DEF Nvic
<1>4. QED BY <1>1, <1>2, <1>3 DEF Nvic

LEMMA Words ==
  ASSUME NEW w \in [{0} -> SUBSET {13}]
  PROVE  /\ [w EXCEPT ![0] = @ \cup {13}] \in [{0} -> SUBSET {13}]
         /\ [w EXCEPT ![0] = @ \ {13}] \in [{0} -> SUBSET {13}]
OBVIOUS

LEMMA Accesses ==
  ASSUME NEW n \in Nvic
  PROVE  /\ EnableIRQ(n, 13) \in Nvic
         /\ EnableIRQ(n, 13).IP = n.IP /\ EnableIRQ(n, 13).SHP = n.SHP
         /\ \A m \in {SetPendingIRQ(n, 13), ActivateIRQ(n, 13), DeactivateIRQ(n, 13)} :
              m \in Nvic /\ m.IP = n.IP /\ m.SHP = n.SHP /\ m.ISER = n.ISER
<1>1. \A m \in Nvic : /\ m.ISER \in [{0} -> SUBSET {13}]
                      /\ m.ISPR \in [{0} -> SUBSET {13}]
                      /\ m.IABR \in [{0} -> SUBSET {13}]
  BY DEF Nvic
<1>2. EnableIRQ(n, 13)
        = [n EXCEPT !.ISER = [n.ISER EXCEPT ![0] = n.ISER[0] \cup {13}]]
  BY Numbers DEF EnableIRQ
<1>3. SetPendingIRQ(n, 13)
        = [n EXCEPT !.ISPR = [n.ISPR EXCEPT ![0] = n.ISPR[0] \cup {13}]]
  BY Numbers DEF SetPendingIRQ
<1>4. ClearPendingIRQ(n, 13)
        = [n EXCEPT !.ISPR = [n.ISPR EXCEPT ![0] = n.ISPR[0] \ {13}]]
  BY Numbers DEF ClearPendingIRQ
<1>5. DeactivateIRQ(n, 13)
        = [n EXCEPT !.IABR = [n.IABR EXCEPT ![0] = n.IABR[0] \ {13}]]
  BY Numbers DEF DeactivateIRQ
<1>6. /\ EnableIRQ(n, 13) \in Nvic
      /\ EnableIRQ(n, 13).IP = n.IP /\ EnableIRQ(n, 13).SHP = n.SHP
  <2>1. PICK r : r = [n.ISER EXCEPT ![0] = n.ISER[0] \cup {13}] OBVIOUS
  <2>2. r \in [{0} -> SUBSET {13}] BY <1>1, <2>1, Words
  <2>3. LET a == [n EXCEPT !.ISER = r]
        IN  a \in Nvic /\ a.IP = n.IP /\ a.SHP = n.SHP
    BY <2>2, Updates
  <2>4. QED BY <1>2, <2>1, <2>3
<1>7. LET m == SetPendingIRQ(n, 13)
      IN  m \in Nvic /\ m.IP = n.IP /\ m.SHP = n.SHP /\ m.ISER = n.ISER
  <2>1. PICK r : r = [n.ISPR EXCEPT ![0] = n.ISPR[0] \cup {13}] OBVIOUS
  <2>2. r \in [{0} -> SUBSET {13}] BY <1>1, <2>1, Words
  <2>3. LET a == [n EXCEPT !.ISPR = r]
        IN  a \in Nvic /\ a.IP = n.IP /\ a.SHP = n.SHP /\ a.ISER = n.ISER
    BY <2>2, Updates
  <2>4. QED BY <1>3, <2>1, <2>3
<1>8. LET m == ClearPendingIRQ(n, 13)
      IN  m \in Nvic /\ m.IP = n.IP /\ m.SHP = n.SHP /\ m.ISER = n.ISER
  <2>1. PICK r : r = [n.ISPR EXCEPT ![0] = n.ISPR[0] \ {13}] OBVIOUS
  <2>2. r \in [{0} -> SUBSET {13}] BY <1>1, <2>1, Words
  <2>3. LET a == [n EXCEPT !.ISPR = r]
        IN  a \in Nvic /\ a.IP = n.IP /\ a.SHP = n.SHP /\ a.ISER = n.ISER
    BY <2>2, Updates
  <2>4. QED BY <1>4, <2>1, <2>3
<1>9. LET m == DeactivateIRQ(n, 13)
      IN  m \in Nvic /\ m.IP = n.IP /\ m.SHP = n.SHP /\ m.ISER = n.ISER
  <2>1. PICK r : r = [n.IABR EXCEPT ![0] = n.IABR[0] \ {13}] OBVIOUS
  <2>2. r \in [{0} -> SUBSET {13}] BY <1>1, <2>1, Words
  <2>3. LET a == [n EXCEPT !.IABR = r]
        IN  a \in Nvic /\ a.IP = n.IP /\ a.SHP = n.SHP /\ a.ISER = n.ISER
    BY <2>2, Updates
  <2>4. QED BY <1>5, <2>1, <2>3
<1>10. LET m == ActivateIRQ(n, 13)
       IN  m \in Nvic /\ m.IP = n.IP /\ m.SHP = n.SHP /\ m.ISER = n.ISER
  <2>1. PICK m : m = ClearPendingIRQ(n, 13) OBVIOUS
  <2>2. m \in Nvic /\ m.IP = n.IP /\ m.SHP = n.SHP /\ m.ISER = n.ISER
    BY <1>8, <2>1
  <2>3. ActivateIRQ(n, 13)
          = [m EXCEPT !.IABR = [m.IABR EXCEPT ![0] = m.IABR[0] \cup {13}]]
    BY Numbers, <2>1 DEF ActivateIRQ
  <2>4. PICK r : r = [m.IABR EXCEPT ![0] = m.IABR[0] \cup {13}] OBVIOUS
  <2>5. r \in [{0} -> SUBSET {13}] BY <1>1, <2>2, <2>4, Words
  <2>6. LET a == [m EXCEPT !.IABR = r]
        IN  a \in Nvic /\ a.IP = m.IP /\ a.SHP = m.SHP /\ a.ISER = m.ISER
    BY <2>2, <2>5, Updates
  <2>7. QED BY <2>2, <2>3, <2>4, <2>6
<1>11. QED BY <1>6, <1>7, <1>9, <1>10

LEMMA SystemHandlers == SystemHandler(PendSV_IRQn) = 10 /\ SystemHandler(SysTick_IRQn) = 11
<1>1. PICK i : i = PendSV_IRQn OBVIOUS
<1>2. i \in Int /\ i + 2 = 0 BY <1>1 DEF PendSV_IRQn
<1>3. SystemHandler(i) = 10 BY <1>2 DEF SystemHandler
<1>4. PICK j : j = SysTick_IRQn OBVIOUS
<1>5. j \in Int /\ j + 1 = 0 BY <1>4 DEF SysTick_IRQn
<1>6. SystemHandler(j) = 11 BY <1>5 DEF SystemHandler
<1>7. QED BY <1>1, <1>3, <1>4, <1>6

LEMMA SystemPriorities ==
  ASSUME NEW n \in Nvic, NEW s \in [0 .. 11 -> 0 .. 255]
  PROVE  [n EXCEPT !.SHP = s] \in Nvic
BY ZenonT(60) DEF Nvic

LEMMA IRQPriorities ==
  ASSUME NEW n \in Nvic, NEW p \in [{13} -> 0 .. 255]
  PROVE  [n EXCEPT !.IP = p] \in Nvic
BY ZenonT(60) DEF Nvic

LEMMA KernelPriorities ==
  ASSUME NEW n \in Nvic, NEW i \in {PendSV_IRQn, SysTick_IRQn}, NEW m,
         m = SetPriority(n, i, 255)
  PROVE  /\ m \in Nvic /\ m.IP = n.IP /\ m.ISER = n.ISER
         /\ m.SHP[SystemHandler(i)] = PriorityByte(255)
         /\ \A j \in 0 .. 11 : j # SystemHandler(i) => m.SHP[j] = n.SHP[j]
<1>1. PICK r : r = [n.SHP EXCEPT ![SystemHandler(i)] = PriorityByte(255)] OBVIOUS
<1>2. PriorityByte(255) \in 0 .. 255 BY Steps
<1>3. /\ r \in [0 .. 11 -> 0 .. 255] /\ r[SystemHandler(i)] = PriorityByte(255)
      /\ \A j \in 0 .. 11 : j # SystemHandler(i) => r[j] = n.SHP[j]
  <2>1. SystemHandler(i) \in 0 .. 11 BY SystemHandlers
  <2>2. n.SHP \in [0 .. 11 -> 0 .. 255] BY DEF Nvic
  <2>3. QED BY <1>1, <1>2, <2>1, <2>2
<1>4. m = [n EXCEPT !.SHP = r]
  BY <1>1 DEF SetPriority, PendSV_IRQn, SysTick_IRQn
<1>5. m \in Nvic BY <1>3, <1>4, SystemPriorities
<1>6. m.IP = n.IP /\ m.ISER = n.ISER /\ m.SHP = r BY <1>4 DEF Nvic
<1>7. QED BY <1>3, <1>5, <1>6

LEMMA EthernetPriority ==
  ASSUME NEW n \in Nvic, NEW m, m = SetPriority(n, ETHERNET_IRQn, 5)
  PROVE  /\ m \in Nvic /\ m.SHP = n.SHP /\ m.ISER = n.ISER
         /\ m.IP[13] = PriorityByte(5)
<1>1. PICK r : r = [n.IP EXCEPT ![13] = PriorityByte(5)] OBVIOUS
<1>2. PriorityByte(5) \in 0 .. 255 BY Steps
<1>3. r \in [{13} -> 0 .. 255] /\ r[13] = PriorityByte(5) BY <1>1, <1>2 DEF Nvic
<1>4. m = [n EXCEPT !.IP = r] BY <1>1 DEF SetPriority, ETHERNET_IRQn
<1>5. m \in Nvic BY <1>3, <1>4, IRQPriorities
<1>6. m.SHP = n.SHP /\ m.ISER = n.ISER /\ m.IP = r BY <1>4 DEF Nvic
<1>7. QED BY <1>3, <1>5, <1>6

LEMMA Cores ==
  ASSUME NEW c \in Core
  PROVE  /\ Mask(c) \in Core /\ Mask(c).BASEPRI = 4
         /\ StopMask(c) = Mask(c)
         /\ set_BASEPRI(c, 0) \in Core /\ set_BASEPRI(c, 0).BASEPRI = 0
BY Steps DEF Core, Mask, StopMask, set_BASEPRI, Written, Privileged,
             configMAX_SYSCALL_INTERRUPT_PRIORITY
-------------------------------------------------------------------------------
(* The steps.                                                              *)
Sources == {HardFault, SVCall} \cup Low

LEMMA Distinct ==
  /\ Sources \subseteq Nat \ {Thread}
  /\ HardFault \notin {Thread, SVCall} \cup Low
  /\ SVCall \notin {Thread, HardFault} \cup Low
  /\ \A e \in Sources : IF e < 16 THEN e # Ethernet ELSE IRQ(e) = 13 /\ e = Ethernet
BY Numbers DEF Sources, Low, Thread

LEMMA Stack ==
  ASSUME NEW s \in Seq(Sources)
  PROVE  /\ \A e \in Sources : /\ <<e>> \o s \in Seq(Sources)
                               /\ <<e>> \o s # <<>> /\ (<<e>> \o s)[1] = e
                               /\ \A i \in 1 .. Len(<<e>> \o s) :
                                    (<<e>> \o s)[i] = IF i = 1 THEN e ELSE s[i - 1]
                               /\ Len(<<e>> \o s) = Len(s) + 1
         /\ s # <<>> =>
              /\ Len(s) \in Nat /\ 1 \in 1 .. Len(s) /\ s[1] \in Sources
              /\ Tail(s) \in Seq(Sources) /\ Len(Tail(s)) = Len(s) - 1
              /\ \A i \in 1 .. Len(Tail(s)) : Tail(s)[i] = s[i + 1]
OBVIOUS

LEMMA BootSteps ==
  ASSUME \/ Main
         \/ \E event \in Event : NetworkEvent(event)
         \/ \E incr \in 1 .. MaxIncr : Sbrk(incr)
  PROVE  /\ boot' = "ipInit" => boot \in {"main", "ipInit"}
         /\ boot' \in {"running", "halted"} => boot \in {"ipInit", "running"}
         /\ boot = "running" => boot' \in {"running", "halted"}
         /\ boot # "halted"
BY DEF Main, CopyWord, CopyEnds, ZeroWord, ZeroEnds, Start, EnterInit, IPInit,
       CallHook, HookPrints, SbrkReads, SbrkWrites, StartDemo, SetCreated,
       NetworkEvent, Sbrk

LEMMA BoardStart ==
  ASSUME BoardInit
  PROVE  BoardInv
<1>1. boot = "copy" BY DEF BoardInit, Init
<1>2. {irq \div 32 : irq \in {13}} = {0} OBVIOUS
<1>3. nvic = [ISER |-> [w \in {0} |-> {}], ISPR |-> [w \in {0} |-> {}],
              IABR |-> [w \in {0} |-> {}], IP |-> [irq \in {13} |-> 0],
              SHP |-> [i \in 0 .. 11 |-> 0], PRIGROUP |-> 0]
  BY <1>2 DEF BoardInit, RegisterFile, ETHERNET_IRQn
<1>4. nvic \in Nvic /\ nvic.SHP[7] = 0 /\ nvic.ISER[0] = {} BY <1>3 DEF Nvic
<1>5. cpu \in Core BY DEF BoardInit, CoreReset, Core
<1>6. Registers BY <1>1, <1>4, <1>5 DEF BoardInit, Registers
<1>7. Exceptions BY DEF BoardInit, Exceptions
<1>8. Masked BY <1>1 DEF BoardInit, Masked
<1>9. QED BY <1>6, <1>7, <1>8 DEF BoardInv

LEMMA BoardAgain ==
  ASSUME BoardReset
  PROVE  BoardInv'
<1>1. boot' = "copy" BY DEF BoardReset, Reset
<1>2. {irq \div 32 : irq \in {13}} = {0} OBVIOUS
<1>3. nvic' = [ISER |-> [w \in {0} |-> {}], ISPR |-> [w \in {0} |-> {}],
               IABR |-> [w \in {0} |-> {}], IP |-> [irq \in {13} |-> 0],
               SHP |-> [i \in 0 .. 11 |-> 0], PRIGROUP |-> 0]
  BY <1>2 DEF BoardReset, RegisterFile, ETHERNET_IRQn
<1>4. nvic' \in Nvic /\ nvic'.SHP[7] = 0 /\ nvic'.ISER[0] = {} BY <1>3 DEF Nvic
<1>5. cpu' \in Core BY DEF BoardReset, CoreReset, Core
<1>6. Registers' BY <1>1, <1>4, <1>5 DEF BoardReset, Registers
<1>7. Exceptions' BY DEF BoardReset, Exceptions
<1>8. Masked' BY <1>1 DEF BoardReset, Masked
<1>9. QED BY <1>6, <1>7, <1>8 DEF BoardInv

LEMMA Taken ==
  ASSUME BoardInv, NEW e \in Pending, TakeException(e)
  PROVE  BoardInv'
<1> USE DEF BoardInv
<1>1. /\ Preempts(e) /\ pend' = pend \ {e} /\ active' = <<e>> \o active
      /\ cpu' = [cpu EXCEPT !.IPSR = e] /\ boot' = boot
      /\ UNCHANGED <<section, scheduler>>
      /\ \A f \in Pending : Preempts(f) => MoreUrgent(e, f)
  BY DEF TakeException, vars
<1>2. e \in Sources /\ Innermost # HardFault
  <2>1. e \in Sources BY Preempting DEF Sources
  <2>2. ~(active # <<>> /\ active[1] = HardFault) BY <1>1, Preempting
  <2>3. QED BY <2>1, <2>2, Distinct DEF Innermost
<1>3. active \in Seq(Sources) BY DEF Exceptions, Sources
<1>4. Innermost' = e BY <1>1, <1>2, <1>3, Stack DEF Innermost
<1>5. nvic' \in Nvic /\ nvic'.IP = nvic.IP /\ nvic'.SHP = nvic.SHP /\ nvic'.ISER = nvic.ISER
  <2>1. CASE e < 16 BY <2>1 DEF TakeException, Registers
  <2>2. CASE ~(e < 16)
    <3>1. nvic' = ActivateIRQ(nvic, 13) BY <2>2, <1>2, Distinct DEF TakeException
    <3>2. QED BY <3>1, Accesses DEF Registers
  <2>3. QED BY <2>1, <2>2
<1>6. cpu' \in Core /\ cpu'.BASEPRI = cpu.BASEPRI
  BY <1>1, <1>2, Distinct DEF Registers, Core
<1>7. Registers' BY <1>1, <1>5, <1>6 DEF Registers
<1>8. scheduler \/ e = HardFault BY Preempting
<1>9. Exceptions'
  <2>1. active' \in Seq(Sources) BY <1>1, <1>2, <1>3, Stack
  <2>2. ASSUME NEW i \in 1 .. Len(active') PROVE active'[i] # HardFault => scheduler'
    <3>1. active'[i] = IF i = 1 THEN e ELSE active[i - 1]
      BY <1>1, <1>2, <1>3, Stack
    <3>2. i # 1 => i - 1 \in 1 .. Len(active) BY <1>1, <1>2, <1>3, Stack
    <3>3. QED BY <1>1, <1>8, <3>1, <3>2 DEF Exceptions
  <2>3. QED BY <1>1, <2>1, <2>2 DEF Exceptions, Sources
<1>10. CASE e = HardFault BY <1>10, <1>1, <1>4, <1>6, <1>7, <1>9 DEF Masked
<1>11. CASE e = SVCall
  <2>1. SVCall \in pend BY <1>11, Preempting, Numbers DEF Pending, Ethernet
  <2>2. section = {} /\ boot # "halted" BY <2>1, <1>2 DEF Masked
  <2>3. QED BY <1>11, <1>1, <1>7, <1>9, <2>2 DEF Masked
<1>12. CASE e \in Low
  <2>1. scheduler BY <1>12, <1>8, Distinct
  <2>2. cpu.BASEPRI # 4 BY <1>1, <1>12, <2>1, Preempting
  <2>3. section = {} /\ boot # "halted" BY <1>2, <2>2 DEF Masked
  <2>4. SVCall \notin pend
    <3>1. ASSUME SVCall \in pend PROVE FALSE
      <4>1. active = <<>>
        BY <3>1, <1>2, <1>3, Stack, Distinct DEF Masked, Innermost
      <4>2. Preempts(SVCall) /\ SVCall \in Pending BY <3>1, <4>1, Preempting
      <4>3. QED BY <4>2, <1>1, <1>12, <2>1, Preempting
    <3>2. QED BY <3>1
  <2>5. QED BY <1>1, <1>7, <1>9, <2>3, <2>4 DEF Masked
<1>13. QED BY <1>2, <1>10, <1>11, <1>12 DEF Sources

LEMMA ThreadSteps ==
  ASSUME BoardInv, ProgramStep \/ StartScheduler \/ EnableEthernet \/ ThreadEnters
  PROVE  BoardInv'
<1> USE DEF BoardInv
<1>1. active = <<>> /\ section = {} /\ Quiet /\ active' = active
  BY DEF ProgramStep, StartScheduler, EnableEthernet, ThreadEnters, InThread
<1>2. pend \cap {HardFault, SVCall} = {} BY <1>1, Preempting DEF Quiet
<1>3. Innermost = Thread /\ Innermost' = Thread BY <1>1 DEF Innermost
<1>4. CASE ProgramStep
  <2>1. /\ boot' = "ipInit" => boot \in {"main", "ipInit"}
        /\ boot' \in {"running", "halted"} => boot \in {"ipInit", "running"}
        /\ boot = "running" => boot' \in {"running", "halted"}
        /\ boot # "halted"
    BY <1>4, BootSteps DEF ProgramStep
  <2>2. UNCHANGED <<pend, active, section, scheduler>> BY <1>4 DEF ProgramStep
  <2>3. cpu' \in Core /\ (boot' = "halted" => cpu'.BASEPRI = 4)
    BY <1>4, Cores DEF ProgramStep, Registers
  <2>4. /\ nvic' \in Nvic /\ nvic'.SHP = nvic.SHP /\ nvic'.ISER = nvic.ISER
        /\ boot' \in {"ipInit", "running", "halted"} => nvic'.IP[13] = PriorityByte(5)
    <3>1. CASE boot' = "ipInit" /\ boot = "main"
      <4>1. nvic' = SetPriority(nvic, ETHERNET_IRQn, 5)
        BY <3>1, <1>4 DEF ProgramStep, configMAC_INTERRUPT_PRIORITY
      <4>2. QED BY <4>1, EthernetPriority DEF Registers
    <3>2. CASE ~(boot' = "ipInit" /\ boot = "main")
      <4>1. nvic' = nvic BY <3>2, <1>4 DEF ProgramStep
      <4>2. QED BY <4>1, <3>2, <2>1 DEF Registers
    <3>3. QED BY <3>1, <3>2
  <2>5. Registers' BY <2>1, <2>2, <2>3, <2>4 DEF Registers
  <2>6. Exceptions' BY <2>2 DEF Exceptions
  <2>7. Masked' BY <1>1, <1>2, <2>2, <2>3 DEF Masked
  <2>8. QED BY <2>5, <2>6, <2>7
<1>5. CASE StartScheduler
  <2>1. /\ boot = "running" /\ boot' = "running" /\ scheduler' = TRUE
        /\ pend' = pend \cup {SVCall} /\ UNCHANGED <<cpu, active, section>>
    BY <1>5 DEF StartScheduler, vars
  <2>2. PICK m : m = SetPriority(nvic, PendSV_IRQn, 255) OBVIOUS
  <2>3. nvic \in Nvic BY DEF Registers
  <2>4. /\ m \in Nvic /\ m.IP = nvic.IP /\ m.ISER = nvic.ISER
        /\ m.SHP[10] = PriorityByte(255) /\ m.SHP[7] = nvic.SHP[7]
    BY <2>2, <2>3, KernelPriorities, SystemHandlers
  <2>5. nvic' = SetPriority(m, SysTick_IRQn, 255)
    BY <1>5, <2>2 DEF StartScheduler, configKERNEL_INTERRUPT_PRIORITY
  <2>6. /\ nvic' \in Nvic /\ nvic'.IP = m.IP /\ nvic'.ISER = m.ISER
        /\ nvic'.SHP[11] = PriorityByte(255) /\ nvic'.SHP[10] = m.SHP[10]
        /\ nvic'.SHP[7] = m.SHP[7]
    BY <2>4, <2>5, KernelPriorities, SystemHandlers
  <2>7. Registers' BY <2>1, <2>4, <2>6 DEF Registers
  <2>8. Exceptions' BY <2>1 DEF Exceptions
  <2>9. Masked' BY <1>1, <1>3, <2>1 DEF Masked
  <2>10. QED BY <2>7, <2>8, <2>9
<1>6. CASE EnableEthernet
  <2>1. /\ scheduler /\ boot' = boot
        /\ UNCHANGED <<pend, cpu, active, section, scheduler>>
    BY <1>6 DEF EnableEthernet, vars
  <2>2. nvic' \in Nvic /\ nvic'.IP = nvic.IP /\ nvic'.SHP = nvic.SHP
    BY <1>6, Accesses DEF EnableEthernet, ETHERNET_IRQn, Registers
  <2>3. Registers' BY <2>1, <2>2 DEF Registers
  <2>4. Exceptions' BY <2>1 DEF Exceptions
  <2>5. Masked' BY <1>3, <2>1 DEF Masked
  <2>6. QED BY <2>3, <2>4, <2>5
<1>7. CASE ThreadEnters
  <2>1. /\ scheduler /\ boot = "running" /\ boot' = boot /\ section' = {Thread}
        /\ UNCHANGED <<nvic, pend, active, scheduler>>
    BY <1>7 DEF ThreadEnters, vars
  <2>2. cpu' \in Core /\ cpu'.BASEPRI = 4
    BY <1>7, Cores DEF ThreadEnters, Registers
  <2>3. Registers' BY <2>1, <2>2 DEF Registers
  <2>4. Exceptions' BY <2>1 DEF Exceptions
  <2>5. Masked' BY <1>2, <1>3, <2>1, <2>2 DEF Masked
  <2>6. QED BY <2>3, <2>4, <2>5
<1>8. QED BY <1>4, <1>5, <1>6, <1>7

(* Which handler runs, from the vector table.                              *)
LEMMA TopHandler ==
  ASSUME Exceptions, active # <<>>
  PROVE  /\ active[1] \in Sources
         /\ Handler = "Default_Handler2" <=> active[1] = HardFault
         /\ Handler = "vPortSVCHandler" <=> active[1] = SVCall
         /\ Handler \in {"xPortPendSVHandler", "xPortSysTickHandler", "EthernetISR"}
              <=> active[1] \in Low
<1>1. active[1] \in Sources BY Stack DEF Exceptions, Sources
<1>2. QED BY <1>1, Handlers, Distinct DEF Handler, Sources, Low

LEMMA Returns ==
  ASSUME BoardInv, active # <<>>, active[1] # HardFault, Return(0),
         section' = {}, UNCHANGED <<vars, scheduler>>,
         pend' \in {pend, pend \cup {PendSV}}
  PROVE  BoardInv'
<1> USE DEF BoardInv
<1>1. active[1] \in Sources /\ active \in Seq(Sources)
  BY TopHandler DEF Exceptions, Sources
<1>2. scheduler BY <1>1, Stack DEF Exceptions
<1>3. boot # "halted" /\ boot' = boot /\ SVCall \notin pend
  BY <1>1, Distinct DEF Masked, Innermost, vars
<1>4. active' = Tail(active) BY DEF Return
<1>5. cpu' \in Core
  <2>1. PICK e \in Nat : cpu' = [cpu EXCEPT !.IPSR = e, !.BASEPRI = 0]
    <3>1. CASE Tail(active) = <<>>
      <4>1. cpu' = [cpu EXCEPT !.IPSR = 0, !.BASEPRI = 0] BY <3>1 DEF Return
      <4>2. QED BY <4>1
    <3>2. CASE Tail(active) # <<>>
      <4>1. cpu' = [cpu EXCEPT !.IPSR = Tail(active)[1], !.BASEPRI = 0]
        BY <3>2 DEF Return
      <4>2. Tail(active)[1] \in Sources BY <1>1, <3>2, Stack
      <4>3. QED BY <4>1, <4>2, Distinct
    <3>3. QED BY <3>1, <3>2
  <2>2. QED BY <2>1 DEF Registers, Core
<1>6. nvic' \in Nvic /\ nvic'.IP = nvic.IP /\ nvic'.SHP = nvic.SHP /\ nvic'.ISER = nvic.ISER
  <2>1. CASE active[1] < 16 BY <2>1 DEF Return, Registers
  <2>2. CASE ~(active[1] < 16)
    <3>1. nvic' = DeactivateIRQ(nvic, 13) BY <2>2, <1>1, Distinct DEF Return
    <3>2. QED BY <3>1, Accesses DEF Registers
  <2>3. QED BY <2>1, <2>2
<1>7. Registers' BY <1>3, <1>5, <1>6 DEF Registers
<1>8. Exceptions'
  <2>1. active' \in Seq(Sources) BY <1>1, <1>4, Stack
  <2>2. pend' \subseteq {HardFault, SVCall, PendSV, SysTick} BY DEF Exceptions
  <2>3. QED BY <1>2, <2>1, <2>2 DEF Exceptions, Sources
<1>9. SVCall \notin pend' BY <1>3, Distinct DEF Low
<1>10. Masked' BY <1>3, <1>9 DEF Masked
<1>11. QED BY <1>7, <1>8, <1>10

LEMMA HandlerSteps ==
  ASSUME BoardInv,
         \/ StartFirstTask \/ DefaultHandlerLoops \/ HandlerEnters
         \/ HandlerReturns \/ ThreadLeaves
  PROVE  BoardInv'
<1> USE DEF BoardInv
<1>1. CASE StartFirstTask
  <2>1. active # <<>> /\ active[1] = SVCall
    BY <1>1, TopHandler DEF StartFirstTask, Running
  <2>2. section = {} BY <2>1, Distinct DEF Masked, Innermost
  <2>3. QED BY <1>1, <2>1, <2>2, Distinct, Returns DEF StartFirstTask
<1>2. CASE DefaultHandlerLoops
  <2>1. active # <<>> /\ active[1] = HardFault
    BY <1>2, TopHandler DEF DefaultHandlerLoops, Running
  <2>2. /\ boot = "running" /\ boot' = "halted"
        /\ UNCHANGED <<nvic, pend, cpu, active, section, scheduler>>
    BY <1>2 DEF DefaultHandlerLoops, Fault, processor
  <2>3. Registers' /\ Exceptions' BY <2>2 DEF Registers, Exceptions
  <2>4. Masked' BY <2>1, <2>2 DEF Masked, Innermost
  <2>5. QED BY <2>3, <2>4
<1>3. CASE HandlerEnters
  <2>1. active # <<>> /\ active[1] \in Low /\ active[1] \notin section
    BY <1>3, TopHandler DEF HandlerEnters, Running
  <2>2. /\ section' = section \cup {active[1]} /\ boot' = boot
        /\ UNCHANGED <<nvic, pend, active, scheduler>>
    BY <1>3 DEF HandlerEnters, vars
  <2>3. section = {} /\ boot # "halted" /\ SVCall \notin pend
    BY <2>1, Distinct DEF Masked, Innermost, Sources
  <2>4. scheduler BY <2>1, Distinct, Stack DEF Exceptions, Sources
  <2>5. cpu' \in Core /\ cpu'.BASEPRI = 4
    BY <1>3, Cores DEF HandlerEnters, Registers
  <2>6. Registers' /\ Exceptions' BY <2>2, <2>5 DEF Registers, Exceptions
  <2>7. Masked' BY <2>1, <2>2, <2>3, <2>4, <2>5 DEF Masked, Innermost
  <2>8. QED BY <2>6, <2>7
<1>4. CASE HandlerReturns
  <2>1. active # <<>> /\ active[1] \in section BY <1>4 DEF HandlerReturns, Running
  <2>2. active[1] \in Sources BY <2>1, TopHandler
  <2>3. active[1] # HardFault /\ section = {active[1]}
    BY <2>1, <2>2, Distinct DEF Masked, Innermost
  <2>4. section' = {} BY <1>4, <2>3 DEF HandlerReturns
  <2>5. pend' \in {pend, pend \cup {PendSV}} BY <1>4 DEF HandlerReturns
  <2>6. QED BY <1>4, <2>1, <2>3, <2>4, <2>5, Returns DEF HandlerReturns
<1>5. CASE ThreadLeaves
  <2>1. /\ active = <<>> /\ Thread \in section /\ section' = section \ {Thread}
        /\ cpu' = set_BASEPRI(cpu, 0) /\ boot' = boot
        /\ UNCHANGED <<nvic, pend, active, scheduler>>
    BY <1>5 DEF ThreadLeaves, vars
  <2>2. section' = {} /\ boot # "halted" /\ SVCall \notin pend
    BY <2>1, Distinct DEF Masked, Innermost
  <2>3. cpu' \in Core BY <2>1, Cores DEF Registers
  <2>4. Registers' /\ Exceptions' BY <2>1, <2>3 DEF Registers, Exceptions
  <2>5. Masked' BY <2>1, <2>2 DEF Masked
  <2>6. QED BY <2>4, <2>5
<1>6. QED BY <1>1, <1>2, <1>3, <1>4, <1>5

LEMMA Arrivals ==
  ASSUME BoardInv, Tick \/ FrameArrives \/ FaultRaised
  PROVE  BoardInv'
<1> USE DEF BoardInv
<1>1. boot' = boot /\ UNCHANGED <<cpu, active, section, scheduler>>
  BY DEF Tick, FrameArrives, FaultRaised, vars
<1>2. /\ nvic' \in Nvic /\ nvic'.IP = nvic.IP /\ nvic'.SHP = nvic.SHP
      /\ nvic'.ISER = nvic.ISER
  BY Accesses DEF Tick, FrameArrives, FaultRaised, ETHERNET_IRQn, Registers
<1>3. Registers' BY <1>1, <1>2 DEF Registers
<1>4. /\ pend' \subseteq pend \cup {HardFault, SysTick}
      /\ ~scheduler => pend' \subseteq pend \cup {HardFault}
      /\ boot = "halted" => HardFault \notin pend' \ pend
  BY Distinct DEF Tick, FrameArrives, FaultRaised, Low
<1>5. Exceptions' BY <1>1, <1>4 DEF Exceptions
<1>6. SVCall \in pend' => SVCall \in pend BY <1>4, Distinct DEF Low
<1>7. Masked' BY <1>1, <1>4, <1>6 DEF Masked, Innermost
<1>8. QED BY <1>3, <1>5, <1>7

LEMMA BoardStep == BoardInv /\ [BoardNext]_boardVars => BoardInv'
<1>1. BoardInv /\ UNCHANGED boardVars => BoardInv'
  BY DEF boardVars, vars, processor, BoardInv, Registers, Exceptions, Masked, Innermost
<1>2. QED BY <1>1, Taken, ThreadSteps, HandlerSteps, Arrivals, BoardAgain
          DEF BoardNext, Processor

LEMMA BoardSafe == BoardSpec => []BoardInv
BY BoardStart, BoardStep, PTL DEF BoardSpec

(* Whatever interrupts what, two never use the kernel's data at a time: it *)
(* hangs on the priority that main_tcp_network_init() gives the Ethernet   *)
(* interrupt, which is not above the mask of FreeRTOSConfig.h.             *)
THEOREM KernelIsExclusive == BoardSpec => []KernelExclusive
<1>1. BoardInv => KernelExclusive
  <2>1. ASSUME BoardInv PROVE section = {} \/ \E e : section = {e}
    BY <2>1 DEF BoardInv, Masked
  <2>2. QED BY <2>1, FS_EmptySet, FS_Singleton DEF KernelExclusive
<1>2. QED BY <1>1, BoardSafe, PTL

(* After vAssertCalled(), vApplicationMallocFailedHook() or a default      *)
(* handler, nobody enters the kernel again, whatever arrives.              *)
THEOREM StoppedForGood == BoardSpec => StoppedStays
<1>1. ASSUME BoardInv, BoardNext, boot = "halted" PROVE section' \subseteq section
  <2>1. CASE HandlerEnters
    <3>1. active # <<>> /\ active[1] \in Low
      BY <1>1, <2>1, TopHandler DEF HandlerEnters, Running, BoardInv
    <3>2. QED BY <1>1, <3>1, Distinct DEF BoardInv, Masked, Innermost
  <2>2. ~ThreadEnters BY <1>1 DEF ThreadEnters
  <2>3. CASE ~HandlerEnters
    BY <1>1, <2>2, <2>3
       DEF BoardNext, Processor, TakeException, StartFirstTask, DefaultHandlerLoops,
           HandlerReturns, ThreadLeaves, StartScheduler, ProgramStep, EnableEthernet,
           Tick, FrameArrives, FaultRaised, BoardReset, processor
  <2>4. QED BY <2>1, <2>3
<1>2. BoardInv /\ [BoardNext]_boardVars =>
        [boot = "halted" => section' \subseteq section]_boardVars
  BY <1>1 DEF boardVars
<1>3. QED BY <1>2, BoardSafe, PTL DEF BoardSpec, StoppedStays

(* Masked sections nest, with any mask.                                    *)
LEMMA Masking ==
  ASSUME Registers, NEW priority \in 0 .. 255
  PROVE  MaskNests(priority)
<1> DEFINE m == Implemented(priority)
           raised == set_BASEPRI_MAX(cpu, priority)
           all == disable_irq(raised)
           user == [cpu EXCEPT !.nPRIV = 1]
<1>1. cpu \in Core BY DEF Registers
<1>2. m \in 0 .. 255
  <2>1. priority % 256 = priority OBVIOUS
  <2>2. CASE PriorityStep = 1 BY <2>1, <2>2 DEF Implemented
  <2>3. CASE PriorityStep = 2 BY <2>1, <2>3 DEF Implemented
  <2>4. CASE PriorityStep = 4 BY <2>1, <2>4 DEF Implemented
  <2>5. QED BY <2>2, <2>3, <2>4, Steps
<1>3. set_BASEPRI(cpu, priority) = [cpu EXCEPT !.BASEPRI = m]
  BY <1>1 DEF Core, set_BASEPRI, Written, Privileged
<1>4. \/ raised = cpu
      \/ /\ raised = [cpu EXCEPT !.BASEPRI = m] /\ m # 0
         /\ cpu.BASEPRI = 0 \/ m < cpu.BASEPRI
  BY <1>3 DEF set_BASEPRI_MAX
<1> HIDE DEF m, raised
<1>5. all = [raised EXCEPT !.PRIMASK = 1]
  BY <1>1, <1>4 DEF Core, disable_irq, Written, Privileged
<1>6. ASSUME NEW e \in {SVCall, PendSV, SysTick, Ethernet}, Masks(nvic, cpu, e)
      PROVE  Masks(nvic, raised, e) /\ Masks(nvic, all, e)
  <2>1. ExceptionGroup(nvic, e) \in Nat BY <1>6, Groups DEF Low
  <2>2. /\ cpu.BASEPRI = 4 /\ ExceptionGroup(nvic, e) >= GroupPriority(nvic, 4)
    BY <1>1, <1>6 DEF Masks, Core
  <2>3. m <= 4 => GroupPriority(nvic, m) <= GroupPriority(nvic, 4)
    <3>1. GroupPriority(nvic, m) = m - (m % 2)
      <4>1. nvic.PRIGROUP + 2 = 2 BY DEF Registers, Nvic
      <4>2. PowerOf2[2] = 2 BY DEF PowerOf2
      <4>3. QED BY <4>1, <4>2 DEF GroupPriority
    <3>2. QED BY <1>2, <3>1, Groups
  <2>4. /\ raised.BASEPRI \in {4, m} /\ raised.BASEPRI # 0
        /\ ExceptionGroup(nvic, e) >= GroupPriority(nvic, raised.BASEPRI)
    <3>1. CASE raised = cpu BY <2>2, <3>1
    <3>2. CASE raised = [cpu EXCEPT !.BASEPRI = m] /\ m # 0 /\ m < 4
      <4>1. GroupPriority(nvic, m) \in Int /\ GroupPriority(nvic, 4) = 4
        BY <1>2, Groups, <2>3 DEF GroupPriority, Registers, Nvic, PowerOf2
      <4>2. raised.BASEPRI = m BY <1>1, <3>2 DEF Core
      <4>3. QED BY <1>2, <2>1, <2>2, <2>3, <3>2, <4>1, <4>2
    <3>3. QED BY <1>4, <2>2, <3>1, <3>2
  <2>5. all.BASEPRI = raised.BASEPRI BY <1>1, <1>4, <1>5 DEF Core
  <2>6. QED BY <2>4, <2>5 DEF Masks
<1>7. set_PRIMASK(set_BASEPRI(all, get_BASEPRI(cpu)), get_PRIMASK(cpu)) = cpu
  <2>1. get_BASEPRI(cpu) = cpu.BASEPRI /\ get_PRIMASK(cpu) = 0
    BY <1>1 DEF Core, get_BASEPRI, get_PRIMASK, ReadOf, Privileged
  <2>2. Implemented(cpu.BASEPRI) = cpu.BASEPRI BY <1>1, Steps DEF Core
  <2>3. all \in [nPRIV : {0}, SPSEL : {0}, IPSR : Nat, MSP : {0}, PSP : {0},
                 PRIMASK : {1}, FAULTMASK : {0}, BASEPRI : 0 .. 255]
        /\ all.IPSR = cpu.IPSR
    BY <1>1, <1>2, <1>4, <1>5 DEF Core
  <2>4. set_BASEPRI(all, cpu.BASEPRI) = [all EXCEPT !.BASEPRI = cpu.BASEPRI]
    BY <2>2, <2>3 DEF set_BASEPRI, Written, Privileged
  <2>5. set_PRIMASK([all EXCEPT !.BASEPRI = cpu.BASEPRI], 0)
          = [all EXCEPT !.BASEPRI = cpu.BASEPRI, !.PRIMASK = 0]
    BY <2>3 DEF set_PRIMASK, Written, Privileged
  <2>6. [all EXCEPT !.BASEPRI = cpu.BASEPRI, !.PRIMASK = 0] = cpu
    BY <1>1, <2>3 DEF Core
  <2>7. QED BY <2>1, <2>4, <2>5, <2>6
<1>8. user.IPSR = 0 => set_BASEPRI_MAX(user, priority) = user /\ enable_irq(user) = user
  BY <1>1 DEF Core, set_BASEPRI_MAX, set_BASEPRI, enable_irq, Written, Privileged
<1>9. QED BY <1>6, <1>7, <1>8 DEF MaskNests, m, raised

(* In every state of the program, for all masks and not only those that    *)
(* the run tries: raising BASEPRI lets nothing through, and restoring it   *)
(* restores it.                                                            *)
THEOREM MaskedSectionsNest ==
  BoardSpec => [](MasksNest /\ \A priority \in 0 .. 255 : MaskNests(priority))
<1>1. BoardInv => MasksNest /\ \A priority \in 0 .. 255 : MaskNests(priority)
  BY Masking DEF BoardInv, MasksNest
<1>2. QED BY <1>1, BoardSafe, PTL
-------------------------------------------------------------------------------
(* Every step of the board is one of the program or changes nothing of it: *)
(* what holds of AppStart holds of the board.                              *)
LEMMA ProgramRuns == BoardSpec => Spec
<1>1. BoardInit => Init BY DEF BoardInit
<1>2. BoardNext => Next \/ UNCHANGED vars
  BY DEF BoardNext, Processor, TakeException, StartFirstTask, DefaultHandlerLoops,
         HandlerEnters, HandlerReturns, ThreadEnters, ThreadLeaves, StartScheduler,
         ProgramStep, EnableEthernet, Tick, FrameArrives, FaultRaised, BoardReset, Next
<1>3. UNCHANGED boardVars => UNCHANGED vars BY DEF boardVars
<1>4. QED BY <1>1, <1>2, <1>3, PTL DEF BoardSpec, Spec

(* Every variable of the program keeps its range, also over resets.        *)
THEOREM TypeCorrect == BoardSpec => []TypeOK
<1>1. AppInv => TypeOK BY DEF AppInv
<1>2. QED BY <1>1, ProgramRuns, AppSafe, PTL

(* At most one task is started, and it is the selected demo's, however     *)
(* often the network comes and goes and whatever RAM held before.          *)
THEOREM OneDemoStarts == BoardSpec => []OneDemoOnce
<1>1. AppInv => OneDemoOnce BY DEF AppInv
<1>2. QED BY <1>1, ProgramRuns, AppSafe, PTL

(* heap_end never leaves the heap, not even when another task claims       *)
(* memory between the load and the store of printf()'s call of _sbrk();    *)
(* without such a claim it is just above what has been claimed.            *)
THEOREM HeapStaysIntact == BoardSpec => []HeapIntact
<1>1. AppInv => HeapIntact
  BY AppTyping DEF AppInv, TypeOK, Filled, HeapIntact, Started
<1>2. QED BY <1>1, ProgramRuns, AppSafe, PTL
===============================================================================
