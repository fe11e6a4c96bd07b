-------------------------------- MODULE MCBoard -------------------------------
(***************************************************************************)
(* Instances for TLC of the board and of what interleaves below the tasks. *)
(* These machines share no state: a behaviour is one of one machine, the   *)
(* others stay as they start.                                              *)
(***************************************************************************)
EXTENDS CmsisFunctions, MemoryProtection, ExclusiveAccess, DebugChannel, Console,
        SequencesExt, TLC

VARIABLE
  machine       (* the one that runs                                         *)

(* Every build that starts a demo, and one that starts none.               *)
SomeBuilds ==
  {{"APP_ROLE_SERVER", "DEMO_ECHO"}, {"APP_ROLE_CLIENT", "DEMO_ECHO"},
   {"APP_ROLE_SERVER", "DEMO_HEARTBEAT"}, {"APP_ROLE_SERVER"}}

(* The interrupts of this board, and one in the second word.               *)
SomeIRQs == {irq \in IRQn_Type : irq >= 0} \cup {32}
SomeFiles ==
  {FoldLeft(EnableIRQ, FoldLeft(SetPendingIRQ, RegisterFile(SomeIRQs), pending), enabled) :
     pending, enabled \in {<<>>, <<0>>, <<13, 0, 32>>}}
SomePeriods == 0 .. 5 \cup {ReloadLimit - 1, ReloadLimit, ReloadLimit + 1}

(* Those of a thread and of a handler.                                     *)
SomeCores ==
  [nPRIV : {0, 1}, SPSEL : {0, 1}, IPSR : {0, SVCall}, MSP : {0, 4}, PSP : {0, 4},
   PRIMASK : {0, 1}, FAULTMASK : {0, 1}, BASEPRI : {0, 4}]
SomeFlags == {{}, {"N"}, {"Z", "Q"}, DOMAIN APSR}

(* Bits at the edges of their bytes.                                       *)
SomeWords == SUBSET {0, 7, 8, 15, 16, 24, 31}
SomeValues == -20 .. 20

(* Tables of up to ten rows, in chunks of four, whose regions come in any  *)
(* order and may come again, for a unit that is off or in use.             *)
Row(n, region) ==
  [RBAR |-> ARM_MPU_RBAR(region, 32 * (n % 4)),
   RASR |-> ARM_MPU_RASR(1, (<<0, 1, 2, 3, 5, 6>>)[1 + (n % 6)], 4, n % 2, 1, 0, 0, 4 + (n % 3))]
SomeTables ==
  {[n \in 1 .. size |-> Row(n, (start + stride * n) % 6)] :
     size \in 0 .. 10, start \in 0 .. 2, stride \in {1, 2, 5}}
InUse ==
  ARM_MPU_Enable(FoldLeft(LAMBDA m, n : ARM_MPU_SetRegion(m, Row(n, n).RBAR, Row(n, n).RASR),
                          MpuReset, <<5, 4, 3, 2, 1, 0>>), 1)
SomeMpus == {MpuReset, InUse}
Units == [a \in 0 .. 9 |-> "old"]

(* Two tasks that print a line each.                                       *)
Lines == "task" :> 3 @@ "IP task" :> 2

OneStart ==
  /\ config = {"APP_ROLE_SERVER", "DEMO_ECHO"} /\ heap_end = 0 /\ ~xTasksAlreadyCreated
MCInit ==
  /\ machine \in {"board", "counter", "channel", "console", "table"}
  /\ BoardInit /\ (machine # "board" => OneStart)
  /\ CounterInit /\ (machine # "counter" => running = "thread")
  /\ ChannelInit
  /\ ConsoleInit /\ (machine # "console" => prompt)
  /\ LoadInit /\ (machine # "table" => mpu = MpuReset /\ table = <<>>)

BoardMachine == machine = "board" /\ BoardNext
CounterMachine == machine = "counter" /\ CounterNext
ChannelMachine == machine = "channel" /\ ChannelNext
ConsoleMachine == machine = "console" /\ ConsoleNext
TableMachine == machine = "table" /\ LoadNext

MCNext ==
  /\ \/ BoardMachine /\ UNCHANGED <<counterVars, channelVars, consoleVars, loadVars>>
     \/ CounterMachine /\ UNCHANGED <<boardVars, channelVars, consoleVars, loadVars>>
     \/ ChannelMachine /\ UNCHANGED <<boardVars, counterVars, consoleVars, loadVars>>
     \/ ConsoleMachine /\ UNCHANGED <<boardVars, counterVars, channelVars, loadVars>>
     \/ TableMachine /\ UNCHANGED <<boardVars, counterVars, channelVars, consoleVars>>
  /\ UNCHANGED machine

mcVars == <<boardVars, counterVars, channelVars, consoleVars, loadVars, machine>>

(* The fairness of FairBoardSpec, where the board runs.                    *)
MCSpec ==
  /\ MCInit /\ [][MCNext]_mcVars
  /\ WF_boardVars(machine = "board" /\ Processor)
  /\ SF_boardVars(machine = "board" /\ ProgramStep /\ Main)
  /\ SF_boardVars(machine = "board" /\ EnableEthernet)
===============================================================================
