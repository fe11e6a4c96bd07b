------------------------------ MODULE EchoMonitor -----------------------------
(***************************************************************************)
(* The echo client task together with the task that watches it, which      *)
(* calls xAreSingleTaskTCPEchoClientsStillRunning() from time to time and  *)
(* shares its three counters without a lock.                               *)
(***************************************************************************)
EXTENDS EchoClient

VARIABLES
  mpc,          (* the step of the call that comes next                      *)
  cycles,       (* ulTxRxCycles[ x ] as loaded: the build loads it once      *)
  ulLastEchoSocketCount,
  xReturn,      (* what the running or the last call returns                 *)
  calledAt      (* history: ulTxRxCycles as loaded by the call before        *)

monitorVars == <<mpc, cycles, ulLastEchoSocketCount, xReturn, calledAt>>
allVars == <<clientTaskVars, monitorVars>>

(* ulLastConnections[ x ] is never assigned.                               *)
ulLastConnections == 0

MonitorTypeOK ==
  /\ ClientTaskTypeOK
  /\ mpc \in {"idle", "compare", "connections", "store"}
  /\ {cycles, ulLastEchoSocketCount, calledAt} \subseteq Nat
  /\ xReturn \in {"none", "pdPASS", "pdFAIL"}

MonitorInit ==
  /\ ClientTaskInit
  /\ mpc = "idle"
  /\ cycles = 0
  /\ ulLastEchoSocketCount = 0
  /\ xReturn = "none"
  /\ calledAt = 0

Call ==
  /\ mpc = "idle"
  /\ xReturn' = "pdPASS"
  /\ calledAt' = cycles
  /\ cycles' = ulTxRxCycles
  /\ mpc' = "compare"
  /\ UNCHANGED <<clientTaskVars, ulLastEchoSocketCount>>

LastCountForgotten == ulLastEchoSocketCount
LastCount == cycles

CompareCycles ==
  /\ mpc = "compare"
  /\ IF cycles = ulLastEchoSocketCount
       THEN xReturn' = "pdFAIL" /\ UNCHANGED ulLastEchoSocketCount
       ELSE ulLastEchoSocketCount' = LastCount /\ UNCHANGED xReturn
  /\ mpc' = "connections"
  /\ UNCHANGED <<clientTaskVars, cycles, calledAt>>

CompareConnections ==
  /\ mpc = "connections"
  /\ IF ulConnections = ulLastConnections
       THEN xReturn' = "pdFAIL" /\ mpc' = "idle"
       ELSE mpc' = "store" /\ UNCHANGED xReturn
  /\ UNCHANGED <<clientTaskVars, cycles, ulLastEchoSocketCount, calledAt>>

(* The assignment goes from the last count to the counter.                 *)
StoreConnections ==
  /\ mpc = "store"
  /\ ulConnections' = ulLastConnections
  /\ mpc' = "idle"
  /\ UNCHANGED <<tpc, locals, ulTxRxCycles, ulTxRxFailures, wire, cycles,
                 ulLastEchoSocketCount, xReturn, calledAt>>

Monitor ==
  /\ ~Halted
  /\ Call \/ CompareCycles \/ CompareConnections \/ StoreConnections

MonitoredNext == (Next /\ UNCHANGED monitorVars) \/ Monitor
MonitoredSpec == MonitorInit /\ [][MonitoredNext]_allVars
-------------------------------------------------------------------------------
(* A call that returns pdPASS has seen more cycles than the call before    *)
(* it, however the two tasks interleave.                                   *)
PassMeansProgress ==
  (mpc = "idle" /\ xReturn = "pdPASS") => cycles > calledAt

(* TCPEchoClient_SingleTasks.c:98 "Counters for each created task - for    *)
(* inspection only.": a call of the monitor changes none of them.  Line    *)
(* 389 sets ulConnections[ x ] back to zero.                               *)
MonitorOnlyInspects == [][Monitor => UNCHANGED counters]_allVars
===============================================================================
