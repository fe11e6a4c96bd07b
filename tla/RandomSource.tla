------------------------------ MODULE RandomSource ----------------------------
(***************************************************************************)
(* The random numbers of platform/main_networking.c and the loop of        *)
(* TCPEchoClient_SingleTasks.c that draws a message length from them.      *)
(* uxRand() reads and writes ulNextRand without a lock, and the IP task,   *)
(* which draws initial sequence numbers, preempts the echo client task in  *)
(* the middle of it.  The integers count modulo a power of two.            *)
(***************************************************************************)
EXTENDS Integers

CONSTANTS
  Modulus,      (* 2^32, the number of values of UBaseType_t                 *)
  Divisor,      (* 2^16: uxRand() drops the lower 16 bits                    *)
  OutputRange,  (* values it can return: 2^15                                *)
  Multiplier,   (* 0x015a4e35                                                *)
  LengthRange,  (* ulBufferLength - 20                                       *)
  lMinimumLength,
  MaxStackDraws (* bound of the model: draws of the IP task                  *)

ASSUME RandomAssumption ==
  /\ {Modulus, Divisor, OutputRange, Multiplier, LengthRange} \subseteq Nat \ {0}
  /\ lMinimumLength \in Nat /\ MaxStackDraws \in Nat

VARIABLES
  ulNextRand,
  apc,          (* the echo client task in prvCreateTxData()                 *)
  loaded,       (* the value of ulNextRand it has loaded                     *)
  number,       (* ulRandomNumber                                            *)
  stackDraws    (* draws of the IP task                                      *)

randomVars == <<ulNextRand, apc, loaded, number, stackDraws>>

UBase == 0 .. Modulus - 1

RandomTypeOK ==
  /\ ulNextRand \in UBase
  /\ apc \in {"idle", "load", "store", "test"}
  /\ loaded \in UBase
  /\ number \in 0 .. OutputRange - 1
  /\ stackDraws \in 0 .. MaxStackDraws

(* The seed is the time of the clock: any value.                           *)
RandomInit ==
  /\ ulNextRand \in UBase
  /\ apc = "idle"
  /\ loaded = 0
  /\ number = 0
  /\ stackDraws = 0

SuccessorNoIncrement(x) == (Multiplier * x) % Modulus
Successor(x) == (Multiplier * x + 1) % Modulus

OutputUnmasked(x) == x \div Divisor
Output(x) == (x \div Divisor) % OutputRange
-------------------------------------------------------------------------------
(* prvCreateTxData() in the echo client task.                              *)
Load ==
  /\ apc = "load"
  /\ loaded' = ulNextRand
  /\ apc' = "store"
  /\ UNCHANGED <<ulNextRand, number, stackDraws>>

Store ==
  /\ apc = "store"
  /\ ulNextRand' = Successor(loaded)
  /\ number' = Output(ulNextRand')
  /\ apc' = "test"
  /\ UNCHANGED <<loaded, stackDraws>>

LengthOK(n) == n # 0 /\ n >= lMinimumLength

Test ==
  /\ apc = "test"
  /\ apc' = IF LengthOK(number % LengthRange) THEN "idle" ELSE "load"
  /\ UNCHANGED <<ulNextRand, loaded, number, stackDraws>>

(* The message is filled and sent; the next one needs a number again.      *)
Fill ==
  /\ apc = "idle"
  /\ apc' = "load"
  /\ UNCHANGED <<ulNextRand, loaded, number, stackDraws>>

App == Load \/ Store \/ Test \/ Fill

(* The IP task has the higher priority: its draw is never interrupted.     *)
StackDraw ==
  /\ stackDraws < MaxStackDraws
  /\ stackDraws' = stackDraws + 1
  /\ ulNextRand' = Successor(ulNextRand)
  /\ UNCHANGED <<apc, loaded, number>>

RandomNext == App \/ StackDraw

RandomSpec == RandomInit /\ [][RandomNext]_randomVars
FairRandomSpec == RandomSpec /\ WF_randomVars(App)
-------------------------------------------------------------------------------
(* The loop of prvCreateTxData(), which has no exit but a number that fits, *)
(* ends for every seed, and also when the IP task's draws are lost to the  *)
(* store it preempted: the generator has the full period.                  *)
LengthFound == (apc = "load") ~> (apc = "idle")
===============================================================================
