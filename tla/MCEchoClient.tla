------------------------------ MODULE MCEchoClient -----------------------------
(***************************************************************************)
(* An instance for TLC of the echo client task and of the generator that   *)
(* its lengths come from.  A behaviour is one of either: the task draws    *)
(* any length that fits, and the generator yields one in the end.          *)
(***************************************************************************)
EXTENDS EchoClient, RandomSource

VARIABLE
  machine       (* the one that runs                                         *)

MCInit ==
  /\ machine \in {"client", "generator"}
  /\ Init
  /\ RandomInit /\ (machine # "generator" => ulNextRand = 0)

ClientMachine == machine = "client" /\ Next
GeneratorMachine == machine = "generator" /\ RandomNext

MCNext ==
  /\ \/ ClientMachine /\ UNCHANGED randomVars
     \/ GeneratorMachine /\ UNCHANGED clientTaskVars
  /\ UNCHANGED machine

mcVars == <<clientTaskVars, randomVars, machine>>

(* The fairness of FairSpec and of FairRandomSpec.                         *)
MCSpec ==
  /\ MCInit /\ [][MCNext]_mcVars
  /\ WF_clientTaskVars(machine = "client" /\ Task)
  /\ WF_randomVars(machine = "generator" /\ App)
===============================================================================
