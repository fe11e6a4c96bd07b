---------------------------- MODULE ExclusiveAccess ----------------------------
(***************************************************************************)
(* A counter in memory that several contexts (threads and handlers)        *)
(* increment with the exclusive loads and stores of cmsis_gcc.h.  A        *)
(* context can be left for another one between any two instructions; an    *)
(* exception is taken or returns then, and the processor clears its        *)
(* monitor of exclusive accesses.                                          *)
(***************************************************************************)
EXTENDS Integers

CONSTANTS
  Contexts,     (* the threads and handlers                                  *)
  CounterRange, (* 2^8, 2^16 or 2^32: what the counter can hold              *)
  MaxStored     (* bound of the model: increments                            *)

ASSUME ExclusiveAssumption ==
  /\ Contexts # {}
  /\ CounterRange \in Nat \ {0}
  /\ MaxStored \in Nat

VARIABLES
  counter,      (* the memory                                                *)
  exclusive,    (* the monitor: whether a store would be done                *)
  running,      (* the context that has the processor                        *)
  loaded,       (* what each context has in its register                     *)
  stored        (* history: the increments reported as done                  *)

counterVars == <<counter, exclusive, running, loaded, stored>>

CounterInit ==
  /\ counter = 0
  /\ exclusive = FALSE
  /\ running \in Contexts
  /\ loaded = [c \in Contexts |-> 0]
  /\ stored = 0

(* __LDREXB(), __LDREXH() and __LDREXW().                                  *)
LDREX ==
  /\ loaded' = [loaded EXCEPT ![running] = counter]
  /\ exclusive' = TRUE
  /\ UNCHANGED <<counter, running, stored>>

(* __STREXB(), __STREXH() and __STREXW() return 0 if the store was done.   *)
StoredAlways == TRUE
Stored == exclusive

STREX ==
  /\ stored < MaxStored
  /\ exclusive' = FALSE
  /\ IF Stored
     THEN /\ counter' = (loaded[running] + 1) % CounterRange
          /\ stored' = stored + 1
     ELSE UNCHANGED <<counter, stored>>
  /\ UNCHANGED <<running, loaded>>

CLREX ==
  /\ exclusive' = FALSE
  /\ UNCHANGED <<counter, running, loaded, stored>>

(* An exception is taken or returns, to whatever context.                  *)
SwitchContext ==
  /\ running' \in Contexts \ {running}
  /\ exclusive' = FALSE
  /\ UNCHANGED <<counter, loaded, stored>>

CounterNext == LDREX \/ STREX \/ CLREX \/ SwitchContext

CounterSpec == CounterInit /\ [][CounterNext]_counterVars
-------------------------------------------------------------------------------
(* cmsis_gcc.h: no increment that was reported as done is lost, however    *)
(* the contexts interrupt one another; it hangs on STREX looking at the    *)
(* monitor, as a context does not see what others stored since its load.   *)
NoLostUpdate == counter = stored % CounterRange
===============================================================================
