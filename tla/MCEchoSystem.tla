----------------------------- MODULE MCEchoSystem -----------------------------
(***************************************************************************)
(* Instances of EchoSystem for TLC.  The clients are interchangeable; the  *)
(* symmetry is used in the runs without temporal properties only.          *)
(***************************************************************************)
EXTENDS EchoSystem, TLC

Symmetry == Permutations(Clients)
===============================================================================
