------------------------------ MODULE EchoService -----------------------------
(***************************************************************************)
(* What the echo server promises, without sockets, buffers or processes:   *)
(* for each client it consumes a stream of units and puts out cells, each  *)
(* of them one of the units it has consumed from that same client, in the  *)
(* order of that stream and never twice.  It does not promise to put out   *)
(* every unit: a slow reader loses some.                                   *)
(***************************************************************************)
EXTENDS Integers, Sequences

CONSTANTS Clients

VARIABLES
  consumed,     (* consumed[c]: units taken from c's stream so far           *)
  out           (* out[c]: what was put out for c, as <<client, unit>> pairs *)

Init ==
  /\ consumed = [c \in Clients |-> 0]
  /\ out = [c \in Clients |-> <<>>]

Consume(c) ==
  /\ consumed'[c] \in Nat
  /\ consumed'[c] > consumed[c]
  /\ consumed' = [consumed EXCEPT ![c] = consumed'[c]]
  /\ out' = out

LastUnit(c) == IF out[c] = <<>> THEN 0 ELSE out[c][Len(out[c])][2]

PutOut(c) ==
  /\ \E u \in LastUnit(c) + 1 .. consumed[c] :
        out' = [out EXCEPT ![c] = Append(@, <<c, u>>)]
  /\ consumed' = consumed

Next == \E c \in Clients : Consume(c) \/ PutOut(c)

Spec == Init /\ [][Next]_<<consumed, out>>
===============================================================================
