------------------------------- MODULE TcpStack -------------------------------
(***************************************************************************)
(* The two TCP stacks under the echo server demo, FreeRTOS+TCP on the QEMU *)
(* side and the Linux sockets on the host, reduced to what the programs in *)
(* src/ can observe through their socket calls.  None of this code is in   *)
(* src/, so every definition here is external.                             *)
(*                                                                         *)
(* Each client process of the host opens one connection in its life, so a  *)
(* connection is named by its client.  A connection carries two streams:   *)
(* the client's units 1, 2, 3, ... to the server, and the cells the server *)
(* writes back.  TCP neither loses, duplicates nor reorders inside a       *)
(* stream; what it may do is deliver late, in pieces of any size, or break *)
(* and leave a tail undelivered.                                           *)
(***************************************************************************)
EXTENDS Integers, Sequences, FiniteSets

CONSTANTS
  Clients,      (* the host's client processes, each one connection          *)
  UpCap,        (* units in transit or unread from a client to the server    *)
  DownCap,      (* cells in transit or unread from the server to a client    *)
  Backlog,      (* child sockets the listening socket may have               *)
  NUL           (* the terminator the server stores behind what it received  *)

ASSUME StackAssumption ==
  /\ UpCap \in Nat \ {0}
  /\ DownCap \in Nat \ {0}
  /\ Backlog \in Nat \ {0}
  /\ NUL \notin Clients \X Nat

VARIABLES
  listening,    (* the listening socket is bound and in LISTEN               *)
  children,     (* clients that have a child socket on the FreeRTOS side     *)
  backlog,      (* those of the children that still wait for accept          *)
  link,         (* link[c]: what has become of c's connection                *)
  written,      (* written[c]: units c has handed to its kernel              *)
  taken,        (* taken[c]: units FreeRTOS_recv() has handed to the server  *)
  echoed,       (* echoed[c]: cells FreeRTOS_send() has accepted for c       *)
  got           (* got[c]: cells recv() has handed to the client             *)

stackVars ==
  <<listening, children, backlog, link, written, taken, echoed, got>>

(* What one byte of a buffer can hold: a unit of some client, or the NUL.  *)
Unit == Clients \X Nat
Cell == Unit \cup {NUL}

LinkState == {"absent", "up", "clientClosed", "serverClosed", "down"}

StackTypeOK ==
  /\ listening \in BOOLEAN
  /\ children \subseteq Clients
  /\ backlog \subseteq Clients
  /\ link \in [Clients -> LinkState]
  /\ written \in [Clients -> Nat]
  /\ taken \in [Clients -> Nat]
  /\ echoed \in [Clients -> Seq(Cell)]
  /\ got \in [Clients -> Nat]

StackInit ==
  /\ listening = FALSE
  /\ children = {}
  /\ backlog = {}
  /\ link = [c \in Clients |-> "absent"]
  /\ written = [c \in Clients |-> 0]
  /\ taken = [c \in Clients |-> 0]
  /\ echoed = [c \in Clients |-> <<>>]
  /\ got = [c \in Clients |-> 0]
-------------------------------------------------------------------------------
(* The streams.                                                            *)
Unread(c) == written[c] - taken[c]
Unseen(c) == Len(echoed[c]) - got[c]
UpRoom(c) == Unread(c) < UpCap
DownRoom(c) == Unseen(c) < DownCap

Up(c) == link[c] = "up"

(* A SYN finds the listening socket with a free place.  FreeRTOS+TCP       *)
(* counts accepted children against the backlog too, until they are closed. *)
Handshake(c) ==
  /\ link[c] = "absent"
  /\ listening
  /\ Cardinality(children) < Backlog
  /\ link' = [link EXCEPT ![c] = "up"]
  /\ children' = children \cup {c}
  /\ backlog' = backlog \cup {c}

(* A child that dies before it was accepted is removed by the stack; one   *)
(* that was accepted stays until the server closes it.                     *)
ForgetUnaccepted(c) ==
  /\ backlog' = backlog \ {c}
  /\ children' = IF c \in backlog THEN children \ {c} ELSE children

(* close() by the client.  It is orderly, and the server can still read    *)
(* every unit, only when nothing of the other stream is left to arrive:    *)
(* otherwise the client's kernel answers with a reset.                     *)
CloseClientEnd(c) ==
  /\ link' = [link EXCEPT ![c] = IF /\ @ = "up"
                                    /\ c \notin backlog
                                    /\ Unseen(c) = 0
                                 THEN "clientClosed" ELSE "down"]
  /\ ForgetUnaccepted(c)

CloseServerEnd(c) ==
  /\ link' = [link EXCEPT ![c] = IF @ = "up" THEN "serverClosed" ELSE "down"]
  /\ children' = children \ {c}

(* Cells sent to a client that is gone provoke a reset.                    *)
QueueCell(c, cell) ==
  /\ echoed' = [echoed EXCEPT ![c] = Append(@, cell)]
  /\ link' = [link EXCEPT ![c] = IF @ = "clientClosed" THEN "down" ELSE @]

(* The path between the two ends is lost for good: keep-alive or           *)
(* retransmission gives up, and each end sees an error.                    *)
LinkLost(c) ==
  /\ link[c] = "up"
  /\ link' = [link EXCEPT ![c] = "down"]
  /\ ForgetUnaccepted(c)
  /\ UNCHANGED <<listening, written, taken, echoed, got>>
===============================================================================
