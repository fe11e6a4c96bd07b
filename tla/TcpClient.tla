------------------------------ MODULE TcpClient -------------------------------
(***************************************************************************)
(* linux/tcp_client.c, run once per member of Clients on the host: connect *)
(* to the echo server, then wait with select() for the socket and for the  *)
(* terminal.  The text the user types is a run of numbered units.          *)
(***************************************************************************)
EXTENDS TcpStack

CONSTANTS
  ChunkMax,     (* longest line the user types, in units                     *)
  MaxUnits      (* bound of the model: units each user types in all          *)

ASSUME ClientAssumption ==
  /\ ChunkMax \in Nat \ {0}
  /\ MaxUnits \in Nat

VARIABLES
  cpc,          (* where each client process is                              *)
  typed,        (* FD_ISSET( STDIN_FILENO ): saved by select(), used later   *)
  chunk         (* units of the running send() the kernel has not yet taken  *)

clientVars == <<cpc, typed, chunk>>

ClientTypeOK ==
  /\ cpc \in [Clients -> {"start", "select", "sock", "stdin", "send", "done"}]
  /\ typed \in [Clients -> BOOLEAN]
  /\ chunk \in [Clients -> Nat]

ClientInit ==
  /\ cpc = [c \in Clients |-> "start"]
  /\ typed = [c \in Clients |-> FALSE]
  /\ chunk = [c \in Clients |-> 0]

Goto(c, label) == cpc' = [cpc EXCEPT ![c] = label]
-------------------------------------------------------------------------------
Connect(c) ==
  /\ cpc[c] = "start"
  /\ Handshake(c)
  /\ Goto(c, "select")
  /\ UNCHANGED <<listening, written, taken, echoed, got, typed, chunk>>

(* Refused, or timed out: the process ends.                                *)
ConnectFails(c) ==
  /\ cpc[c] = "start"
  /\ Goto(c, "done")
  /\ UNCHANGED <<stackVars, typed, chunk>>

(* The socket is ready when there are cells to read, or when the process   *)
(* has learnt that the server is gone.                                     *)
Ended(c) == link[c] \in {"serverClosed", "down"}
Readable(c) == Unseen(c) > 0 \/ Ended(c)

(* select() reports at least one of the two descriptors; the socket is     *)
(* looked at first.                                                        *)
Select(c, sockReady, stdinReady) ==
  /\ cpc[c] = "select"
  /\ sockReady => Readable(c)
  /\ sockReady \/ stdinReady
  /\ typed' = [typed EXCEPT ![c] = stdinReady]
  /\ Goto(c, IF sockReady THEN "sock" ELSE "stdin")
  /\ UNCHANGED <<stackVars, chunk>>

AfterSock(c) == Goto(c, IF typed[c] THEN "stdin" ELSE "select")

SockRecv(c, n) ==
  /\ cpc[c] = "sock"
  /\ n <= Unseen(c)
  /\ got' = [got EXCEPT ![c] = @ + n]
  /\ AfterSock(c)
  /\ UNCHANGED <<listening, children, backlog, link, written, taken, echoed,
                 typed, chunk>>

(* close() and exit; a killed process (Ctrl+C) ends the same way.          *)
Quit(c) ==
  /\ CloseClientEnd(c)
  /\ Goto(c, "done")
  /\ UNCHANGED <<listening, written, taken, echoed, got, typed, chunk>>

(* recv() returns 0 or fails: "FreeRTOS disconnected".                     *)
SockEnd(c) ==
  /\ cpc[c] = "sock"
  /\ Ended(c)
  /\ Quit(c)

Kill(c) ==
  /\ cpc[c] \in {"select", "sock", "stdin", "send"}
  /\ Quit(c)

(* read() from the terminal: n units, or 0 at end of file, which is        *)
(* ignored.                                                                *)
StdinRead(c, n) ==
  /\ cpc[c] = "stdin"
  /\ written[c] + n <= MaxUnits
  /\ chunk' = [chunk EXCEPT ![c] = n]
  /\ Goto(c, IF n > 0 THEN "send" ELSE "select")
  /\ UNCHANGED <<stackVars, typed>>

(* send() blocks until the kernel has taken every unit.                    *)
ClientSendUnit(c) ==
  /\ cpc[c] = "send"
  /\ chunk[c] > 0
  /\ Up(c)
  /\ UpRoom(c)
  /\ written' = [written EXCEPT ![c] = @ + 1]
  /\ chunk' = [chunk EXCEPT ![c] = @ - 1]
  /\ UNCHANGED <<listening, children, backlog, link, taken, echoed, got,
                 cpc, typed>>

(* It returns when it is done, or with an error once the connection has    *)
(* ended (SIGPIPE is ignored); the loop goes on either way.                *)
ClientSendReturns(c) ==
  /\ cpc[c] = "send"
  /\ chunk[c] = 0 \/ ~Up(c)
  /\ chunk' = [chunk EXCEPT ![c] = 0]
  /\ Goto(c, "select")
  /\ UNCHANGED <<stackVars, typed>>

(* The steps the process takes by itself ...                               *)
ClientRuns(c) ==
  \/ Select(c, TRUE, FALSE)
  \/ \E n \in 1 .. DownCap : SockRecv(c, n)
  \/ SockEnd(c)
  \/ \E n \in 0 .. ChunkMax : StdinRead(c, n)
  \/ ClientSendUnit(c)
  \/ ClientSendReturns(c)

(* ... and those its user decides on.                                      *)
ClientNext(c) ==
  \/ Connect(c)
  \/ ConnectFails(c)
  \/ \E sockReady \in BOOLEAN : Select(c, sockReady, TRUE)
  \/ Kill(c)
  \/ ClientRuns(c)
===============================================================================
