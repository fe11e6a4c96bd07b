------------------------------ MODULE EchoServer ------------------------------
(***************************************************************************)
(* The echo server task of app/demos/demo_echo_server.c: one FreeRTOS task *)
(* that accepts one client at a time and sends back what it receives.      *)
(* Variables and control points follow prvEchoServerTask(); the socket     *)
(* calls it makes act on the connections of TcpStack.                      *)
(***************************************************************************)
EXTENDS TcpStack

CONSTANTS
  BufSize,      (* sizeof( rxBuffer )                                        *)
  NULL,         (* the handle FreeRTOS_accept() returns when it times out    *)
  INVALID       (* FREERTOS_INVALID_SOCKET                                   *)

ASSUME ServerAssumption ==
  /\ BufSize \in Nat \ {0, 1}
  /\ NULL \notin Clients
  /\ INVALID \notin Clients
  /\ NULL # INVALID

VARIABLES
  pc,           (* the socket call the task is about to make, or is in       *)
  xClientSocket,
  rxBuffer,
  xRx,          (* what the last FreeRTOS_recv() returned; 0 for every error *)
  sent,         (* cells of rxBuffer the running FreeRTOS_send() has queued  *)
  short         (* history: clients for which some send() came up short      *)

taskVars == <<pc, xClientSocket, rxBuffer, xRx, sent, short>>

Index == 0 .. BufSize - 1

ServerTypeOK ==
  /\ pc \in {"socket", "listen", "accept", "recv", "send", "close", "halted"}
  /\ xClientSocket \in Clients \cup {NULL, INVALID}
  /\ rxBuffer \in [Index -> Cell]
  /\ xRx \in Index
  /\ sent \in Index
  /\ short \subseteq Clients

(* The stack buffer starts with whatever an earlier frame left there; one  *)
(* value stands for all of it.                                             *)
ServerInit ==
  /\ pc = "socket"
  /\ xClientSocket = INVALID
  /\ rxBuffer = [i \in Index |-> NUL]
  /\ xRx = 0
  /\ sent = 0
  /\ short = {}
-------------------------------------------------------------------------------
(* Start-up.  A failed FreeRTOS_socket() ends in vAssertCalled(), which    *)
(* masks the interrupts and spins: the whole program stops there.          *)
CreateSocket ==
  /\ pc = "socket"
  /\ pc' \in {"listen", "halted"}
  /\ UNCHANGED <<stackVars, xClientSocket, rxBuffer, xRx, sent, short>>

Halted ==
  /\ pc = "halted"
  /\ UNCHANGED <<stackVars, taskVars>>

(* The results of FreeRTOS_bind() and FreeRTOS_listen() are ignored, so    *)
(* the task enters its loop whether or not the socket listens.             *)
BindAndListen ==
  /\ pc = "listen"
  /\ listening' \in BOOLEAN
  /\ pc' = "accept"
  /\ UNCHANGED <<children, backlog, link, written, taken, echoed, got,
                 xClientSocket, rxBuffer, xRx, sent, short>>
-------------------------------------------------------------------------------
(* FreeRTOS_accept().  The listening socket has no receive timeout of its  *)
(* own, so the default block time applies and the call returns NULL when   *)
(* nobody came.  Only FREERTOS_INVALID_SOCKET sends the task back to the   *)
(* top of its loop: NULL goes on to the receive loop like a client.        *)
AcceptReturns(s) ==
  /\ xClientSocket' = s
  /\ pc' = IF s = INVALID THEN "accept" ELSE "recv"
  /\ UNCHANGED <<rxBuffer, xRx, sent, short>>

AcceptClient(c) ==
  /\ pc = "accept"
  /\ listening
  /\ c \in backlog
  /\ backlog' = backlog \ {c}
  /\ AcceptReturns(c)
  /\ UNCHANGED <<listening, children, link, written, taken, echoed, got>>

AcceptTimeout ==
  /\ pc = "accept"
  /\ listening
  /\ backlog = {}
  /\ AcceptReturns(NULL)
  /\ UNCHANGED stackVars

AcceptInvalid ==
  /\ pc = "accept"
  /\ ~listening
  /\ AcceptReturns(INVALID)
  /\ UNCHANGED stackVars
-------------------------------------------------------------------------------
(* FreeRTOS_recv( xClientSocket, rxBuffer, sizeof( rxBuffer ) - 1 ): any   *)
(* part of what the client wrote may have arrived.  The bytes behind the   *)
(* terminator keep what an earlier message left there.                     *)
RecvSizeWhole == BufSize
RecvSize == BufSize - 1

ReceivedShifted(c, n) ==
  [i \in Index |-> IF i < n THEN <<c, taken[c] + i>>
                   ELSE IF i = n THEN NUL ELSE rxBuffer[i]]

Received(c, n) ==
  [i \in Index |-> IF i < n THEN <<c, taken[c] + i + 1>>
                   ELSE IF i = n THEN NUL ELSE rxBuffer[i]]

RecvData(c, n) ==
  /\ pc = "recv"
  /\ xClientSocket = c
  /\ n <= RecvSize
  /\ n <= Unread(c)
  /\ rxBuffer' = Received(c, n)
  /\ xRx' = n
  /\ sent' = 0
  /\ taken' = [taken EXCEPT ![c] = @ + n]
  /\ pc' = "send"
  /\ UNCHANGED <<listening, children, backlog, link, written, echoed, got,
                 xClientSocket, short>>

(* recv returns 0 or an error and the task leaves the session.             *)
RecvFails ==
  /\ pc = "recv"
  /\ xRx' = 0
  /\ pc' = "close"
  /\ UNCHANGED <<stackVars, xClientSocket, rxBuffer, sent, short>>

(* The handle is no socket: -pdFREERTOS_ERRNO_EINVAL, at once.             *)
RecvNull ==
  /\ xClientSocket = NULL
  /\ RecvFails

(* The connection has ended.  After an orderly close the units that were   *)
(* written before it are read first; after a reset they may be lost.       *)
RecvClosedRetried(c) ==
  /\ pc = "recv"
  /\ xClientSocket = c
  /\ ~Up(c)
  /\ UNCHANGED <<stackVars, taskVars>>

RecvClosed(c) ==
  /\ xClientSocket = c
  /\ \/ link[c] = "clientClosed" /\ Unread(c) = 0
     \/ link[c] = "down"
  /\ RecvFails

(* FREERTOS_SO_RCVTIMEO is portMAX_DELAY.  FreeRTOSConfig.h does not set   *)
(* INCLUDE_vTaskSuspend, so this is 2^32 - 1 ticks and not forever: an     *)
(* idle client is dropped in the end.                                      *)
RecvTimeoutNever(c) == FALSE

RecvTimeout(c) ==
  /\ xClientSocket = c
  /\ Up(c)
  /\ Unread(c) = 0
  /\ RecvFails
-------------------------------------------------------------------------------
(* FreeRTOS_send( xClientSocket, rxBuffer, xRx ) queues cells as the       *)
(* stream has room, and gives up after the default block time (5 s), or    *)
(* when it sees that the connection has ended.  The task does not look at  *)
(* the result.                                                             *)
SendLenWhole == RecvSize
SendLenShort == xRx - 1
SendLen == xRx

SendUnit(c) ==
  /\ pc = "send"
  /\ xClientSocket = c
  /\ sent < SendLen
  /\ DownRoom(c)
  /\ QueueCell(c, rxBuffer[sent])
  /\ sent' = sent + 1
  /\ UNCHANGED <<listening, children, backlog, written, taken, got,
                 pc, xClientSocket, rxBuffer, xRx, short>>

SendReturns ==
  /\ pc' = "recv"
  /\ UNCHANGED <<stackVars, xClientSocket, rxBuffer, xRx, sent>>

SendComplete(c) ==
  /\ pc = "send"
  /\ xClientSocket = c
  /\ sent = SendLen
  /\ short' = short
  /\ SendReturns

GivesUpNever(c) == ~Up(c)
GivesUp(c) == ~DownRoom(c) \/ ~Up(c)

SendShort(c) ==
  /\ pc = "send"
  /\ xClientSocket = c
  /\ sent < SendLen
  /\ GivesUp(c)
  /\ short' = short \cup {c}
  /\ SendReturns
-------------------------------------------------------------------------------
(* FreeRTOS_closesocket(), then the next turn of the outer loop.  For a    *)
(* NULL handle it does nothing.                                            *)
CloseSocketForgotten(c) == UNCHANGED <<link, children>>
CloseSocket(c) == CloseServerEnd(c)

Close ==
  /\ pc = "close"
  /\ IF xClientSocket = NULL THEN UNCHANGED <<link, children>>
                             ELSE CloseSocket(xClientSocket)
  /\ pc' = "accept"
  /\ UNCHANGED <<listening, backlog, written, taken, echoed, got,
                 xClientSocket, rxBuffer, xRx, sent, short>>

(* What the task does for the client it has accepted.                      *)
Serve(c) ==
  \/ AcceptClient(c)
  \/ \E n \in 1 .. BufSize : RecvData(c, n)
  \/ RecvClosed(c)
  \/ RecvTimeout(c)
  \/ SendUnit(c)
  \/ SendComplete(c)
  \/ SendShort(c)

ServerNext ==
  \/ CreateSocket
  \/ Halted
  \/ BindAndListen
  \/ AcceptTimeout
  \/ AcceptInvalid
  \/ RecvNull
  \/ Close
  \/ \E c \in Clients : Serve(c)
===============================================================================
