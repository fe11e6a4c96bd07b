------------------------------ MODULE EchoSystem ------------------------------
(***************************************************************************)
(* The echo server demo as it runs: the echo server task on FreeRTOS, one  *)
(* tcp_client process per member of Clients on the host, and the network   *)
(* between them, which may lose a connection at any time.                  *)
(***************************************************************************)
EXTENDS EchoServer, TcpClient

vars == <<stackVars, taskVars, clientVars>>

Init ==
  /\ StackInit
  /\ ServerInit
  /\ ClientInit

Server == ServerNext /\ UNCHANGED clientVars
Client(c) == ClientNext(c) /\ UNCHANGED taskVars
Network(c) == LinkLost(c) /\ UNCHANGED <<taskVars, clientVars>>

Next ==
  \/ Server
  \/ \E c \in Clients : Client(c) \/ Network(c)

Spec == Init /\ [][Next]_vars

(* The server task never waits for ever in a call: accept and send have    *)
(* the default block time, recv 2^32 - 1 ticks.  A client process runs     *)
(* when it has something to do; when select() would learn of a lost        *)
(* connection is left open, and so is all that its user does.              *)
ClientProgress(c) ==
  /\ cpc[c] = "select" => Unseen(c) > 0
  /\ ClientRuns(c)
  /\ UNCHANGED taskVars

FairSpec ==
  /\ Spec
  /\ WF_vars(Server)
  /\ \A c \in Clients : WF_vars(ClientProgress(c))
-------------------------------------------------------------------------------
(* Every variable keeps its type; for xRx and sent this is also the        *)
(* memory safety of demo_echo_server.c:88-108: the NUL stored at           *)
(* rxBuffer[ xRx ] and the cells send() reads lie inside rxBuffer.         *)
TypeOK == StackTypeOK /\ ServerTypeOK /\ ClientTypeOK

(* Units of c that the task holds and has not yet handed back.             *)
Pending(c) == IF pc = "send" /\ xClientSocket = c THEN xRx - sent ELSE 0

(* Whatever the server sends to a client is that client's own data, in     *)
(* the order it was written and no unit twice: no byte that an earlier     *)
(* message or another client left in the one rxBuffer, and no terminator,  *)
(* is ever echoed.                                                         *)
EchoInOrder ==
  \A c \in Clients :
    /\ \A i \in DOMAIN echoed[c] :
         \E u \in 1 .. taken[c] - Pending(c) : echoed[c][i] = <<c, u>>
    /\ \A i, j \in DOMAIN echoed[c] :
         i < j => echoed[c][i][2] < echoed[c][j][2]

(* The server loses a unit it has received only when a send() to that      *)
(* client came up short (a slow reader or an ended connection): otherwise  *)
(* what it has echoed is, together with what it still holds, everything    *)
(* it has received.                                                        *)
LossOnlyWhenShort ==
  \A c \in Clients \ short : Len(echoed[c]) + Pending(c) = taken[c]

(* Child sockets are not leaked: one that is not waiting for accept is the *)
(* one the task serves now, whether the session before it ended by a       *)
(* close, an error, a timeout or never had a client at all.  A leak would  *)
(* fill the backlog, which counts accepted children, and shut every later  *)
(* client out.                                                             *)
NoSocketLeak ==
  children \ backlog =
    IF pc \in {"recv", "send", "close"} THEN {xClientSocket} \cap Clients
                                        ELSE {}

Service == INSTANCE EchoService WITH consumed <- taken, out <- echoed

(* The echo server with its sockets, its buffer and its short sends        *)
(* implements the service it promises.                                     *)
ImplementsEchoService == Service!Spec
-------------------------------------------------------------------------------
(* A client whose connection has ended does not hold its child socket, and *)
(* with it the only server task, for ever.                                 *)
GoneClientReleased ==
  \A c \in Clients :
    (c \in children /\ ~Up(c)) ~> (c \notin children)

(* A client that waits in the backlog is served at last, or its connection *)
(* ends, although the server has one task and serves one client at a time: *)
(* here every user types finitely much, and the one that is served is      *)
(* dropped when it stays silent for the receive timeout.                   *)
WaitingClientServed ==
  \A c \in Clients : (c \in backlog) ~> (c \notin backlog)

(* The client does not read while it sends, and the server does not read   *)
(* while it sends: with both streams full the two wait for each other.     *)
(* The send timeout of the server breaks the tie, and the client comes     *)
(* back to its select().                                                   *)
BlockedSenderReleased ==
  \A c \in Clients :
    (cpc[c] = "send" /\ xClientSocket = c /\ pc \in {"recv", "send"})
      ~> (cpc[c] # "send")

(* Every unit the server receives is echoed, or the client is one a send() *)
(* came up short for.                                                      *)
EveryUnitAnswered ==
  \A c \in Clients : \A n \in 1 .. MaxUnits :
    (taken[c] >= n) ~> (Len(echoed[c]) >= n \/ c \in short)
-------------------------------------------------------------------------------
(* DEMO_Instructions.txt:102 "Data sent from Linux is echoed back by       *)
(* FreeRTOS": between two receive calls on a live connection everything    *)
(* received has been echoed.  The code ignores what FreeRTOS_send()        *)
(* returns, and this does not hold.                                        *)
EchoComplete ==
  \A c \in Clients :
    (pc = "recv" /\ xClientSocket = c /\ Up(c)) => Len(echoed[c]) = taken[c]

(* demo_echo_server.c:68 "Block until client connects": past accept there  *)
(* is a client.  FreeRTOS_accept() gives up after the default block time   *)
(* and returns NULL, which is not FREERTOS_INVALID_SOCKET.                 *)
NoPhantomClient == pc = "recv" => xClientSocket \in Clients
===============================================================================
