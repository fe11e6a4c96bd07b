------------------------------- MODULE Heartbeat ------------------------------
(***************************************************************************)
(* The heartbeat task of tcp_heartbeat_demo.c and linux/tcp_server.c, the  *)
(* host program it reports to.  The task sends a numbered line every       *)
(* second and never reads; the host program prints what arrives and sends  *)
(* what its user types.  It accepts one connection in its life.            *)
(*                                                                         *)
(* Line k is a sequence of cells <<k, i>> with i in 1 .. LineLen.          *)
(***************************************************************************)
EXTENDS Integers, Sequences

CONSTANTS
  LineLen,      (* length of a line "HEARTBEAT k"                            *)
  CounterMod,   (* 2^32, the range of ulCounter                              *)
  StreamCap,    (* cells in transit to the host or unread there              *)
  BackCap,      (* bytes from the host the task leaves unread                *)
  ChunkMax      (* longest line the host's user types                        *)

ASSUME HeartbeatAssumption ==
  /\ {LineLen, CounterMod, StreamCap, BackCap, ChunkMax} \subseteq Nat \ {0}

VARIABLES
  hpc,          (* where prvTCPHeartbeatTask() is                            *)
  open,         (* sockets the task has opened and not closed                *)
  ulCounter,
  line,         (* the number snprintf() has put into cTxBuffer              *)
  queued,       (* cells of cTxBuffer the running send() has taken           *)
  conn,         (* the connection as the task's socket sees it               *)
  stream,       (* cells sent on this connection and not read by the host    *)
  spc,          (* where tcp_server.c is                                     *)
  typed,        (* FD_ISSET( STDIN_FILENO )                                  *)
  chunk,        (* bytes of the running send() of the host not yet taken     *)
  fd,           (* the one connection the host accepts                       *)
  left,         (* cells for the host that were there when it died           *)
  back,         (* bytes the host has sent on it: the task reads none        *)
  last          (* the cell the host has read last, <<>> before the first    *)

taskVars == <<hpc, open, ulCounter, line, queued>>
hostVars == <<spc, typed, chunk, last>>
atHost == <<fd, left>>
vars == <<taskVars, conn, stream, hostVars, atHost, back>>

Cell == (0 .. CounterMod - 1) \X (1 .. LineLen)

TypeOK ==
  /\ hpc \in {"socket", "connect", "format", "send", "delay", "close", "backoff"}
  /\ open \in Nat
  /\ {ulCounter, line} \subseteq 0 .. CounterMod - 1
  /\ queued \in 0 .. LineLen
  /\ conn \in {"none", "up", "ended"}
  /\ stream \in Seq(Cell) /\ Len(stream) <= StreamCap
  /\ spc \in {"accept", "select", "sock", "stdin", "send", "done"}
  /\ typed \in BOOLEAN
  /\ chunk \in 0 .. ChunkMax
  /\ fd \in {"none", "queue", "open", "queueDead", "openDead", "openSent", "openReset"}
  /\ left \in Seq(Cell) /\ Len(left) <= StreamCap
  /\ back \in 0 .. BackCap
  /\ last \in {<<>>} \cup Cell

Init ==
  /\ hpc = "socket" /\ open = 0 /\ ulCounter = 0 /\ line = 0 /\ queued = 0
  /\ conn = "none" /\ stream = <<>>
  /\ spc = "accept" /\ typed = FALSE /\ chunk = 0 /\ last = <<>>
  /\ fd = "none" /\ left = <<>> /\ back = 0
-------------------------------------------------------------------------------
(* The heartbeat task.  Without a socket it waits and tries again.         *)
OpenSocket ==
  /\ hpc = "socket"
  /\ \/ hpc' = "connect" /\ open' = open + 1
     \/ hpc' = "backoff" /\ open' = open
  /\ UNCHANGED <<ulCounter, line, queued, conn, stream, hostVars, atHost, back>>

(* The host's listening socket queues a connection until accept() takes    *)
(* it, and goes on queueing behind the one it has accepted.                *)
Connect ==
  /\ hpc = "connect"
  /\ spc # "done"
  /\ conn' = "up"
  /\ stream' = <<>>
  /\ fd' = IF fd = "none" THEN "queue" ELSE fd
  /\ hpc' = "format"
  /\ UNCHANGED <<open, ulCounter, line, queued, hostVars, left, back>>

ConnectFails ==
  /\ hpc = "connect"
  /\ hpc' = "close"
  /\ UNCHANGED <<open, ulCounter, line, queued, conn, stream, hostVars, atHost, back>>

(* snprintf() with ulCounter++.                                            *)
LineAgain == IF queued < LineLen THEN line ELSE ulCounter
NextLine == ulCounter

CounterUnbounded == ulCounter + 1
CounterPlusOne == (ulCounter + 1) % CounterMod

Format ==
  /\ hpc = "format"
  /\ line' = NextLine
  /\ ulCounter' = CounterPlusOne
  /\ queued' = 0
  /\ hpc' = "send"
  /\ UNCHANGED <<open, conn, stream, hostVars, atHost, back>>

SendCell ==
  /\ hpc = "send"
  /\ queued < LineLen
  /\ Len(stream) < StreamCap
  /\ stream' = Append(stream, <<line, queued + 1>>)
  /\ queued' = queued + 1
  /\ UNCHANGED <<hpc, open, ulCounter, line, conn, hostVars, atHost, back>>

(* FreeRTOS_send() returns when the line is queued, when its two seconds   *)
(* are over, or when the connection has ended.  The result is negative     *)
(* only if nothing was queued: a line cut short is taken for a line sent.  *)
Stuck == Len(stream) = StreamCap \/ conn = "ended"

AfterFailedSendRetry == "send"
AfterFailedSend == "close"

SendReturns ==
  /\ hpc = "send"
  /\ queued = LineLen \/ Stuck
  /\ hpc' = IF queued > 0 THEN "delay" ELSE AfterFailedSend
  /\ UNCHANGED <<open, ulCounter, line, queued, conn, stream, hostVars, atHost, back>>

Delay ==
  /\ hpc \in {"delay", "backoff"}
  /\ hpc' = IF hpc = "delay" THEN "format" ELSE "socket"
  /\ UNCHANGED <<open, ulCounter, line, queued, conn, stream, hostVars, atHost, back>>

(* What is left of the connection at the host when the path is lost, or    *)
(* when the task has closed without a shutdown: nothing tells the host.    *)
(* It reads what has arrived, and finds out only if a segment of its own   *)
(* is under way, as certainly one is when its buffers are full.            *)
Died ==
  IF fd \notin {"queue", "open"} THEN UNCHANGED atHost
  ELSE /\ \/ fd = "queue" /\ fd' = "queueDead"
          \/ fd = "open" /\ back < BackCap /\ fd' = "openDead"
          \/ fd = "open" /\ back > 0 /\ fd' = "openSent"
       /\ \E n \in 0 .. Len(stream) : left' = SubSeq(stream, 1, n)

(* FreeRTOS_closesocket().                                                 *)
OpenAfterCloseLeak == open
OpenAfterClose == open - 1

Close ==
  /\ hpc = "close"
  /\ open' = OpenAfterClose
  /\ conn' = "none"
  /\ stream' = <<>>
  /\ Died
  /\ hpc' = "backoff"
  /\ UNCHANGED <<ulCounter, line, queued, hostVars, back>>

Task ==
  \/ OpenSocket \/ Connect \/ ConnectFails \/ Format \/ SendCell \/ SendReturns
  \/ Delay \/ Close
-------------------------------------------------------------------------------
(* The host program.                                                       *)
Accept ==
  /\ spc = "accept"
  /\ fd \in {"queue", "queueDead"}
  /\ fd' = IF fd = "queue" THEN "open" ELSE "openDead"
  /\ spc' = "select"
  /\ UNCHANGED <<taskVars, conn, stream, typed, chunk, last, left, back>>

Arrived == IF fd = "open" THEN stream ELSE left
Readable == fd = "openReset" \/ Arrived # <<>>

Select(sockReady, stdinReady) ==
  /\ spc = "select"
  /\ sockReady => Readable
  /\ sockReady \/ stdinReady
  /\ typed' = stdinReady
  /\ spc' = IF sockReady THEN "sock" ELSE "stdin"
  /\ UNCHANGED <<taskVars, conn, stream, chunk, last, atHost, back>>

(* One cell of what recv() returns: before any error.                      *)
ReadCell ==
  /\ Arrived # <<>>
  /\ last' = Head(Arrived)
  /\ stream' = IF fd = "open" THEN Tail(stream) ELSE stream
  /\ left' = IF fd = "open" THEN left ELSE Tail(left)

RecvCell ==
  /\ spc = "sock"
  /\ ReadCell
  /\ spc' \in {"sock", IF typed THEN "stdin" ELSE "select"}
  /\ UNCHANGED <<taskVars, conn, typed, chunk, fd, back>>

RecvReturns ==
  /\ spc = "sock"
  /\ ~Readable
  /\ spc' = IF typed THEN "stdin" ELSE "select"
  /\ UNCHANGED <<taskVars, conn, stream, typed, chunk, last, atHost, back>>

(* Both sockets are closed and the program ends: its user typed quit, a    *)
(* call on the connection failed, or it was killed.                        *)
HostEnds ==
  /\ spc' = "done"
  /\ conn' = IF conn = "up" THEN "ended" ELSE conn
  /\ UNCHANGED <<taskVars, stream, typed, chunk, last, atHost, back>>

RecvFails == spc = "sock" /\ fd = "openReset" /\ left = <<>> /\ HostEnds
Quit == spc = "stdin" /\ HostEnds
Kill == spc # "done" /\ HostEnds

(* A line from the terminal, or end of file, which is ignored.             *)
StdinRead(n) ==
  /\ spc = "stdin"
  /\ chunk' = n
  /\ spc' = IF n > 0 THEN "send" ELSE "select"
  /\ UNCHANGED <<taskVars, conn, stream, typed, last, atHost, back>>

(* A send() on a dead connection is taken, as if it were not.              *)
HostSendByte ==
  /\ spc = "send"
  /\ chunk > 0
  /\ fd \in {"open", "openDead", "openSent"}
  /\ back < BackCap
  /\ back' = back + 1
  /\ chunk' = chunk - 1
  /\ fd' = IF fd = "openDead" THEN "openSent" ELSE fd
  /\ UNCHANGED <<taskVars, conn, stream, spc, typed, last, left>>

HostSendReturns ==
  /\ spc = "send"
  /\ chunk = 0
  /\ spc' = "select"
  /\ UNCHANGED <<taskVars, conn, stream, typed, chunk, last, atHost, back>>

HostSendFails == spc = "send" /\ fd = "openReset" /\ HostEnds

HostSends == HostSendByte \/ HostSendReturns \/ HostSendFails

Host ==
  \/ Accept
  \/ \E sockReady, stdinReady \in BOOLEAN : Select(sockReady, stdinReady)
  \/ RecvCell \/ RecvReturns \/ RecvFails \/ Quit \/ Kill
  \/ \E n \in 0 .. ChunkMax : StdinRead(n)
  \/ HostSends

(* The path is lost for good.                                              *)
LinkLost ==
  /\ conn = "up"
  /\ conn' = "ended"
  /\ Died
  /\ UNCHANGED <<taskVars, stream, hostVars, back>>

(* The host's own segment is answered with a reset, or never.              *)
HostTold ==
  /\ fd = "openSent"
  /\ fd' = "openReset"
  /\ UNCHANGED <<taskVars, conn, stream, hostVars, left, back>>

Next == Task \/ Host \/ LinkLost \/ HostTold
Spec == Init /\ [][Next]_vars

(* The task waits for ever in no call.  A send() of the host goes on when  *)
(* it can and fails when the connection is reset; its kernel gives a       *)
(* segment up that nobody acknowledges.                                    *)
FairSpec == Spec /\ WF_vars(Task) /\ WF_vars(HostSends) /\ WF_vars(HostTold)
-------------------------------------------------------------------------------
(* What the host reads on its connection are lines in order, no line       *)
(* missing and none twice; a line may be cut short, and then it is a       *)
(* prefix that arrives.                                                    *)
LinesInOrder ==
  [][last' # last /\ last # <<>> =>
       \/ last' = <<last[1], last[2] + 1>>
       \/ last' = <<(last[1] + 1) % CounterMod, 1>>]_vars

(* The task never holds two sockets, nor one while it backs off.           *)
OneSocket == open <= 1 /\ (hpc \in {"socket", "backoff"} => open = 0)

(* The task never reads, so a host that sends too much blocks, reads no    *)
(* more, and the task's own stream fills up.  The send timeout ends that:  *)
(* the task drops the connection, and the answer to what the host still    *)
(* has to send ends its send().                                            *)
BlockedHostReleased == (spc = "send") ~> (spc # "send")
===============================================================================
