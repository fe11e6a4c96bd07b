------------------------------ MODULE EchoClient ------------------------------
(***************************************************************************)
(* The echo client task of TCPEchoClient_SingleTasks.c: in each round it   *)
(* opens a socket, connects, sends one message, waits for the reply,       *)
(* compares the two, shuts the connection down and closes the socket.      *)
(* The peer is a TCP echo server outside src/, reached over a network that *)
(* may be late, stall or break; it may also be a terminal (nc -l 7, as the *)
(* networking read-me files suggest) that sends something else: noise.     *)
(*                                                                         *)
(* A message is a sequence of cells <<m, i>>, the i-th byte of message m.  *)
(* Its first HeaderLen cells are the text that sprintf() writes over the   *)
(* filler; the cell behind them is the NUL of that text.                   *)
(***************************************************************************)
EXTENDS Integers, Sequences, SequencesExt

CONSTANTS
  BufferSizes,  (* echoBUFFER_SIZES                                          *)
  Slack,        (* the 20 that prvCreateTxData() takes off the buffer length *)
  MinLength,    (* lMinimumLength                                            *)
  RandomNumbers,(* what xApplicationGetRandomNumber() may yield              *)
  HeaderLen,    (* length of "TxRx message number ..."                       *)
  Debugger,     (* a debugger lets vAssertCalled() return                    *)
  MaxRounds,    (* bound of the model: messages sent in all                  *)
  MaxNoise      (* bound of the model: foreign cells per connection          *)

ASSUME EchoClientAssumption ==
  /\ BufferSizes \in Nat
  /\ Slack \in 0 .. BufferSizes - 1
  /\ HeaderLen \in Nat \ {0}
  /\ MinLength \in Nat /\ HeaderLen < MinLength
  /\ RandomNumbers \subseteq Nat
  /\ Debugger \in BOOLEAN
  /\ MaxRounds \in Nat
  /\ MaxNoise \in Nat

VARIABLES
  tpc,          (* the step of prvEchoClientTask() that comes next           *)
  open,         (* sockets the task has opened and not closed                *)
  lLoopCount,
  ulTxCount,
  lStringLength,
  xReceivedBytes,
  rx,           (* pcReceivedString, up to the zeros memset() left in it     *)
  reg,          (* the register of ulConnections[ xInstance ]++              *)
  ulConnections,
  ulTxRxCycles,
  ulTxRxFailures,
  conn,         (* the connection of the socket                              *)
  toPeer,       (* cells on their way to the peer                            *)
  fromPeer,     (* cells on their way back, or waiting for FreeRTOS_recv()   *)
  noise         (* foreign cells the peer has sent on this connection        *)

locals == <<open, lLoopCount, ulTxCount, lStringLength, xReceivedBytes, rx, reg>>
counters == <<ulConnections, ulTxRxCycles, ulTxRxFailures>>
wire == <<conn, toPeer, fromPeer, noise>>
clientTaskVars == <<tpc, locals, counters, wire>>

Noise == <<-1, 0>>
Message(m, len) == [i \in 1 .. len |-> <<m, i>>]

(* prvCreateTxData() draws until the length is large enough.               *)
TxLengths ==
  {n \in {r % (BufferSizes - Slack) : r \in RandomNumbers} :
     n # 0 /\ n >= MinLength}

lMaxLoopCountTwo == 2
lMaxLoopCount == 1

ClientTaskTypeOK ==
  /\ tpc \in {"socket", "assertSocket", "connect", "countLoad", "countStore",
              "send", "recv", "check", "assertReply", "shutdown", "drain",
              "close", "delay"}
  /\ open \in Nat
  /\ lLoopCount \in 0 .. lMaxLoopCount
  /\ ulTxCount \in 0 .. MaxRounds
  /\ lStringLength \in {0} \cup TxLengths
  /\ xReceivedBytes \in -1 .. BufferSizes
  /\ tpc \in {"recv", "check"} => xReceivedBytes <= lStringLength
  /\ rx \in Seq({Noise} \cup (0 .. MaxRounds) \X Nat)
  /\ Len(rx) <= BufferSizes
  /\ {reg, ulConnections, ulTxRxCycles, ulTxRxFailures} \subseteq Nat
  /\ conn \in {"none", "up", "peerClosed", "shut", "down"}
  /\ {toPeer, fromPeer} \subseteq Seq({Noise} \cup (0 .. MaxRounds) \X Nat)
  /\ noise \in 0 .. MaxNoise

ClientTaskInit ==
  /\ tpc = "socket"
  /\ open = 0 /\ lLoopCount = 0 /\ ulTxCount = 0
  /\ lStringLength = 0 /\ xReceivedBytes = 0
  /\ rx = <<>>
  /\ reg = 0
  /\ ulConnections = 0 /\ ulTxRxCycles = 0 /\ ulTxRxFailures = 0
  /\ conn = "none" /\ toPeer = <<>> /\ fromPeer = <<>> /\ noise = 0
-------------------------------------------------------------------------------
(* The task.  configASSERT() on the socket spins in vAssertCalled().       *)
OpenSocket ==
  /\ tpc = "socket"
  /\ \/ tpc' = "connect" /\ open' = open + 1
     \/ tpc' = "assertSocket" /\ open' = open
  /\ UNCHANGED <<lLoopCount, ulTxCount, lStringLength, xReceivedBytes, rx, reg,
                 counters, wire>>

(* vAssertCalled() spins with the interrupts masked: nothing else runs.    *)
Halted == tpc \in {"assertSocket", "assertReply"}
Spin == Halted /\ UNCHANGED clientTaskVars

AssertSocketReleased ==
  /\ tpc = "assertSocket"
  /\ Debugger
  /\ tpc' = "connect"
  /\ UNCHANGED <<locals, counters, wire>>

Connect ==
  /\ tpc = "connect"
  /\ open > 0
  /\ ulTxCount < MaxRounds
  /\ conn' = "up"
  /\ tpc' = "countLoad"
  /\ UNCHANGED <<locals, counters, toPeer, fromPeer, noise>>

AfterNoConnectionLeak == "delay"
AfterNoConnection == "close"

ConnectFails ==
  /\ tpc = "connect"
  /\ tpc' = AfterNoConnection
  /\ UNCHANGED <<locals, counters, wire>>

(* ulConnections[ xInstance ]++ is a load and a store; another task may    *)
(* run in between.                                                         *)
CountLoad ==
  /\ tpc = "countLoad"
  /\ reg' = ulConnections
  /\ tpc' = "countStore"
  /\ UNCHANGED <<open, lLoopCount, ulTxCount, lStringLength, xReceivedBytes, rx,
                 counters, wire>>

CountStore ==
  /\ tpc = "countStore"
  /\ ulConnections' = reg + 1
  /\ lLoopCount' = 0
  /\ tpc' = "send"
  /\ UNCHANGED <<open, ulTxCount, lStringLength, xReceivedBytes, rx, reg,
                 ulTxRxCycles, ulTxRxFailures, wire>>

(* The socket is fresh and its transmit buffer holds six segments, so the  *)
(* message, shorter than one, is taken whole, also while the stack has not *)
(* noticed that the connection has ended.                                  *)
SendMessage(len) ==
  /\ tpc = "send"
  /\ toPeer' = toPeer \o Message(ulTxCount, len)
  /\ lStringLength' = len
  /\ ulTxCount' = ulTxCount + 1
  /\ rx' = <<>>
  /\ xReceivedBytes' = 0
  /\ tpc' = "recv"
  /\ UNCHANGED <<open, lLoopCount, reg, counters, conn, fromPeer, noise>>

SendError(len) ==
  /\ tpc = "send"
  /\ conn # "up"
  /\ lStringLength' = len
  /\ ulTxCount' = ulTxCount + 1
  /\ tpc' = "shutdown"
  /\ UNCHANGED <<open, lLoopCount, xReceivedBytes, rx, reg, counters, wire>>
-------------------------------------------------------------------------------
(* The reply.  lTransmitted is lStringLength here.                         *)
RecvRoomWhole == BufferSizes
RecvRoom == lStringLength - xReceivedBytes

RecvReply(n) ==
  /\ tpc = "recv"
  /\ n <= Len(fromPeer)
  /\ n <= RecvRoom
  /\ rx' = rx \o SubSeq(fromPeer, 1, n)
  /\ fromPeer' = SubSeq(fromPeer, n + 1, Len(fromPeer))
  /\ xReceivedBytes' = xReceivedBytes + n
  /\ tpc' = IF xReceivedBytes' < lStringLength THEN "recv" ELSE "check"
  /\ UNCHANGED <<open, lLoopCount, ulTxCount, lStringLength, reg, counters,
                 conn, toPeer, noise>>

(* Four seconds without a byte, while the reply may still be on its way.   *)
AfterTimeoutRetry == "recv"
AfterTimeout == "check"

RecvTimedOut ==
  /\ tpc = "recv"
  /\ tpc' = AfterTimeout
  /\ UNCHANGED <<locals, counters, wire>>

RecvError ==
  /\ tpc = "recv"
  /\ \/ conn = "peerClosed" /\ fromPeer = <<>>
     \/ conn = "down"
  /\ xReceivedBytes' = -1
  /\ tpc' = "check"
  /\ UNCHANGED <<open, lLoopCount, ulTxCount, lStringLength, rx, reg, counters,
                 wire>>

(* strncmp() stops at the NUL behind the header: the reply matches when it *)
(* starts with the header and goes on with its NUL, or with nothing, since *)
(* the buffer was cleared.                                                 *)
MatchesPrefix ==
  \A i \in 1 .. HeaderLen + 1 :
    i <= Len(rx) => rx[i] = <<ulTxCount - 1, i>>
Matches ==
  /\ Len(rx) >= HeaderLen
  /\ \A i \in 1 .. HeaderLen + 1 :
       i <= Len(rx) => rx[i] = <<ulTxCount - 1, i>>

EndOfLoop ==
  /\ lLoopCount' = lLoopCount + 1
  /\ tpc' = IF lLoopCount + 1 < lMaxLoopCount THEN "send" ELSE "shutdown"

CheckCounts ==
  /\ tpc = "check"
  /\ xReceivedBytes > 0
  /\ Matches
  /\ ulTxRxCycles' = ulTxRxCycles + 1
  /\ EndOfLoop
  /\ UNCHANGED <<open, ulTxCount, lStringLength, xReceivedBytes, rx, reg,
                 ulConnections, ulTxRxFailures, wire>>

(* configASSERT() has the condition of the if behind it, so the failure    *)
(* branch is reached with a debugger only.                                 *)
CheckAsserts ==
  /\ tpc = "check"
  /\ xReceivedBytes > 0
  /\ ~Matches
  /\ tpc' = "assertReply"
  /\ UNCHANGED <<locals, counters, wire>>

AssertReplyReleased ==
  /\ tpc = "assertReply"
  /\ Debugger
  /\ ulTxRxFailures' = ulTxRxFailures + 1
  /\ tpc' = "shutdown"
  /\ UNCHANGED <<locals, ulConnections, ulTxRxCycles, wire>>

CheckNothing ==
  /\ tpc = "check"
  /\ xReceivedBytes <= 0
  /\ tpc' = "shutdown"
  /\ UNCHANGED <<locals, counters, wire>>
-------------------------------------------------------------------------------
Shutdown ==
  /\ tpc = "shutdown"
  /\ conn' = IF conn = "up" THEN "shut" ELSE conn
  /\ tpc' = "drain"
  /\ UNCHANGED <<locals, counters, toPeer, fromPeer, noise>>

(* Late bytes are read over the reply; the loop ends by its own clock, ... *)
DrainData(n) ==
  /\ tpc = "drain"
  /\ n <= Len(fromPeer)
  /\ n <= BufferSizes
  /\ rx' = SubSeq(fromPeer, 1, n) \o SubSeq(rx, n + 1, Len(rx))
  /\ fromPeer' = SubSeq(fromPeer, n + 1, Len(fromPeer))
  /\ tpc' \in {"drain", "close"}
  /\ UNCHANGED <<open, lLoopCount, ulTxCount, lStringLength, xReceivedBytes, reg,
                 counters, conn, toPeer, noise>>

(* ... by an error, or by a receive call that waits its four seconds.      *)
DrainEnds ==
  /\ tpc = "drain"
  /\ tpc' = "close"
  /\ UNCHANGED <<locals, counters, wire>>

(* The next socket has a connection, and streams, of its own.              *)
CloseTaskSocket ==
  /\ tpc = "close"
  /\ open' = IF open > 0 THEN open - 1 ELSE open
  /\ conn' = "none"
  /\ toPeer' = <<>>
  /\ fromPeer' = <<>>
  /\ noise' = 0
  /\ tpc' = "delay"
  /\ UNCHANGED <<lLoopCount, ulTxCount, lStringLength, xReceivedBytes, rx, reg,
                 counters>>

Delay ==
  /\ tpc = "delay"
  /\ tpc' = "socket"
  /\ UNCHANGED <<locals, counters, wire>>

Task ==
  \/ OpenSocket \/ Spin \/ AssertSocketReleased
  \/ Connect \/ ConnectFails \/ CountLoad \/ CountStore
  \/ \E len \in TxLengths : SendMessage(len) \/ SendError(len)
  \/ \E n \in 1 .. BufferSizes : RecvReply(n) \/ DrainData(n)
  \/ RecvTimedOut \/ RecvError
  \/ CheckCounts \/ CheckAsserts \/ AssertReplyReleased \/ CheckNothing
  \/ Shutdown \/ DrainEnds \/ CloseTaskSocket \/ Delay
-------------------------------------------------------------------------------
(* The peer and the network.                                               *)
PeerEcho(n) ==
  /\ conn \in {"up", "shut"}
  /\ n <= Len(toPeer)
  /\ fromPeer' = fromPeer \o SubSeq(toPeer, 1, n)
  /\ toPeer' = SubSeq(toPeer, n + 1, Len(toPeer))
  /\ UNCHANGED <<tpc, locals, counters, conn, noise>>

PeerNoise ==
  /\ conn = "up"
  /\ noise < MaxNoise
  /\ noise' = noise + 1
  /\ fromPeer' = Append(fromPeer, Noise)
  /\ UNCHANGED <<tpc, locals, counters, conn, toPeer>>

PeerCloses ==
  /\ conn = "up"
  /\ conn' = "peerClosed"
  /\ UNCHANGED <<tpc, locals, counters, toPeer, fromPeer, noise>>

ConnectionLost ==
  /\ conn \in {"up", "peerClosed", "shut"}
  /\ conn' = "down"
  /\ UNCHANGED <<tpc, locals, counters, toPeer, fromPeer, noise>>

Peer ==
  \/ \E n \in 1 .. BufferSizes : PeerEcho(n)
  \/ PeerNoise \/ PeerCloses \/ ConnectionLost

Init == ClientTaskInit
Next == Task \/ Peer
Spec == Init /\ [][Next]_clientTaskVars

(* Every call of the task returns: connect, send and recv have timeouts.   *)
(* Nothing is assumed of the peer or of the network.                       *)
FairSpec == Spec /\ WF_clientTaskVars(Task)
-------------------------------------------------------------------------------
(* Types; xReceivedBytes and the length of rx also say that a receive call *)
(* never gets more room than the message has bytes, nor writes behind the  *)
(* buffer, whatever the peer sends.                                        *)
TypeOK == ClientTaskTypeOK

(* The bytes the task compares are bytes of the message it has just sent,  *)
(* in their places but for the foreign bytes between them: a reply that    *)
(* comes after its timeout is never taken for the reply to a later one.    *)
ReplyIsOwn ==
  tpc \in {"recv", "check", "assertReply"} =>
    \A i \in DOMAIN rx :
      rx[i] \in {Noise} \cup {<<ulTxCount - 1, j>> : j \in i - noise .. i}

(* A connection yields at most one verdict, a counted cycle or a counted   *)
(* failure, and none before its message was sent.                          *)
OneVerdictPerConnection ==
  /\ ulTxRxCycles + ulTxRxFailures <= ulConnections
  /\ tpc \in {"send", "recv", "check", "assertReply"} =>
       ulTxRxCycles + ulTxRxFailures < ulConnections

(* A cycle is counted only when the peer has returned at least the header  *)
(* of the message just sent: what strncmp() does not look at may still be  *)
(* on its way when the receive call times out, the header may not.         *)
CycleMeansEcho ==
  [][ulTxRxCycles' > ulTxRxCycles =>
       Len(toPeer) <= lStringLength - HeaderLen]_clientTaskVars

(* Each round closes what it opened, on every path through it.             *)
OneSocket == open <= 1 /\ (tpc \in {"socket", "delay"} => open = 0)

(* A round that has a socket comes to its end whatever the peer and the    *)
(* network do, unless an assertion stops the program.                      *)
RoundEnds == (tpc = "connect") ~> (tpc \in {"delay", "assertReply"})
-------------------------------------------------------------------------------
(* TCPEchoClient_SingleTasks.c:185-186 "Set a time out so a missing reply  *)
(* does not cause the task to block indefinitely.": with a peer that only  *)
(* echoes, the task never stops.  When the timeout leaves less than the    *)
(* header, configASSERT() stops the whole program.                         *)
MissingReplyDoesNotBlock == MaxNoise = 0 => tpc # "assertReply"
===============================================================================
