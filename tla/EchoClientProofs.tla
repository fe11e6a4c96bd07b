---------------------------- MODULE EchoClientProofs ---------------------------
(***************************************************************************)
(* Proofs about EchoClient and EchoMonitor, for any buffer, any header and *)
(* any number of rounds, and for any peer.                                 *)
(***************************************************************************)
EXTENDS EchoMonitor, TLAPS

Cells == {Noise} \cup (0 .. MaxRounds) \X Nat

LEMMA LengthsFit ==
  /\ TxLengths \subseteq Nat \ {0}
  /\ \A len \in TxLengths : HeaderLen < len /\ len <= BufferSizes
  /\ BufferSizes \in Nat /\ HeaderLen \in Nat \ {0} /\ MaxRounds \in Nat
  /\ MaxNoise \in Nat
<1>1. ASSUME NEW r \in RandomNumbers
      PROVE  r % (BufferSizes - Slack) \in 0 .. BufferSizes
  <2>1. BufferSizes - Slack \in Nat \ {0} /\ BufferSizes - Slack <= BufferSizes
    BY EchoClientAssumption DEF EchoClientAssumption
  <2>2. r \in Nat BY EchoClientAssumption DEF EchoClientAssumption
  <2>3. r % (BufferSizes - Slack) \in 0 .. (BufferSizes - Slack) - 1
    BY <2>1, <2>2
  <2>4. BufferSizes \in Nat BY EchoClientAssumption DEF EchoClientAssumption
  <2>5. QED BY <2>1, <2>3, <2>4
<1>2. QED BY <1>1, EchoClientAssumption DEF EchoClientAssumption, TxLengths

LEMMA CellsTyping ==
  /\ Noise \in Cells
  /\ \A m \in 0 .. MaxRounds, len \in Nat :
       Message(m, len) \in Seq(Cells) /\ Len(Message(m, len)) = len
BY DEF Cells, Message
-------------------------------------------------------------------------------
(* The path of the task through a round: it sends only below the bound,    *)
(* sends once per connection, and has in rx what it counts as received.    *)
Path ==
  /\ tpc \in {"countLoad", "countStore", "send"} => ulTxCount < MaxRounds
  /\ tpc \in {"send", "recv", "check"} => lLoopCount = 0
  /\ tpc = "recv" => xReceivedBytes = Len(rx) /\ lStringLength \in TxLengths
  /\ tpc \in {"check", "assertReply"} => lStringLength \in TxLengths

TypedPath == ClientTaskTypeOK /\ Path

(* The streams of a connection.  Before the message is sent they hold      *)
(* nothing but foreign cells; then the cells still on their way to the     *)
(* peer are the end of the message, and a cell that came back is a foreign *)
(* one or a cell of this message that has left toPeer, moved to the back   *)
(* by the foreign cells before it at most.                                 *)
Own(cell, m, i, k) == cell \in {Noise} \cup {<<m, j>> : j \in i - k .. i}

Gone(cell, k) == cell # Noise => cell[2] <= k

Streams ==
  /\ tpc \in {"socket", "assertSocket", "connect", "delay"} =>
       conn = "none" /\ toPeer = <<>> /\ fromPeer = <<>> /\ noise = 0
  /\ tpc \in {"countLoad", "countStore", "send"} =>
       /\ toPeer = <<>>
       /\ Len(fromPeer) <= noise
       /\ \A i \in 1 .. Len(fromPeer) : fromPeer[i] = Noise
  /\ tpc \in {"recv", "check", "assertReply"} =>
       /\ Len(toPeer) <= lStringLength
       /\ \A i \in 1 .. Len(rx) :
            /\ Own(rx[i], ulTxCount - 1, i, noise)
            /\ Gone(rx[i], lStringLength - Len(toPeer))
       /\ \A i \in 1 .. Len(fromPeer) :
            /\ Own(fromPeer[i], ulTxCount - 1, Len(rx) + i, noise)
            /\ Gone(fromPeer[i], lStringLength - Len(toPeer))
       /\ \A i \in 1 .. Len(toPeer) :
            /\ Own(toPeer[i], ulTxCount - 1, Len(rx) + Len(fromPeer) + i, noise)
            /\ toPeer[i] = <<ulTxCount - 1, lStringLength - Len(toPeer) + i>>

(* The counters: what the register holds is the count of connections, and  *)
(* a connection has no verdict before its message is compared.             *)
Verdicts ==
  /\ ulTxRxCycles + ulTxRxFailures <= ulConnections
  /\ tpc = "countStore" => reg = ulConnections
  /\ tpc \in {"send", "recv", "check", "assertReply"} =>
       ulTxRxCycles + ulTxRxFailures < ulConnections

(* A socket is open only between OpenSocket and CloseTaskSocket.           *)
Holds ==
  /\ open \in {0, 1}
  /\ tpc \in {"socket", "assertSocket", "delay"} => open = 0

-------------------------------------------------------------------------------
(* Type correctness.                                                       *)
LEMMA StreamTyping ==
  ASSUME ClientTaskTypeOK
  PROVE  rx \in Seq(Cells) /\ toPeer \in Seq(Cells) /\ fromPeer \in Seq(Cells)
BY DEF ClientTaskTypeOK, Cells

LEMMA SubSeqTyping ==
  ASSUME NEW S, NEW s \in Seq(S), NEW n \in Nat, n <= Len(s)
  PROVE  /\ SubSeq(s, 1, n) \in Seq(S)
         /\ Len(SubSeq(s, 1, n)) = n
         /\ SubSeq(s, n + 1, Len(s)) \in Seq(S)
         /\ Len(SubSeq(s, n + 1, Len(s))) = Len(s) - n
OBVIOUS

(* A buffer of b bytes stays one when its first n bytes are overwritten.   *)
LEMMA Overwritten ==
  ASSUME NEW S, NEW s \in Seq(S), NEW t \in Seq(S), NEW n \in Nat, NEW b \in Nat,
         n <= Len(s), n <= b, Len(t) <= b
  PROVE  LET u == SubSeq(s, 1, n) \o SubSeq(t, n + 1, Len(t))
         IN  u \in Seq(S) /\ Len(u) <= b
<1>1. SubSeq(s, 1, n) \in Seq(S) /\ Len(SubSeq(s, 1, n)) = n BY SubSeqTyping
<1>2. SubSeq(t, n + 1, Len(t)) \in Seq(S) /\ Len(SubSeq(t, n + 1, Len(t))) <= b - n
  OBVIOUS
<1>3. ASSUME NEW p \in Seq(S), NEW q \in Seq(S), Len(p) = n, Len(q) <= b - n
      PROVE  p \o q \in Seq(S) /\ Len(p \o q) <= b
  BY <1>3
<1>4. QED BY <1>1, <1>2, <1>3

LEMMA TaskTyping ==
  ASSUME TypedPath, Task
  PROVE  TypedPath'
<1> USE LengthsFit DEF TypedPath, ClientTaskTypeOK, Path, locals, counters, wire,
                       lMaxLoopCount
<1>1. CASE OpenSocket BY <1>1 DEF OpenSocket
<1>2. CASE Spin BY <1>2 DEF Spin, clientTaskVars
<1>3. CASE AssertSocketReleased BY <1>3 DEF AssertSocketReleased
<1>4. CASE Connect BY <1>4 DEF Connect
<1>5. CASE ConnectFails BY <1>5 DEF ConnectFails, AfterNoConnection
<1>6. CASE CountLoad BY <1>6 DEF CountLoad
<1>7. CASE CountStore BY <1>7 DEF CountStore
<1>8. ASSUME NEW len \in TxLengths, SendMessage(len) PROVE TypedPath'
  <2>1. Message(ulTxCount, len) \in Seq(Cells) BY CellsTyping
  <2>2. toPeer' \in Seq(Cells) BY <1>8, <2>1 DEF SendMessage, Cells
  <2>3. QED BY <1>8, <2>2 DEF SendMessage, Cells
<1>9. ASSUME NEW len \in TxLengths, SendError(len) PROVE TypedPath'
  BY <1>9 DEF SendError
<1>10. ASSUME NEW n \in 1 .. BufferSizes, RecvReply(n) PROVE TypedPath'
  <2>1. n \in Nat /\ n <= Len(fromPeer) BY <1>10 DEF RecvReply
  <2>2. rx' \in Seq(Cells) /\ fromPeer' \in Seq(Cells) /\ Len(rx') = Len(rx) + n
    BY <1>10, <2>1, SubSeqTyping, StreamTyping DEF RecvReply
  <2>3. n <= lStringLength - xReceivedBytes BY <1>10 DEF RecvReply, RecvRoom
  <2>4. QED BY <1>10, <2>2, <2>3, SMTT(30) DEF RecvReply, Cells
<1>11. ASSUME NEW n \in 1 .. BufferSizes, DrainData(n) PROVE TypedPath'
  <2>1. n \in Nat /\ n <= Len(fromPeer) BY <1>11 DEF DrainData
  <2>2. SubSeq(fromPeer, 1, n) \in Seq(Cells) /\ fromPeer' \in Seq(Cells)
        /\ Len(SubSeq(fromPeer, 1, n)) = n
    BY <1>11, <2>1, SMTT(30), SubSeqTyping, StreamTyping DEF DrainData
  <2>3. n <= BufferSizes /\ Len(rx) <= BufferSizes /\ BufferSizes \in Nat
    BY <1>11 DEF DrainData
  <2>4. rx' \in Seq(Cells) /\ Len(rx') <= BufferSizes
    <3>1. rx' = SubSeq(fromPeer, 1, n) \o SubSeq(rx, n + 1, Len(rx))
      BY <1>11 DEF DrainData
    <3>2. rx \in Seq(Cells) /\ fromPeer \in Seq(Cells) BY StreamTyping
    <3> HIDE LengthsFit DEF TypedPath, ClientTaskTypeOK, Path, locals, counters, wire,
                            lMaxLoopCount
    <3>3. QED BY <2>1, <2>3, <3>1, <3>2, Overwritten
  <2>5. QED BY <1>11, <2>2, <2>4 DEF DrainData, Cells
<1>12. CASE RecvTimedOut BY <1>12 DEF RecvTimedOut, AfterTimeout
<1>13. CASE RecvError BY <1>13 DEF RecvError
<1>14. CASE CheckCounts BY <1>14 DEF CheckCounts, EndOfLoop
<1>15. CASE CheckAsserts BY <1>15 DEF CheckAsserts
<1>16. CASE AssertReplyReleased BY <1>16 DEF AssertReplyReleased
<1>17. CASE CheckNothing BY <1>17 DEF CheckNothing
<1>18. CASE Shutdown BY <1>18 DEF Shutdown
<1>19. CASE DrainEnds BY <1>19 DEF DrainEnds
<1>20. CASE CloseTaskSocket BY <1>20 DEF CloseTaskSocket
<1>21. CASE Delay BY <1>21 DEF Delay
<1>22. QED
  BY <1>1, <1>2, <1>3, <1>4, <1>5, <1>6, <1>7, <1>8, <1>9, <1>10, <1>11, <1>12,
     <1>13, <1>14, <1>15, <1>16, <1>17, <1>18, <1>19, <1>20, <1>21 DEF Task

LEMMA PeerTyping ==
  ASSUME TypedPath, Peer
  PROVE  TypedPath'
<1> USE LengthsFit DEF TypedPath, ClientTaskTypeOK, Path, locals, counters
<1>1. ASSUME NEW n \in 1 .. BufferSizes, PeerEcho(n) PROVE TypedPath'
  <2>1. n \in Nat /\ n <= Len(toPeer) BY <1>1 DEF PeerEcho
  <2>2. toPeer' \in Seq(Cells) /\ fromPeer' \in Seq(Cells)
    BY <1>1, <2>1, SubSeqTyping, StreamTyping DEF PeerEcho
  <2>3. QED BY <1>1, <2>2 DEF PeerEcho, Cells
<1>2. CASE PeerNoise
  <2>1. fromPeer' \in Seq(Cells) BY <1>2 DEF PeerNoise, Cells
  <2>2. QED BY <1>2, <2>1 DEF PeerNoise, Cells
<1>3. CASE PeerCloses BY <1>3 DEF PeerCloses
<1>4. CASE ConnectionLost BY <1>4 DEF ConnectionLost
<1>5. QED BY <1>1, <1>2, <1>3, <1>4 DEF Peer

LEMMA Typing ==
  /\ Init => TypedPath
  /\ TypedPath /\ [Next]_clientTaskVars => TypedPath'
<1>1. Init => TypedPath
  BY LengthsFit DEF Init, ClientTaskInit, TypedPath, ClientTaskTypeOK, Path,
                    lMaxLoopCount
<1>2. TypedPath /\ UNCHANGED clientTaskVars => TypedPath'
  BY DEF TypedPath, ClientTaskTypeOK, Path, clientTaskVars, locals, counters, wire
<1>3. QED BY <1>1, <1>2, TaskTyping, PeerTyping DEF Next

(* The task never receives more than its message had bytes, and never      *)
(* writes behind its buffers, whatever arrives and whenever.               *)
THEOREM TypeCorrect == Spec => []TypeOK
<1>1. TypedPath => TypeOK BY DEF TypedPath, TypeOK
<1>2. QED BY <1>1, Typing, PTL DEF Spec
-------------------------------------------------------------------------------
(* The streams.                                                            *)
LEMMA OwnLater ==
  ASSUME NEW m, NEW i \in Int, NEW k \in Int, NEW cell, Own(cell, m, i, k)
  PROVE  Own(cell, m, i, k + 1) /\ Own(cell, m, i + 1, k + 1)
BY DEF Own

LEMMA Moved ==
  ASSUME NEW S, NEW s \in Seq(S), NEW t \in Seq(S), NEW n \in Nat, n <= Len(t),
         NEW u, NEW v, u = s \o SubSeq(t, 1, n), v = SubSeq(t, n + 1, Len(t))
  PROVE  /\ Len(u) = Len(s) + n /\ Len(v) = Len(t) - n
         /\ \A i \in 1 .. Len(s) : u[i] = s[i]
         /\ \A i \in Len(s) + 1 .. Len(u) :
              i - Len(s) \in 1 .. Len(t) /\ u[i] = t[i - Len(s)]
         /\ \A i \in 1 .. Len(v) : i + n \in 1 .. Len(t) /\ v[i] = t[i + n]
OBVIOUS

LEMMA StreamsStep ==
  ASSUME TypedPath, Streams, Next
  PROVE  Streams'
<1> USE LengthsFit DEF locals, counters, wire
<1>1. CASE OpenSocket BY <1>1 DEF Streams, OpenSocket
<1>2. CASE Spin BY <1>2 DEF Streams, Spin, clientTaskVars
<1>3. CASE AssertSocketReleased BY <1>3 DEF Streams, AssertSocketReleased
<1>4. CASE Connect BY <1>4 DEF Streams, Connect
<1>5. CASE ConnectFails BY <1>5 DEF Streams, ConnectFails, AfterNoConnection
<1>6. CASE CountLoad BY <1>6 DEF Streams, CountLoad
<1>7. CASE CountStore BY <1>7 DEF Streams, CountStore
<1>8. ASSUME NEW len \in TxLengths, SendMessage(len) PROVE Streams'
  <2>1. /\ tpc = "send" /\ tpc' = "recv" /\ rx' = <<>> /\ fromPeer' = fromPeer
        /\ noise' = noise /\ ulTxCount' - 1 = ulTxCount /\ lStringLength' = len
        /\ toPeer = <<>> /\ toPeer' = toPeer \o Message(ulTxCount, len)
    BY <1>8 DEF SendMessage, Streams, TypedPath, ClientTaskTypeOK
  <2>2. len \in Nat /\ noise \in Nat /\ Len(fromPeer) \in Nat /\ Len(rx') = 0
        /\ Len(fromPeer) <= noise
    BY <2>1, StreamTyping DEF TypedPath, ClientTaskTypeOK, Streams
  <2>3. Len(toPeer') = len /\ \A i \in 1 .. len : toPeer'[i] = <<ulTxCount, i>>
    BY <2>1, <2>2 DEF Message
  <2>4. \A i \in 1 .. len :
          Own(<<ulTxCount, i>>, ulTxCount, 0 + Len(fromPeer) + i, noise)
    BY <2>2 DEF Own
  <2>5. \A i \in 1 .. Len(fromPeer) :
          /\ Own(fromPeer[i], ulTxCount, 0 + i, noise)
          /\ Gone(fromPeer[i], len - len)
    BY <2>1 DEF Streams, Own, Gone
  <2>6. \A i \in 1 .. Len(toPeer') :
          /\ Own(toPeer'[i], ulTxCount' - 1, Len(rx') + Len(fromPeer') + i, noise')
          /\ toPeer'[i] = <<ulTxCount' - 1, lStringLength' - Len(toPeer') + i>>
    <3> TAKE i \in 1 .. Len(toPeer')
    <3>1. /\ i \in 1 .. len /\ Len(rx') + Len(fromPeer') + i = 0 + Len(fromPeer) + i
          /\ lStringLength' - Len(toPeer') + i = i
      BY <2>1, <2>2, <2>3
    <3>2. toPeer'[i] = <<ulTxCount, i>> BY <2>3, <3>1
    <3>3. Own(toPeer'[i], ulTxCount, 0 + Len(fromPeer) + i, noise)
      BY <2>4, <3>1, <3>2
    <3>4. QED BY <2>1, <3>1, <3>2, <3>3
  <2>7. \A i \in 1 .. Len(fromPeer') :
          /\ Own(fromPeer'[i], ulTxCount' - 1, Len(rx') + i, noise')
          /\ Gone(fromPeer'[i], lStringLength' - Len(toPeer'))
    BY <2>1, <2>2, <2>3, <2>5
  <2>8. Len(toPeer') <= lStringLength' BY <2>1, <2>2, <2>3
  <2>9. \A i \in 1 .. Len(rx') : FALSE BY <2>2
  <2>10. QED BY <2>1, <2>6, <2>7, <2>8, <2>9 DEF Streams
<1>9. ASSUME NEW len \in TxLengths, SendError(len) PROVE Streams'
  BY <1>9 DEF Streams, SendError
<1>10. ASSUME NEW n \in 1 .. BufferSizes, RecvReply(n) PROVE Streams'
  <2>1. /\ tpc = "recv" /\ tpc' \in {"recv", "check"} /\ n <= Len(fromPeer)
        /\ rx' = rx \o SubSeq(fromPeer, 1, n)
        /\ fromPeer' = SubSeq(fromPeer, n + 1, Len(fromPeer))
        /\ UNCHANGED <<ulTxCount, lStringLength, noise, toPeer>>
    BY <1>10 DEF RecvReply
  <2>2. /\ Len(rx') = Len(rx) + n /\ Len(fromPeer') = Len(fromPeer) - n
        /\ \A i \in 1 .. Len(rx) : rx'[i] = rx[i]
        /\ \A i \in Len(rx) + 1 .. Len(rx') :
             /\ i - Len(rx) \in 1 .. Len(fromPeer)
             /\ rx'[i] = fromPeer[i - Len(rx)]
        /\ \A i \in 1 .. Len(fromPeer') :
             i + n \in 1 .. Len(fromPeer) /\ fromPeer'[i] = fromPeer[i + n]
    BY <2>1, Moved, StreamTyping DEF TypedPath
  <2>3. Len(rx) \in Nat /\ Len(fromPeer) \in Nat /\ Len(toPeer) \in Nat
    BY StreamTyping DEF TypedPath
  <2>4. \A i \in 1 .. Len(rx') :
          /\ Own(rx'[i], ulTxCount - 1, i, noise)
          /\ Gone(rx'[i], lStringLength - Len(toPeer))
    <3>1. ASSUME NEW i \in 1 .. Len(rx'), i > Len(rx)
          PROVE  Own(rx'[i], ulTxCount - 1, Len(rx) + (i - Len(rx)), noise)
                 /\ Gone(rx'[i], lStringLength - Len(toPeer))
      <4>1. i \in Len(rx) + 1 .. Len(rx') BY <2>2, <2>3, <3>1
      <4>2. QED BY <2>1, <2>2, <4>1 DEF Streams
    <3>2. ASSUME NEW i \in 1 .. Len(rx'), i <= Len(rx)
          PROVE  Own(rx'[i], ulTxCount - 1, i, noise)
                 /\ Gone(rx'[i], lStringLength - Len(toPeer))
      <4>1. i \in 1 .. Len(rx) BY <3>2
      <4>2. QED BY <2>1, <2>2, <4>1 DEF Streams
    <3>3. \A i \in 1 .. Len(rx') : i > Len(rx) => Len(rx) + (i - Len(rx)) = i
      BY <2>2, <2>3
    <3>4. QED BY <2>2, <2>3, <3>1, <3>2, <3>3
  <2>5. \A i \in 1 .. Len(fromPeer') :
          /\ Own(fromPeer'[i], ulTxCount - 1, Len(rx') + i, noise)
          /\ Gone(fromPeer'[i], lStringLength - Len(toPeer))
    <3>1. \A i \in 1 .. Len(fromPeer') : Len(rx) + (i + n) = Len(rx') + i
      BY <2>2, <2>3
    <3>2. QED BY <2>1, <2>2, <3>1 DEF Streams
  <2>6. Len(rx') + Len(fromPeer') = Len(rx) + Len(fromPeer) BY <2>2, <2>3
  <2>7. QED BY <2>1, <2>4, <2>5, <2>6 DEF Streams
<1>11. ASSUME NEW n \in 1 .. BufferSizes, DrainData(n) PROVE Streams'
  BY <1>11 DEF Streams, DrainData
<1>12. CASE RecvTimedOut BY <1>12 DEF Streams, RecvTimedOut, AfterTimeout
<1>13. CASE RecvError BY <1>13 DEF Streams, RecvError
<1>14. CASE CheckCounts
  BY <1>14 DEF Streams, CheckCounts, EndOfLoop, TypedPath, Path, lMaxLoopCount
<1>15. CASE CheckAsserts BY <1>15 DEF Streams, CheckAsserts
<1>16. CASE AssertReplyReleased BY <1>16 DEF Streams, AssertReplyReleased
<1>17. CASE CheckNothing BY <1>17 DEF Streams, CheckNothing
<1>18. CASE Shutdown BY <1>18 DEF Streams, Shutdown
<1>19. CASE DrainEnds BY <1>19 DEF Streams, DrainEnds
<1>20. CASE CloseTaskSocket BY <1>20 DEF Streams, CloseTaskSocket
<1>21. CASE Delay BY <1>21 DEF Streams, Delay
<1>22. ASSUME NEW n \in 1 .. BufferSizes, PeerEcho(n) PROVE Streams'
  <2>1. /\ n <= Len(toPeer) /\ fromPeer' = fromPeer \o SubSeq(toPeer, 1, n)
        /\ toPeer' = SubSeq(toPeer, n + 1, Len(toPeer)) /\ tpc' = tpc
        /\ UNCHANGED <<rx, ulTxCount, lStringLength, noise>>
    BY <1>22 DEF PeerEcho
  <2>2. /\ Len(fromPeer') = Len(fromPeer) + n /\ Len(toPeer') = Len(toPeer) - n
        /\ \A i \in 1 .. Len(fromPeer) : fromPeer'[i] = fromPeer[i]
        /\ \A i \in Len(fromPeer) + 1 .. Len(fromPeer') :
             /\ i - Len(fromPeer) \in 1 .. Len(toPeer)
             /\ fromPeer'[i] = toPeer[i - Len(fromPeer)]
        /\ \A i \in 1 .. Len(toPeer') :
             i + n \in 1 .. Len(toPeer) /\ toPeer'[i] = toPeer[i + n]
    BY <2>1, Moved, StreamTyping DEF TypedPath
  <2>3. /\ Len(rx) \in Nat /\ Len(fromPeer) \in Nat /\ Len(toPeer) \in Nat
        /\ lStringLength \in Nat
    BY StreamTyping DEF TypedPath, ClientTaskTypeOK
  <2>4. toPeer # <<>> BY <2>1, <2>3
  <2>5. tpc \in {"recv", "check", "assertReply"} \/
        tpc \in {"shutdown", "drain", "close"}
    BY <2>4 DEF Streams, TypedPath, ClientTaskTypeOK
  <2>6. ASSUME tpc \in {"recv", "check", "assertReply"},
               NEW i \in Len(fromPeer) + 1 .. Len(fromPeer')
        PROVE  /\ Own(fromPeer'[i], ulTxCount - 1, Len(rx) + i, noise)
               /\ Gone(fromPeer'[i], lStringLength - Len(toPeer'))
    <3>1. PICK j \in 1 .. Len(toPeer) :
            j = i - Len(fromPeer) /\ fromPeer'[i] = toPeer[j]
      BY <2>2
    <3>2. Own(toPeer[j], ulTxCount - 1, Len(rx) + Len(fromPeer) + j, noise)
          /\ toPeer[j] = <<ulTxCount - 1, lStringLength - Len(toPeer) + j>>
      BY <2>6 DEF Streams
    <3>3. Len(rx) + Len(fromPeer) + j = Len(rx) + i /\ j <= n
      BY <3>1, <2>2, <2>3
    <3>4. lStringLength - Len(toPeer) + j <= lStringLength - Len(toPeer')
      BY <3>3, <2>2, <2>3
    <3>5. QED BY <3>1, <3>2, <3>3, <3>4 DEF Gone
  <2>7. ASSUME tpc \in {"recv", "check", "assertReply"}, NEW cell \in Cells,
               Gone(cell, lStringLength - Len(toPeer))
        PROVE  Gone(cell, lStringLength - Len(toPeer'))
    BY <2>2, <2>3, <2>7 DEF Gone, Cells
  <2>8. ASSUME tpc \in {"recv", "check", "assertReply"}, NEW i \in 1 .. Len(toPeer')
        PROVE  /\ Own(toPeer'[i], ulTxCount - 1,
                       Len(rx) + Len(fromPeer') + i, noise)
               /\ toPeer'[i] = <<ulTxCount - 1, lStringLength - Len(toPeer') + i>>
    <3>1. i + n \in 1 .. Len(toPeer) /\ toPeer'[i] = toPeer[i + n] BY <2>2
    <3>2. Len(rx) + Len(fromPeer) + (i + n) = Len(rx) + Len(fromPeer') + i
          /\ lStringLength - Len(toPeer) + (i + n) =
               lStringLength - Len(toPeer') + i
      BY <2>2, <2>3
    <3>3. QED BY <2>8, <3>1, <3>2 DEF Streams
  <2>9. CASE tpc \in {"recv", "check", "assertReply"}
    <3>1. \A i \in 1 .. Len(rx) : Gone(rx[i], lStringLength - Len(toPeer'))
      BY <2>7, <2>9, StreamTyping DEF Streams, TypedPath
    <3>2. \A i \in 1 .. Len(fromPeer) :
            Gone(fromPeer[i], lStringLength - Len(toPeer'))
      BY <2>7, <2>9, StreamTyping DEF Streams, TypedPath
    <3>3. \A i \in 1 .. Len(fromPeer') :
            /\ Own(fromPeer'[i], ulTxCount - 1, Len(rx) + i, noise)
            /\ Gone(fromPeer'[i], lStringLength - Len(toPeer'))
      <4>1. ASSUME NEW i \in 1 .. Len(fromPeer)
            PROVE  /\ Own(fromPeer'[i], ulTxCount - 1, Len(rx) + i, noise)
                   /\ Gone(fromPeer'[i], lStringLength - Len(toPeer'))
        BY <2>2, <2>9, <3>2 DEF Streams
      <4>2. \A i \in 1 .. Len(fromPeer') : \/ i \in 1 .. Len(fromPeer)
                                          \/ i \in Len(fromPeer) + 1 .. Len(fromPeer')
        BY <2>2, <2>3
      <4>3. QED BY <2>6, <2>9, <4>1, <4>2
    <3>4. Len(toPeer') <= lStringLength BY <2>2, <2>3, <2>9 DEF Streams
    <3>5. \A i \in 1 .. Len(rx) : Own(rx[i], ulTxCount - 1, i, noise)
      BY <2>9 DEF Streams
    <3>6. QED BY <2>1, <2>8, <2>9, <3>1, <3>3, <3>4, <3>5 DEF Streams
  <2>10. QED BY <2>1, <2>5, <2>9 DEF Streams
<1>23. CASE PeerNoise
  <2>1. /\ conn = "up" /\ noise' = noise + 1 /\ fromPeer' = Append(fromPeer, Noise)
        /\ UNCHANGED <<tpc, rx, ulTxCount, lStringLength, conn, toPeer>>
    BY <1>23 DEF PeerNoise
  <2>2. /\ Len(fromPeer') = Len(fromPeer) + 1
        /\ \A i \in 1 .. Len(fromPeer) : fromPeer'[i] = fromPeer[i]
        /\ fromPeer'[Len(fromPeer')] = Noise
    BY <2>1, StreamTyping DEF TypedPath
  <2>3. /\ Len(rx) \in Nat /\ Len(fromPeer) \in Nat /\ Len(toPeer) \in Nat
        /\ noise \in Nat
    BY StreamTyping DEF TypedPath, ClientTaskTypeOK
  <2>4. CASE tpc \in {"recv", "check", "assertReply"}
    <3>1. \A i \in 1 .. Len(rx) : Own(rx[i], ulTxCount - 1, i, noise + 1)
      BY <2>3, <2>4, OwnLater DEF Streams
    <3>2. \A i \in 1 .. Len(fromPeer) :
            Own(fromPeer[i], ulTxCount - 1, Len(rx) + i, noise + 1)
      BY <2>3, <2>4, OwnLater DEF Streams
    <3>3. \A i \in 1 .. Len(fromPeer') :
            /\ Own(fromPeer'[i], ulTxCount - 1, Len(rx) + i, noise + 1)
            /\ Gone(fromPeer'[i], lStringLength - Len(toPeer))
      <4>1. Own(Noise, ulTxCount - 1, Len(rx) + Len(fromPeer'), noise + 1)
            /\ Gone(Noise, lStringLength - Len(toPeer))
        BY DEF Own, Gone
      <4>2. \A i \in 1 .. Len(fromPeer') :
              i = Len(fromPeer') \/ i \in 1 .. Len(fromPeer)
        BY <2>2, <2>3
      <4>3. QED BY <2>2, <2>4, <3>2, <4>1, <4>2 DEF Streams
    <3>4. \A i \in 1 .. Len(toPeer) :
            Own(toPeer[i], ulTxCount - 1, Len(rx) + Len(fromPeer') + i, noise + 1)
      <4>1. \A i \in 1 .. Len(toPeer) :
              /\ Len(rx) + Len(fromPeer) + i \in Int
              /\ Len(rx) + Len(fromPeer') + i = (Len(rx) + Len(fromPeer) + i) + 1
        BY <2>2, <2>3
      <4>2. QED BY <2>3, <2>4, <4>1, OwnLater DEF Streams
    <3>5. QED BY <2>1, <2>4, <3>1, <3>3, <3>4 DEF Streams
  <2>5. CASE tpc \in {"countLoad", "countStore", "send"}
    <3>1. \A i \in 1 .. Len(fromPeer') :
            i = Len(fromPeer') \/ i \in 1 .. Len(fromPeer)
      BY <2>2, <2>3
    <3>2. QED BY <2>1, <2>2, <2>3, <2>5, <3>1 DEF Streams
  <2>6. QED BY <2>1, <2>4, <2>5 DEF Streams
<1>24. CASE PeerCloses BY <1>24 DEF Streams, PeerCloses
<1>25. CASE ConnectionLost BY <1>25 DEF Streams, ConnectionLost
<1>26. QED
  BY <1>1, <1>2, <1>3, <1>4, <1>5, <1>6, <1>7, <1>8, <1>9, <1>10, <1>11, <1>12,
     <1>13, <1>14, <1>15, <1>16, <1>17, <1>18, <1>19, <1>20, <1>21, <1>22,
     <1>23, <1>24, <1>25 DEF Next, Task, Peer
-------------------------------------------------------------------------------
(* The counters and the socket.                                            *)
TaskVerdictsUnchanged ==
  \/ Spin \/ AssertSocketReleased \/ CheckAsserts \/ CheckNothing \/ Shutdown
  \/ OpenSocket \/ ConnectFails \/ RecvTimedOut \/ RecvError \/ DrainEnds
  \/ CloseTaskSocket \/ Delay \/ Connect
  \/ \E n \in 1 .. BufferSizes : RecvReply(n) \/ DrainData(n)
  \/ \E len \in TxLengths : SendMessage(len) \/ SendError(len)

LEMMA CountersStep ==
  ASSUME TypedPath, Verdicts, Holds, Next
  PROVE  Verdicts' /\ Holds'
<1> USE DEF Verdicts, Holds, locals, counters, wire
<1>1. CASE TaskVerdictsUnchanged
  <2>1. UNCHANGED counters
    BY <1>1 DEF TaskVerdictsUnchanged, Spin, clientTaskVars, AssertSocketReleased,
                CheckAsserts, CheckNothing, Shutdown, OpenSocket, ConnectFails,
                RecvTimedOut, RecvError, DrainEnds, CloseTaskSocket, Delay,
                Connect, RecvReply, DrainData, SendMessage, SendError
  <2>2. /\ tpc' # "countStore"
        /\ tpc' \in {"send", "recv", "check", "assertReply"} =>
             tpc \in {"send", "recv", "check", "assertReply"}
        \/ UNCHANGED <<tpc, reg>>
    BY <1>1 DEF TaskVerdictsUnchanged, Spin, clientTaskVars, AssertSocketReleased,
                CheckAsserts, CheckNothing, Shutdown, OpenSocket, ConnectFails,
                RecvTimedOut, RecvError, DrainEnds, CloseTaskSocket, Delay,
                Connect, RecvReply, DrainData, SendMessage, SendError,
                AfterNoConnection, AfterTimeout
  <2>3. Verdicts' BY <2>1, <2>2
  <2>4. Holds'
    BY <1>1, SMTT(30)
       DEF TaskVerdictsUnchanged, Spin, clientTaskVars, AssertSocketReleased,
           CheckAsserts, CheckNothing, Shutdown, OpenSocket, ConnectFails,
           RecvTimedOut, RecvError, DrainEnds, CloseTaskSocket, Delay,
           Connect, RecvReply, DrainData, SendMessage, SendError,
           AfterNoConnection, AfterTimeout
  <2>5. QED BY <2>3, <2>4
<1>2. CASE CountLoad BY <1>2 DEF CountLoad
<1>3. CASE CountStore BY <1>3, SMTT(30) DEF CountStore, TypedPath, ClientTaskTypeOK
<1>4. CASE CheckCounts
  BY <1>4, SMTT(30)
     DEF CheckCounts, EndOfLoop, TypedPath, ClientTaskTypeOK, Path, lMaxLoopCount
<1>5. CASE AssertReplyReleased
  BY <1>5, SMTT(30) DEF AssertReplyReleased, TypedPath, ClientTaskTypeOK
<1>6. CASE Peer
  BY <1>6 DEF Peer, PeerEcho, PeerNoise, PeerCloses, ConnectionLost
<1>7. QED
  BY <1>1, <1>2, <1>3, <1>4, <1>5, <1>6 DEF Next, Task, TaskVerdictsUnchanged
-------------------------------------------------------------------------------
Inv == TypedPath /\ Streams /\ Verdicts /\ Holds

LEMMA Invariance == Spec => []Inv
<1>1. Init => Inv
  BY Typing DEF Init, ClientTaskInit, Inv, Streams, Verdicts, Holds
<1>2. Inv /\ [Next]_clientTaskVars => Inv'
  <2>1. Inv /\ UNCHANGED clientTaskVars => Inv'
    BY Typing DEF clientTaskVars, locals, counters, wire, Inv, Streams, Verdicts,
                  Holds
  <2>2. QED BY <2>1, Typing, StreamsStep, CountersStep DEF Inv
<1>3. QED BY <1>1, <1>2, PTL DEF Spec

(* What the task compares is the reply to the message it has just sent:    *)
(* whatever the peer sends and however late it comes, no byte of an        *)
(* earlier round is ever taken for it.                                     *)
THEOREM RepliesAreOwn == Spec => []ReplyIsOwn
<1>1. Inv => ReplyIsOwn
  <2>1. SUFFICES ASSUME Inv, tpc \in {"recv", "check", "assertReply"},
                        NEW i \in DOMAIN rx
                 PROVE  Own(rx[i], ulTxCount - 1, i, noise)
    BY DEF ReplyIsOwn, Own
  <2>2. i \in 1 .. Len(rx) BY <2>1, StreamTyping DEF Inv, TypedPath
  <2>3. QED BY <2>1, <2>2 DEF Inv, Streams
<1>2. QED BY <1>1, Invariance, PTL

(* A connection yields one verdict at most.                                *)
THEOREM VerdictsAreSingle == Spec => []OneVerdictPerConnection
<1>1. Inv => OneVerdictPerConnection
  BY DEF Inv, Verdicts, OneVerdictPerConnection
<1>2. QED BY <1>1, Invariance, PTL

(* No path through a round leaks its socket.                               *)
THEOREM SocketsAreClosed == Spec => []OneSocket
<1>1. Inv => OneSocket BY DEF Inv, Holds, OneSocket
<1>2. QED BY <1>1, Invariance, PTL

(* A cycle is counted only when the peer has returned the header.          *)
THEOREM CyclesAreEchoes == Spec => CycleMeansEcho
<1>1. Inv /\ [Next]_clientTaskVars =>
        (ulTxRxCycles' > ulTxRxCycles => Len(toPeer) <= lStringLength - HeaderLen)
  <2> SUFFICES ASSUME Inv, [Next]_clientTaskVars, ulTxRxCycles' > ulTxRxCycles
               PROVE  Len(toPeer) <= lStringLength - HeaderLen
    OBVIOUS
  <2>1. ulTxRxCycles \in Int BY DEF Inv, TypedPath, ClientTaskTypeOK
  <2>2. CheckCounts
    BY <2>1 DEF Next, Task, Peer, clientTaskVars, counters, Spin, clientTaskVars,
                AssertSocketReleased, CheckAsserts, CheckNothing, Shutdown,
                OpenSocket, ConnectFails, RecvTimedOut, RecvError, DrainEnds,
                CloseTaskSocket, Delay, Connect, RecvReply, DrainData,
                SendMessage, SendError, CountLoad, CountStore,
                AssertReplyReleased, PeerEcho, PeerNoise, PeerCloses,
                ConnectionLost
  <2>3. /\ tpc = "check" /\ HeaderLen <= Len(rx)
        /\ HeaderLen \in 1 .. HeaderLen + 1
        /\ HeaderLen <= Len(rx) => rx[HeaderLen] = <<ulTxCount - 1, HeaderLen>>
    BY <2>2, LengthsFit DEF CheckCounts, Matches
  <2>4. HeaderLen \in 1 .. Len(rx)
    BY <2>3, StreamTyping, LengthsFit DEF Inv, TypedPath
  <2>5. rx[HeaderLen] # Noise
    BY <2>3 DEF Noise, Inv, TypedPath, ClientTaskTypeOK, Path
  <2>6. HeaderLen <= lStringLength - Len(toPeer)
    BY <2>3, <2>4, <2>5 DEF Inv, Streams, Gone
  <2>7. QED
    BY <2>6, LengthsFit, StreamTyping DEF Inv, TypedPath, ClientTaskTypeOK
<1>2. QED BY <1>1, Invariance, PTL DEF Spec, CycleMeansEcho
-------------------------------------------------------------------------------
(* The task that calls xAreSingleTaskTCPEchoClientsStillRunning().         *)
LEMMA MonitorTyping ==
  /\ MonitorInit => MonitorTypeOK /\ Path
  /\ MonitorTypeOK /\ Path /\ [MonitoredNext]_allVars => MonitorTypeOK' /\ Path'
<1>1. MonitorInit => MonitorTypeOK /\ Path
  BY Typing DEF MonitorInit, MonitorTypeOK, TypedPath, Init
<1>2. ASSUME MonitorTypeOK, Path, [MonitoredNext]_allVars
      PROVE  MonitorTypeOK' /\ Path'
  <2> USE <1>2
  <2>1. CASE [Next]_clientTaskVars /\ UNCHANGED monitorVars
    BY <2>1, Typing DEF MonitorTypeOK, TypedPath, monitorVars
  <2>2. CASE Call \/ CompareCycles \/ CompareConnections
    <3>1. UNCHANGED clientTaskVars
      BY <2>2 DEF Call, CompareCycles, CompareConnections
    <3>2. ClientTaskTypeOK' /\ Path'
      BY <3>1, Typing DEF TypedPath, MonitorTypeOK
    <3>3. QED
      BY <2>2, <3>2 DEF Call, CompareCycles, CompareConnections, LastCount,
                        MonitorTypeOK, ClientTaskTypeOK
  <2>3. CASE StoreConnections
    BY <2>3 DEF StoreConnections, ulLastConnections, MonitorTypeOK,
                ClientTaskTypeOK, Path, locals, wire
  <2>4. QED
    BY <2>1, <2>2, <2>3 DEF MonitoredNext, Monitor, allVars
<1>3. QED BY <1>1, <1>2

(* Also with the monitor the task stays within its buffers, and the        *)
(* counters the two share keep their types.                                *)
THEOREM MonitorTypeCorrect == MonitoredSpec => []MonitorTypeOK
BY MonitorTyping, PTL DEF MonitoredSpec

(* The count the monitor compares with is the one its last call has seen,  *)
(* and the task never takes a cycle back.                                  *)
Seen ==
  /\ cycles <= ulTxRxCycles /\ calledAt <= cycles
  /\ ulLastEchoSocketCount = IF mpc = "compare" THEN calledAt ELSE cycles
  /\ mpc # "compare" /\ xReturn = "pdPASS" => cycles > calledAt

LEMMA CyclesGrow ==
  ASSUME ClientTaskTypeOK, [Next]_clientTaskVars
  PROVE  ulTxRxCycles' \in Nat /\ ulTxRxCycles <= ulTxRxCycles'
<1> ulTxRxCycles \in Nat BY DEF ClientTaskTypeOK
<1>1. CASE TaskVerdictsUnchanged \/ UNCHANGED clientTaskVars
  BY <1>1 DEF counters, TaskVerdictsUnchanged, Spin, clientTaskVars,
              AssertSocketReleased, CheckAsserts, CheckNothing, Shutdown,
              OpenSocket, ConnectFails, RecvTimedOut, RecvError, DrainEnds,
              CloseTaskSocket, Delay, Connect, RecvReply, DrainData, SendMessage,
              SendError
<1>2. CASE CountLoad \/ CountStore \/ CheckCounts \/ AssertReplyReleased
  BY <1>2 DEF counters, CountLoad, CountStore, CheckCounts, AssertReplyReleased
<1>3. CASE Peer
  BY <1>3 DEF counters, Peer, PeerEcho, PeerNoise, PeerCloses, ConnectionLost
<1>4. QED BY <1>1, <1>2, <1>3 DEF Next, Task, TaskVerdictsUnchanged

(* pdPASS means that a reply was counted since the call before, however    *)
(* the two tasks interleave.                                               *)
THEOREM PassIsProgress == MonitoredSpec => []PassMeansProgress
<1>1. MonitorInit => Seen BY DEF MonitorInit, ClientTaskInit, Seen
<1>2. ASSUME MonitorTypeOK, Seen, [MonitoredNext]_allVars PROVE Seen'
  <2> USE <1>2 DEF Seen, MonitorTypeOK, ClientTaskTypeOK
  <2>1. CASE [Next]_clientTaskVars /\ UNCHANGED monitorVars
    <3>1. ulTxRxCycles' \in Nat /\ ulTxRxCycles <= ulTxRxCycles'
      BY <2>1, CyclesGrow
    <3>2. QED BY <2>1, <3>1 DEF monitorVars
  <2>2. CASE Call BY <2>2 DEF Call, clientTaskVars, counters
  <2>3. CASE CompareCycles
    BY <2>3 DEF CompareCycles, LastCount, clientTaskVars, counters
  <2>4. CASE CompareConnections
    BY <2>4 DEF CompareConnections, clientTaskVars, counters
  <2>5. CASE StoreConnections BY <2>5 DEF StoreConnections
  <2>6. QED
    BY <2>1, <2>2, <2>3, <2>4, <2>5 DEF MonitoredNext, Monitor, allVars
<1>3. Seen => PassMeansProgress BY DEF Seen, PassMeansProgress
<1>4. QED BY <1>1, <1>2, <1>3, MonitorTypeCorrect, PTL DEF MonitoredSpec
===============================================================================
