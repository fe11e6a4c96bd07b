---------------------------- MODULE HeartbeatProofs ----------------------------
(***************************************************************************)
(* Proofs about the heartbeat task with either of its host programs, for   *)
(* any length of line, any range of the counter and any buffers.           *)
(***************************************************************************)
EXTENDS LinuxEchoServer, TLAPS

(* What every step is: one of the task, of a host program or of the path.  *)
HostStep ==
  \/ Accept \/ LinuxAccept
  \/ \E sockReady, stdinReady \in BOOLEAN : Select(sockReady, stdinReady)
  \/ RecvCell \/ LinuxRecvCell \/ RecvReturns \/ LinuxRecvReturns
  \/ \E n \in 0 .. ChunkMax : StdinRead(n)
  \/ HostSendByte \/ HostSendReturns \/ LinuxSendReturns \/ HostEnds \/ HostTold

LEMMA Steps == HostsNext => Task \/ HostStep \/ LinkLost
BY DEF HostsNext, LinuxRuns, LinuxWaits, Host, HostSends, HostSendFails, RecvFails,
       Quit, Kill, LinuxRecvFails, HostStep

LEMMA Bounds ==
  /\ LineLen \in Nat \ {0} /\ CounterMod \in Nat \ {0} /\ StreamCap \in Nat \ {0}
  /\ BackCap \in Nat \ {0} /\ ChunkMax \in Nat \ {0}
BY HeartbeatAssumption DEF HeartbeatAssumption
-------------------------------------------------------------------------------
(* A socket is open exactly between OpenSocket and Close.                  *)
Holds == open = IF hpc \in {"socket", "backoff"} THEN 0 ELSE 1

Typed == TypeOK /\ Holds

LEMMA Wrapped == ASSUME NEW n \in Int PROVE n % CounterMod \in 0 .. CounterMod - 1
BY Bounds

LEMMA CellsOfStream ==
  ASSUME TypeOK
  PROVE  /\ stream \in Seq(Cell)
         /\ \A i \in 1 .. Len(stream) :
              stream[i] \in Cell /\ stream[i] = <<stream[i][1], stream[i][2]>>
         /\ stream # <<>> => Head(stream) = stream[1] /\ Head(stream) \in Cell
                             /\ Tail(stream) \in Seq(Cell)
                             /\ Len(Tail(stream)) = Len(stream) - 1
         /\ left \in Seq(Cell)
         /\ left # <<>> => Head(left) = left[1] /\ Head(left) \in Cell
                           /\ Tail(left) \in Seq(Cell)
                           /\ Len(Tail(left)) = Len(left) - 1
<1>1. stream \in Seq(Cell) BY DEF TypeOK
<1>2. \A i \in 1 .. Len(stream) : stream[i] \in Cell BY <1>1
<1>3. \A c \in Cell : c = <<c[1], c[2]>> BY DEF Cell
<1>4. stream # <<>> => Head(stream) = stream[1] /\ Head(stream) \in Cell
                        /\ Tail(stream) \in Seq(Cell)
                        /\ Len(Tail(stream)) = Len(stream) - 1
  BY <1>1
<1>5. left \in Seq(Cell) BY DEF TypeOK
<1>6. left # <<>> => Head(left) = left[1] /\ Head(left) \in Cell
                      /\ Tail(left) \in Seq(Cell)
                      /\ Len(Tail(left)) = Len(left) - 1
  BY <1>5
<1>7. QED BY <1>1, <1>2, <1>3, <1>4, <1>5, <1>6

(* What a dying connection leaves at the host is how its stream begins.    *)
LEMMA Leaves ==
  ASSUME TypeOK, Died
  PROVE  \/ UNCHANGED <<fd, left>>
         \/ /\ fd \in {"queue", "open"} /\ fd' \in {"queueDead", "openDead", "openSent"}
            /\ fd' = "queueDead" => fd = "queue"
            /\ left' \in Seq(Cell) /\ Len(left') <= Len(stream)
            /\ \A i \in 1 .. Len(left') : left'[i] = stream[i]
<1>1. CASE fd \notin {"queue", "open"} BY <1>1 DEF Died, atHost
<1>2. CASE fd \in {"queue", "open"}
  <2>1. PICK n \in 0 .. Len(stream) : left' = SubSeq(stream, 1, n) BY <1>2 DEF Died
  <2>2. /\ SubSeq(stream, 1, n) \in Seq(Cell) /\ Len(SubSeq(stream, 1, n)) = n
        /\ \A i \in 1 .. n : SubSeq(stream, 1, n)[i] = stream[i]
    BY <2>1, CellsOfStream
  <2>3. fd' \in {"queueDead", "openDead", "openSent"} /\ (fd' = "queueDead" => fd = "queue")
    BY <1>2 DEF Died
  <2>4. QED BY <1>2, <2>1, <2>2, <2>3, CellsOfStream
<1>3. QED BY <1>1, <1>2

LEMMA TaskTyping ==
  ASSUME Typed, Task
  PROVE  Typed'
<1> USE Bounds DEF Typed, TypeOK, Holds, hostVars, atHost
<1>1. CASE OpenSocket BY <1>1 DEF OpenSocket
<1>2. CASE Connect BY <1>2 DEF Connect
<1>3. CASE ConnectFails BY <1>3 DEF ConnectFails
<1>4. CASE Format
  <2>1. ulCounter + 1 \in Int OBVIOUS
  <2>2. CounterPlusOne \in 0 .. CounterMod - 1 BY <2>1, Wrapped DEF CounterPlusOne
  <2>3. QED BY <1>4, <2>2 DEF Format, NextLine
<1>5. CASE SendCell
  <2>1. <<line, queued + 1>> \in Cell BY <1>5 DEF SendCell, Cell
  <2>2. stream' \in Seq(Cell) /\ Len(stream') = Len(stream) + 1
    BY <1>5, <2>1 DEF SendCell
  <2>3. QED BY <1>5, <2>2 DEF SendCell
<1>6. CASE SendReturns BY <1>6 DEF SendReturns, AfterFailedSend
<1>7. CASE Delay BY <1>7 DEF Delay
<1>8. CASE Close
  <2>1. \/ fd' = fd /\ left' = left
        \/ /\ fd' \in {"queueDead", "openDead", "openSent"}
           /\ left' \in Seq(Cell) /\ Len(left') <= Len(stream)
    BY <1>8, Leaves DEF Close
  <2>2. QED BY <1>8, <2>1, CellsOfStream DEF Close, OpenAfterClose
<1>9. QED BY <1>1, <1>2, <1>3, <1>4, <1>5, <1>6, <1>7, <1>8 DEF Task

LEMMA HostTyping ==
  ASSUME Typed, HostStep \/ LinkLost
  PROVE  Typed'
<1> USE Bounds DEF Typed, TypeOK, Holds, hostVars, taskVars, atHost
<1>1. CASE Accept BY <1>1 DEF Accept
<1>2. CASE LinuxAccept BY <1>2 DEF LinuxAccept
<1>3. ASSUME NEW sockReady \in BOOLEAN, NEW stdinReady \in BOOLEAN,
             Select(sockReady, stdinReady)
      PROVE  Typed'
  BY <1>3 DEF Select
<1>4. CASE RecvCell BY <1>4, CellsOfStream DEF RecvCell, ReadCell, Arrived
<1>5. CASE LinuxRecvCell BY <1>5, CellsOfStream DEF LinuxRecvCell, ReadCell, Arrived
<1>6. CASE RecvReturns BY <1>6 DEF RecvReturns
<1>7. CASE LinuxRecvReturns BY <1>7 DEF LinuxRecvReturns
<1>8. ASSUME NEW n \in 0 .. ChunkMax, StdinRead(n) PROVE Typed'
  BY <1>8 DEF StdinRead
<1>9. CASE HostSendByte BY <1>9 DEF HostSendByte
<1>10. CASE HostSendReturns BY <1>10 DEF HostSendReturns
<1>11. CASE LinuxSendReturns BY <1>11 DEF LinuxSendReturns
<1>12. CASE HostEnds BY <1>12 DEF HostEnds
<1>13. CASE HostTold BY <1>13 DEF HostTold
<1>14. CASE LinkLost
  <2>1. \/ fd' = fd /\ left' = left
        \/ /\ fd' \in {"queueDead", "openDead", "openSent"}
           /\ left' \in Seq(Cell) /\ Len(left') <= Len(stream)
    BY <1>14, Leaves DEF LinkLost
  <2>2. QED BY <1>14, <2>1, CellsOfStream DEF LinkLost
<1>15. QED
  BY <1>1, <1>2, <1>3, <1>4, <1>5, <1>6, <1>7, <1>8, <1>9, <1>10, <1>11, <1>12,
     <1>13, <1>14 DEF HostStep

LEMMA Typing ==
  /\ HostsInit => Typed
  /\ Typed /\ [HostsNext]_hostsVars => Typed'
<1>1. ASSUME HostsInit PROVE Typed
  <2>1. /\ stream \in Seq(Cell) /\ Len(stream) = 0 /\ last \in {<<>>} \cup Cell
        /\ left \in Seq(Cell) /\ Len(left) = 0
    BY <1>1 DEF HostsInit, Init
  <2>2. {0} \subseteq 0 .. CounterMod - 1 /\ 0 \in 0 .. LineLen
        /\ 0 \in 0 .. ChunkMax /\ 0 \in 0 .. BackCap /\ 0 <= StreamCap
    BY Bounds
  <2>3. /\ hpc = "socket" /\ open = 0 /\ ulCounter = 0 /\ line = 0 /\ queued = 0
        /\ conn = "none" /\ spc = "accept" /\ typed = FALSE /\ chunk = 0
        /\ fd = "none" /\ back = 0
    BY <1>1 DEF HostsInit, Init
  <2>4. QED BY <2>1, <2>2, <2>3 DEF Typed, TypeOK, Holds
<1>2. Typed /\ UNCHANGED hostsVars => Typed'
  BY DEF hostsVars, vars, taskVars, hostVars, atHost, Typed, TypeOK, Holds
<1>3. QED BY <1>1, <1>2, TaskTyping, HostTyping, Steps

(* The counter and the number of the line keep their range, no line is     *)
(* longer than cTxBuffer's text and no buffer overflows.                   *)
THEOREM TypeCorrect == HostsSpec => []TypeOK
<1>1. Typed => TypeOK BY DEF Typed
<1>2. QED BY <1>1, Typing, PTL DEF HostsSpec

(* The task never holds two sockets, nor one while it backs off: for any   *)
(* number of failed connections.                                           *)
THEOREM SocketsAreClosed == HostsSpec => []OneSocket
<1>1. Typed => OneSocket BY DEF Typed, Holds, OneSocket
<1>2. QED BY <1>1, Typing, PTL DEF HostsSpec
-------------------------------------------------------------------------------
(* d is what may come after c on one connection.                           *)
Succ(c, d) == d = <<c[1], c[2] + 1>> \/ d = <<(c[1] + 1) % CounterMod, 1>>

(* What the task sends next may come after c.                              *)
Follows(c) ==
  /\ hpc = "format" => ulCounter = (c[1] + 1) % CounterMod
  /\ hpc \in {"send", "delay"} =>
       IF queued > 0 THEN c = <<line, queued>> ELSE line = (c[1] + 1) % CounterMod

(* The task counts up, and it counts lines it has not sent as well; the    *)
(* host holds the task's own connection as long as neither end dropped it. *)
Numbered ==
  /\ hpc = "delay" => queued > 0
  /\ hpc \in {"send", "delay"} => ulCounter = (line + 1) % CounterMod
  /\ hpc \in {"socket", "connect", "backoff"} => conn = "none"
  /\ hpc \in {"format", "send", "delay"} => conn # "none"
  /\ conn = "none" => stream = <<>>
  /\ fd \in {"queue", "open"} => conn # "none"
  /\ fd \in {"none", "queue", "queueDead"} => last = <<>> /\ spc \in {"accept", "done"}
  /\ fd \in {"none", "queue", "open"} => left = <<>>

(* The stream of a connection, from the last cell read to the next sent;   *)
(* or, at the host of a dead connection, to the last that has arrived.     *)
InOrder ==
  /\ \A i \in 1 .. Len(stream) - 1 : Succ(stream[i], stream[i + 1])
  /\ stream # <<>> => Follows(stream[Len(stream)])
  /\ fd = "open" /\ last # <<>> =>
       IF stream = <<>> THEN Follows(last) ELSE Succ(last, stream[1])
  /\ \A i \in 1 .. Len(left) - 1 : Succ(left[i], left[i + 1])
  /\ left # <<>> /\ last # <<>> => Succ(last, left[1])

(* What the host has read, and what it may read of a dead connection.      *)
Ordered ==
  /\ fd \in {"none", "queue", "queueDead"} => last = <<>> /\ spc \in {"accept", "done"}
  /\ fd \in {"none", "queue", "open"} => left = <<>>
  /\ \A i \in 1 .. Len(left) - 1 : Succ(left[i], left[i + 1])
  /\ left # <<>> /\ last # <<>> => Succ(last, left[1])

LEMMA Dying ==
  ASSUME Typed, Numbered, InOrder, Died, conn # "none" \/ fd \notin {"queue", "open"},
         last' = last, spc' = spc
  PROVE  Ordered' /\ (fd' \notin {"queue", "open"})
<1>1. CASE fd \notin {"queue", "open"}
  BY <1>1 DEF Died, atHost, Numbered, InOrder, Ordered
<1>2. CASE fd \in {"queue", "open"}
  <2>1. /\ fd' \in {"queueDead", "openDead", "openSent"} /\ (fd' = "queueDead" => fd = "queue")
        /\ left' \in Seq(Cell) /\ Len(left') <= Len(stream)
        /\ \A i \in 1 .. Len(left') : left'[i] = stream[i]
    BY <1>2, Leaves DEF Typed, Died
  <2>2. \A i \in 1 .. Len(left') - 1 : Succ(left'[i], left'[i + 1])
    BY <2>1, CellsOfStream DEF Typed, InOrder
  <2>3. left' # <<>> => stream # <<>> /\ left'[1] = stream[1]
    BY <2>1, CellsOfStream DEF Typed
  <2>4. left' # <<>> /\ last' # <<>> => Succ(last', left'[1])
    <3>1. last # <<>> => fd = "open" BY <1>2 DEF Numbered
    <3>2. QED BY <3>1, <2>3 DEF InOrder
  <2>5. fd' = "queueDead" => last' = <<>> /\ spc' \in {"accept", "done"}
    BY <2>1 DEF Numbered
  <2>6. QED BY <2>1, <2>2, <2>4, <2>5 DEF Ordered
<1>3. QED BY <1>1, <1>2

LEMMA InOrderTask ==
  ASSUME Typed, Numbered, InOrder, Task
  PROVE  Numbered' /\ InOrder'
<1> USE Bounds DEF Typed, TypeOK, Numbered, InOrder, Follows, hostVars, atHost
<1>1. CASE OpenSocket BY <1>1 DEF OpenSocket
<1>2. CASE Connect BY <1>2 DEF Connect
<1>3. CASE ConnectFails BY <1>3 DEF ConnectFails
<1>4. CASE Format BY <1>4 DEF Format, NextLine, CounterPlusOne
<1>5. CASE SendCell
  <2> DEFINE c == <<line, queued + 1>>
  <2>1. /\ hpc = "send" /\ hpc' = "send" /\ stream' = Append(stream, c)
        /\ queued' = queued + 1 /\ line' = line /\ ulCounter' = ulCounter
        /\ conn' = conn /\ fd' = fd /\ last' = last /\ left' = left
    BY <1>5 DEF SendCell
  <2>2. Len(stream') = Len(stream) + 1 /\ stream'[Len(stream')] = c
        /\ \A i \in 1 .. Len(stream) : stream'[i] = stream[i]
    BY <2>1, CellsOfStream
  <2>3. stream # <<>> => Succ(stream[Len(stream)], c)
    BY <2>1, SMTT(30) DEF Succ
  <2>4. fd = "open" /\ last # <<>> /\ stream = <<>> => Succ(last, c)
    BY <2>1, SMTT(30) DEF Succ
  <2>5. Follows(<<line, queued>>)' /\ c = <<line, queued>>' BY <2>1
  <2>6. \A i \in 1 .. Len(stream') - 1 : Succ(stream'[i], stream'[i + 1])
    <3>1. ASSUME NEW i \in 1 .. Len(stream') - 1
          PROVE  Succ(stream'[i], stream'[i + 1])
      <4>1. CASE i < Len(stream)
        <5>1. stream'[i] = stream[i] /\ stream'[i + 1] = stream[i + 1]
          BY <4>1, <2>2, CellsOfStream
        <5>2. QED BY <4>1, <5>1, CellsOfStream
      <4>2. CASE i = Len(stream) BY <4>2, <2>2, <2>3
      <4>3. QED BY <4>1, <4>2, <2>2
    <3>2. QED BY <3>1
  <2>7. stream' # <<>> /\ (stream # <<>> => stream'[1] = stream[1])
        /\ (stream = <<>> => stream'[1] = c)
    BY <2>2
  <2>8. Numbered'
    <3>1. conn # "none" /\ spc' = spc BY <1>5, <2>1 DEF SendCell
    <3>2. QED BY <2>1, <3>1
  <2>9. Follows(stream[Len(stream)])'
    <3>1. stream'[Len(stream')] = <<line', queued'>> BY <2>1, <2>2
    <3>2. queued' > 0 BY <2>1
    <3>3. QED BY <2>1, <3>1, <3>2
  <2>10. last' # <<>> /\ fd' = "open" => Succ(last', stream'[1])
    BY <2>1, <2>4, <2>7
  <2>11. QED BY <2>1, <2>6, <2>7, <2>8, <2>9, <2>10
<1>6. CASE SendReturns BY <1>6 DEF SendReturns, AfterFailedSend
<1>7. CASE Delay BY <1>7 DEF Delay
<1>8. CASE Close
  <2>1. Ordered' /\ fd' \notin {"queue", "open"}
    BY <1>8, Dying DEF Close
  <2>2. QED BY <1>8, <2>1 DEF Close, Ordered
<1>9. QED BY <1>1, <1>2, <1>3, <1>4, <1>5, <1>6, <1>7, <1>8 DEF Task

LEMMA ReadLeft ==
  ASSUME Typed, Numbered, InOrder, left # <<>>, fd # "open",
         last' = Head(left), left' = Tail(left),
         fd \notin {"none", "queue", "queueDead"},
         UNCHANGED <<taskVars, conn, stream, fd>>
  PROVE  Numbered' /\ InOrder'
<1>1. /\ Len(left') = Len(left) - 1 /\ last' = left[1]
      /\ \A i \in 1 .. Len(left') : left'[i] = left[i + 1]
  BY CellsOfStream DEF Typed
<1>2. Numbered' BY DEF Numbered, taskVars
<1>3. \A i \in 1 .. Len(left') - 1 : Succ(left'[i], left'[i + 1])
  BY <1>1, CellsOfStream DEF Typed, InOrder
<1>4. left' # <<>> => Succ(last', left'[1])
  BY <1>1, CellsOfStream DEF Typed, InOrder
<1>5. stream # <<>> => Follows(stream[Len(stream)])'
  BY DEF InOrder, Follows, taskVars
<1>6. QED BY <1>2, <1>3, <1>4, <1>5 DEF InOrder

LEMMA ReadStream ==
  ASSUME Typed, Numbered, InOrder, stream # <<>>, fd = "open",
         last' = Head(stream), stream' = Tail(stream), left' = left,
         UNCHANGED <<taskVars, conn, fd>>
  PROVE  Numbered' /\ InOrder'
<1>1. /\ Len(stream') = Len(stream) - 1 /\ last' = stream[1]
      /\ \A i \in 1 .. Len(stream') : stream'[i] = stream[i + 1]
  BY CellsOfStream DEF Typed
<1>2. Numbered' BY DEF Numbered, taskVars
<1>3. \A i \in 1 .. Len(stream') - 1 : Succ(stream'[i], stream'[i + 1])
  BY <1>1, CellsOfStream DEF Typed, InOrder
<1>4. stream' # <<>> =>
        stream'[Len(stream')] = stream[Len(stream)] /\ Succ(last', stream'[1])
  BY <1>1, CellsOfStream DEF Typed, InOrder
<1>5. stream' = <<>> => last' = stream[Len(stream)]
  <2>1. Len(<<>>) = 0 /\ Len(stream) \in Nat BY CellsOfStream DEF Typed
  <2>2. stream' = <<>> => Len(stream) = 1 BY <1>1, <2>1
  <2>3. QED BY <1>1, <2>2
<1>6. Follows(stream[Len(stream)]) BY DEF InOrder
<1>7. stream' # <<>> => Follows(stream[Len(stream)])'
  BY <1>6, <1>4 DEF Follows, taskVars
<1>8. stream' = <<>> => Follows(last)' BY <1>6, <1>5 DEF Follows, taskVars
<1>9. left' = <<>> BY DEF Numbered
<1>10. QED BY <1>2, <1>3, <1>4, <1>7, <1>8, <1>9 DEF InOrder

LEMMA Read ==
  ASSUME Typed, Numbered, InOrder, ReadCell,
         fd \notin {"none", "queue", "queueDead"},
         UNCHANGED <<taskVars, conn, fd>>
  PROVE  Numbered' /\ InOrder'
<1>1. CASE fd = "open" BY <1>1, ReadStream DEF ReadCell, Arrived
<1>2. CASE fd # "open" BY <1>2, ReadLeft DEF ReadCell, Arrived
<1>3. QED BY <1>1, <1>2

LEMMA InOrderHost ==
  ASSUME Typed, Numbered, InOrder, HostStep \/ LinkLost
  PROVE  Numbered' /\ InOrder'
<1> USE DEF Typed, TypeOK, Numbered, InOrder, Follows, hostVars, taskVars, atHost
<1>1. CASE Accept BY <1>1 DEF Accept
<1>2. CASE LinuxAccept BY <1>2 DEF LinuxAccept
<1>3. ASSUME NEW sockReady \in BOOLEAN, NEW stdinReady \in BOOLEAN,
             Select(sockReady, stdinReady)
      PROVE  Numbered' /\ InOrder'
  BY <1>3 DEF Select
<1>4. CASE RecvCell BY <1>4, Read DEF RecvCell
<1>5. CASE LinuxRecvCell BY <1>5, Read DEF LinuxRecvCell
<1>6. CASE RecvReturns BY <1>6 DEF RecvReturns
<1>7. CASE LinuxRecvReturns BY <1>7 DEF LinuxRecvReturns
<1>8. ASSUME NEW n \in 0 .. ChunkMax, StdinRead(n)
      PROVE  Numbered' /\ InOrder'
  BY <1>8 DEF StdinRead
<1>9. CASE HostSendByte BY <1>9 DEF HostSendByte
<1>10. CASE HostSendReturns BY <1>10 DEF HostSendReturns
<1>11. CASE LinuxSendReturns BY <1>11 DEF LinuxSendReturns
<1>12. CASE HostEnds BY <1>12 DEF HostEnds
<1>13. CASE HostTold BY <1>13 DEF HostTold
<1>14. CASE LinkLost
  <2>1. Ordered' /\ fd' \notin {"queue", "open"} BY <1>14, Dying DEF LinkLost
  <2>2. QED BY <1>14, <2>1 DEF LinkLost, Ordered
<1>15. QED
  BY <1>1, <1>2, <1>3, <1>4, <1>5, <1>6, <1>7, <1>8, <1>9, <1>10, <1>11, <1>12,
     <1>13, <1>14 DEF HostStep

LEMMA InOrderStep ==
  /\ HostsInit => Numbered /\ InOrder
  /\ Typed /\ Numbered /\ InOrder /\ [HostsNext]_hostsVars => Numbered' /\ InOrder'
<1>1. HostsInit => Numbered /\ InOrder
  BY DEF HostsInit, Init, Numbered, InOrder, Follows
<1>2. Numbered /\ InOrder /\ UNCHANGED hostsVars => Numbered' /\ InOrder'
  BY DEF hostsVars, vars, taskVars, hostVars, atHost, Numbered, InOrder, Follows
<1>3. QED BY <1>1, <1>2, InOrderTask, InOrderHost, Steps

LEMMA ReadsInOrder ==
  ASSUME Typed, Numbered, InOrder, HostsNext, last' # last, last # <<>>
  PROVE  Succ(last, last')
<1>1. Task => last' = last
  BY DEF Task, OpenSocket, Connect, ConnectFails, Format, SendCell, SendReturns,
         Delay, Close, hostVars
<1>2. HostStep \/ LinkLost => Arrived # <<>> /\ last' = Head(Arrived)
  BY DEF HostStep, Accept, LinuxAccept, Select, RecvCell, LinuxRecvCell, ReadCell,
         RecvReturns, LinuxRecvReturns, StdinRead, HostSendByte, HostSendReturns,
         LinuxSendReturns, HostEnds, HostTold, LinkLost, hostVars
<1>3. Arrived # <<>> /\ last' = Head(Arrived) BY <1>1, <1>2, Steps
<1>4. last' = Arrived[1] BY <1>3, CellsOfStream DEF Typed, Arrived
<1>5. QED BY <1>3, <1>4 DEF InOrder, Arrived

(* The host prints the lines of a connection in order, none missing and    *)
(* none twice, whatever was cut short, and across the wrap of ulCounter.   *)
THEOREM LinesArriveInOrder == HostsSpec => LinesInOrder
<1>1. Typed /\ Numbered /\ InOrder /\ [HostsNext]_hostsVars =>
        [last' # last /\ last # <<>> =>
           \/ last' = <<last[1], last[2] + 1>>
           \/ last' = <<(last[1] + 1) % CounterMod, 1>>]_vars
  BY ReadsInOrder DEF Succ, hostsVars, vars
<1>2. QED BY <1>1, Typing, InOrderStep, PTL DEF HostsSpec, LinesInOrder
===============================================================================
