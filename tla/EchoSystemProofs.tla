--------------------------- MODULE EchoSystemProofs ---------------------------
(***************************************************************************)
(* Proofs about EchoSystem, for any set of clients and any sizes.          *)
(***************************************************************************)
EXTENDS EchoSystem, TLAPS

LEMMA SystemAssumption ==
  /\ BufSize \in Nat \ {0, 1}
  /\ NULL \notin Clients
  /\ INVALID \notin Clients
  /\ NULL # INVALID
  /\ DownCap \in Nat
  /\ ChunkMax \in Nat
BY StackAssumption, ServerAssumption, ClientAssumption
   DEF StackAssumption, ServerAssumption, ClientAssumption
-------------------------------------------------------------------------------
(* Type correctness, one lemma per kind of step.                           *)
LEMMA ServerTyping ==
  ASSUME TypeOK, Server
  PROVE  TypeOK'
<1> USE SystemAssumption DEF TypeOK, StackTypeOK, ServerTypeOK, ClientTypeOK,
                             clientVars
<1>1. CASE CreateSocket BY <1>1 DEF Server, CreateSocket, stackVars
<1>2. CASE Halted BY <1>2 DEF Server, Halted, stackVars, taskVars
<1>3. CASE BindAndListen BY <1>3 DEF Server, BindAndListen
<1>4. CASE AcceptTimeout
  BY <1>4 DEF Server, AcceptTimeout, AcceptReturns, stackVars
<1>5. CASE AcceptInvalid
  BY <1>5 DEF Server, AcceptInvalid, AcceptReturns, stackVars
<1>6. CASE RecvNull BY <1>6 DEF Server, RecvNull, RecvFails, stackVars, Index
<1>7. CASE Close BY <1>7 DEF Server, Close, CloseSocket, CloseServerEnd, LinkState
<1>8. ASSUME NEW c \in Clients, Serve(c) PROVE TypeOK'
  <2>1. CASE AcceptClient(c)
    BY <2>1 DEF Server, AcceptClient, AcceptReturns
  <2>2. ASSUME NEW n \in 1 .. BufSize, RecvData(c, n) PROVE TypeOK'
    <3>1. n \in Index /\ 0 \in Index BY <2>2 DEF RecvData, RecvSize, Index
    <3>2. rxBuffer' \in [Index -> Cell]
      BY <2>2, SMTT(30) DEF RecvData, Received, Index, Cell, Unit
    <3>3. taken' \in [Clients -> Nat] BY <2>2 DEF RecvData
    <3>4. QED BY <2>2, <3>1, <3>2, <3>3 DEF Server, RecvData
  <2>3. CASE RecvClosed(c)
    BY <2>3 DEF Server, RecvClosed, RecvFails, stackVars, Index
  <2>4. CASE RecvTimeout(c)
    BY <2>4 DEF Server, RecvTimeout, RecvFails, stackVars, Index
  <2>5. CASE SendUnit(c)
    <3>1. sent + 1 \in Index BY <2>5 DEF SendUnit, SendLen, Index
    <3>2. rxBuffer[sent] \in Cell OBVIOUS
    <3>3. echoed' \in [Clients -> Seq(Cell)]
      BY <2>5, <3>2 DEF SendUnit, QueueCell
    <3>4. link' \in [Clients -> LinkState]
      BY <2>5 DEF SendUnit, QueueCell, LinkState
    <3>5. QED BY <2>5, <3>1, <3>3, <3>4 DEF Server, SendUnit
  <2>6. CASE SendComplete(c)
    BY <2>6 DEF Server, SendComplete, SendReturns, stackVars
  <2>7. CASE SendShort(c)
    BY <2>7 DEF Server, SendShort, SendReturns, stackVars
  <2>8. QED BY <1>8, <2>1, <2>2, <2>3, <2>4, <2>5, <2>6, <2>7 DEF Serve
<1>9. QED
  BY <1>1, <1>2, <1>3, <1>4, <1>5, <1>6, <1>7, <1>8 DEF Server, ServerNext

LEMMA ClientTyping ==
  ASSUME TypeOK, NEW c \in Clients, Client(c)
  PROVE  TypeOK'
<1> USE SystemAssumption DEF TypeOK, StackTypeOK, ServerTypeOK, ClientTypeOK,
                             taskVars, Goto
<1>1. CASE Connect(c) BY <1>1 DEF Client, Connect, Handshake, LinkState
<1>2. CASE ConnectFails(c) BY <1>2 DEF Client, ConnectFails, stackVars
<1>3. ASSUME NEW r \in BOOLEAN, NEW s \in BOOLEAN, Select(c, r, s) PROVE TypeOK'
  BY <1>3 DEF Client, Select, stackVars
<1>4. CASE SockEnd(c)
  BY <1>4, SMTT(30) DEF Client, SockEnd, Quit, CloseClientEnd, ForgetUnaccepted, LinkState
<1>5. CASE Kill(c)
  BY <1>5, SMTT(30) DEF Client, Kill, Quit, CloseClientEnd, ForgetUnaccepted, LinkState
<1>6. ASSUME NEW n \in 1 .. DownCap, SockRecv(c, n) PROVE TypeOK'
  BY <1>6, SMTT(30) DEF Client, SockRecv, AfterSock
<1>7. ASSUME NEW n \in 0 .. ChunkMax, StdinRead(c, n) PROVE TypeOK'
  BY <1>7, SMTT(30) DEF Client, StdinRead, stackVars
<1>8. CASE ClientSendUnit(c)
  <2>1. written' \in [Clients -> Nat] BY <1>8 DEF ClientSendUnit
  <2>2. chunk' \in [Clients -> Nat] BY <1>8 DEF ClientSendUnit
  <2>3. QED BY <1>8, <2>1, <2>2 DEF Client, ClientSendUnit
<1>9. CASE ClientSendReturns(c) BY <1>9 DEF Client, ClientSendReturns, stackVars
<1>10. QED
  BY <1>1, <1>2, <1>3, <1>4, <1>5, <1>6, <1>7, <1>8, <1>9
     DEF Client, ClientNext, ClientRuns

(* Every reachable state is well typed; in particular the server task      *)
(* never stores or reads outside rxBuffer.                                 *)
THEOREM TypeCorrect == Spec => []TypeOK
<1>1. Init => TypeOK
  BY SystemAssumption
     DEF Init, StackInit, ServerInit, ClientInit, TypeOK, StackTypeOK,
         ServerTypeOK, ClientTypeOK, LinkState, Index, Cell
<1>2. TypeOK /\ [Next]_vars => TypeOK'
  <2> SUFFICES ASSUME TypeOK, [Next]_vars PROVE TypeOK' OBVIOUS
  <2>1. CASE Server BY <2>1, ServerTyping
  <2>2. ASSUME NEW c \in Clients, Client(c) PROVE TypeOK' BY <2>2, ClientTyping
  <2>3. ASSUME NEW c \in Clients, Network(c) PROVE TypeOK'
    BY <2>3 DEF Network, LinkLost, ForgetUnaccepted, LinkState, taskVars,
                clientVars, TypeOK, StackTypeOK, ServerTypeOK, ClientTypeOK
  <2>4. CASE UNCHANGED vars
    BY <2>4 DEF vars, stackVars, taskVars, clientVars, TypeOK, StackTypeOK,
                ServerTypeOK, ClientTypeOK
  <2>5. QED BY <2>1, <2>2, <2>3, <2>4 DEF Next
<1>3. QED BY <1>1, <1>2, PTL DEF Spec
-------------------------------------------------------------------------------
(* The streams.  Neither the clients nor the network touch what the server *)
(* task holds, what it has taken or what it has echoed.                    *)
LEMMA OthersLeaveStreams ==
  ASSUME NEW c \in Clients, Client(c) \/ Network(c)
  PROVE  UNCHANGED <<taskVars, taken, echoed>>
<1>1. CASE Client(c)
  <2>1. Client(c) => UNCHANGED <<taken, echoed>>
    BY DEF Client, ClientNext, ClientRuns, Connect, ConnectFails, Select,
           SockEnd, Kill, Quit, SockRecv, StdinRead, ClientSendUnit,
           ClientSendReturns, stackVars
  <2>2. QED BY <1>1, <2>1 DEF Client
<1>2. CASE Network(c) BY <1>2 DEF Network, LinkLost
<1>3. QED BY <1>1, <1>2

(* The server steps that end or start neither a receive nor a send.        *)
ServerElsewhere ==
  \/ CreateSocket \/ Halted \/ BindAndListen \/ AcceptTimeout \/ AcceptInvalid
  \/ RecvNull \/ Close
  \/ \E c \in Clients : AcceptClient(c) \/ RecvClosed(c) \/ RecvTimeout(c)

LEMMA ElsewhereLeavesStreams ==
  ASSUME ServerElsewhere
  PROVE  pc # "send" /\ pc' # "send" /\ UNCHANGED <<taken, echoed, short>>
BY DEF ServerElsewhere, CreateSocket, Halted, BindAndListen, AcceptTimeout,
       AcceptInvalid, AcceptReturns, RecvNull, RecvFails, Close, AcceptClient,
       RecvClosed, RecvTimeout, stackVars, taskVars

LEMMA ServerCases ==
  ASSUME Server
  PROVE  \/ ServerElsewhere
         \/ \E c \in Clients, n \in 1 .. BufSize : RecvData(c, n)
         \/ \E c \in Clients : SendUnit(c) \/ SendComplete(c) \/ SendShort(c)
BY DEF Server, ServerNext, Serve, ServerElsewhere

(* While it sends, the task holds in rxBuffer the last xRx units it has    *)
(* taken from the client it serves, and nothing older.                     *)
BufferFresh ==
  pc = "send" =>
    /\ xClientSocket \in Clients
    /\ sent <= xRx
    /\ xRx <= taken[xClientSocket]
    /\ \A i \in Index :
         i < xRx => rxBuffer[i] =
                      <<xClientSocket, taken[xClientSocket] - xRx + i + 1>>

LEMMA BufferFreshStep ==
  ASSUME TypeOK, TypeOK', BufferFresh, [Next]_vars
  PROVE  BufferFresh'
<1> USE SystemAssumption DEF BufferFresh
<1>1. CASE Server
  <2>1. CASE ServerElsewhere BY <2>1, ElsewhereLeavesStreams
  <2>2. ASSUME NEW c \in Clients, NEW n \in 1 .. BufSize, RecvData(c, n)
        PROVE  BufferFresh'
    <3>1. /\ xClientSocket' = c /\ sent' = 0 /\ xRx' = n
          /\ taken'[c] = taken[c] + n
      BY <2>2 DEF RecvData, TypeOK, StackTypeOK
    <3>2. taken[c] \in Nat BY DEF TypeOK, StackTypeOK
    <3>3. \A i \in Index : i < n => rxBuffer'[i] = <<c, taken[c] + i + 1>>
      BY <2>2 DEF RecvData, Received
    <3>4. \A i \in Index : taken[c] + n - n + i + 1 = taken[c] + i + 1
      BY <3>2 DEF Index
    <3>5. QED BY <3>1, <3>2, <3>3, <3>4
  <2>3. ASSUME NEW c \in Clients, SendUnit(c) PROVE BufferFresh'
    <3>1. sent + 1 <= xRx
      BY <2>3 DEF SendUnit, SendLen, TypeOK, ServerTypeOK, Index
    <3>2. QED BY <2>3, <3>1 DEF SendUnit
  <2>4. ASSUME NEW c \in Clients, SendComplete(c) \/ SendShort(c)
        PROVE  BufferFresh'
    BY <2>4 DEF SendComplete, SendShort, SendReturns
  <2>5. QED BY <1>1, <2>1, <2>2, <2>3, <2>4, ServerCases
<1>2. ASSUME NEW c \in Clients, Client(c) \/ Network(c) PROVE BufferFresh'
  BY <1>2, OthersLeaveStreams DEF taskVars
<1>3. CASE UNCHANGED vars BY <1>3 DEF vars, stackVars, taskVars
<1>4. QED BY <1>1, <1>2, <1>3 DEF Next

(* What a client's share of the streams is after each kind of step.        *)
LEMMA PendingType ==
  ASSUME TypeOK, NEW c \in Clients
  PROVE  Pending(c) \in Int /\ taken[c] \in Nat /\ echoed[c] \in Seq(Cell)
BY DEF TypeOK, StackTypeOK, ServerTypeOK, Pending, Index

LEMMA SendUnitShare ==
  ASSUME TypeOK, BufferFresh, NEW c \in Clients, SendUnit(c), NEW d \in Clients
  PROVE  /\ taken' = taken
         /\ short' = short
         /\ Pending(d)' = IF d = c THEN Pending(d) - 1 ELSE Pending(d)
         /\ echoed[d]' = IF d = c
                         THEN Append(echoed[d], <<c, taken[c] - Pending(c) + 1>>)
                         ELSE echoed[d]
<1>1. taken' = taken /\ short' = short /\ pc' = pc /\ xRx' = xRx
      /\ xClientSocket' = xClientSocket /\ sent' = sent + 1
      /\ pc = "send" /\ xClientSocket = c /\ sent < xRx
  BY DEF SendUnit, SendLen
<1>2. sent \in Nat /\ xRx \in Nat /\ taken[c] \in Nat /\ sent \in Index
  BY DEF TypeOK, StackTypeOK, ServerTypeOK, Index
<1>3. rxBuffer[sent] = <<c, taken[c] - xRx + sent + 1>>
  BY <1>1, <1>2 DEF BufferFresh
<1>4. Pending(c) = xRx - sent BY <1>1 DEF Pending
<1>5. rxBuffer[sent] = <<c, taken[c] - Pending(c) + 1>>
  BY <1>2, <1>3, <1>4
<1>6. echoed' = [echoed EXCEPT ![c] = Append(@, rxBuffer[sent])]
  BY DEF SendUnit, QueueCell
<1>7. echoed[d]' = IF d = c THEN Append(echoed[d], rxBuffer[sent]) ELSE echoed[d]
  BY <1>6 DEF TypeOK, StackTypeOK
<1>8. Pending(d)' = IF d = c THEN Pending(d) - 1 ELSE Pending(d)
  BY <1>1, <1>2 DEF Pending
<1>9. QED BY <1>1, <1>5, <1>7, <1>8

LEMMA RecvDataShare ==
  ASSUME TypeOK, NEW c \in Clients, NEW n \in 1 .. BufSize, RecvData(c, n),
         NEW d \in Clients
  PROVE  /\ echoed' = echoed
         /\ short' = short
         /\ Pending(d) = 0
         /\ Pending(d)' = IF d = c THEN n ELSE 0
         /\ taken[d]' = IF d = c THEN taken[d] + n ELSE taken[d]
<1>1. /\ echoed' = echoed /\ short' = short /\ pc = "recv" /\ pc' = "send"
      /\ xClientSocket' = c /\ sent' = 0 /\ xRx' = n
      /\ taken' = [taken EXCEPT ![c] = @ + n]
  BY DEF RecvData
<1>2. QED BY <1>1, SystemAssumption DEF TypeOK, StackTypeOK, Pending

LEMMA SendEndShare ==
  ASSUME TypeOK, BufferFresh, NEW c \in Clients,
         SendComplete(c) \/ SendShort(c), NEW d \in Clients
  PROVE  /\ echoed' = echoed
         /\ taken' = taken
         /\ Pending(d) >= 0
         /\ Pending(d)' = 0
         /\ d \notin short' => d \notin short /\ Pending(d) = 0
<1>1. /\ echoed' = echoed /\ taken' = taken /\ pc' = "recv"
      /\ pc = "send" /\ xClientSocket = c
  BY DEF SendComplete, SendShort, SendReturns, stackVars
<1>2. sent \in Int /\ xRx \in Int
  BY DEF TypeOK, ServerTypeOK, Index
<1>3. sent <= xRx BY <1>1 DEF BufferFresh
<1>4. Pending(d) = (IF d = c THEN xRx - sent ELSE 0) /\ Pending(d)' = 0
  BY <1>1 DEF Pending
<1>5. CASE SendComplete(c)
  <2>1. short' = short /\ sent = xRx BY <1>5 DEF SendComplete, SendLen
  <2>2. Pending(d) = 0 BY <1>2, <1>4, <2>1
  <2>3. QED BY <1>1, <1>4, <2>1, <2>2
<1>6. CASE SendShort(c)
  <2>1. short' = short \cup {c} BY <1>6 DEF SendShort
  <2>2. Pending(d) >= 0 BY <1>2, <1>3, <1>4
  <2>3. d \notin short' => d \notin short /\ Pending(d) = 0 BY <1>4, <2>1
  <2>4. QED BY <1>1, <1>4, <2>2, <2>3
<1>7. QED BY <1>5, <1>6

LEMMA ElsewhereShare ==
  ASSUME ServerElsewhere, NEW d \in Clients
  PROVE  /\ UNCHANGED <<taken, echoed, short>>
         /\ Pending(d) = 0
         /\ Pending(d)' = 0
BY ElsewhereLeavesStreams DEF Pending

LEMMA OthersShare ==
  ASSUME \/ UNCHANGED vars
         \/ \E c \in Clients : Client(c) \/ Network(c),
         NEW d \in Clients
  PROVE  UNCHANGED <<taken, echoed, short>> /\ Pending(d)' = Pending(d)
BY OthersLeaveStreams DEF vars, stackVars, taskVars, Pending
-------------------------------------------------------------------------------
LEMMA EchoInOrderStep ==
  ASSUME TypeOK, TypeOK', BufferFresh, EchoInOrder, [Next]_vars
  PROVE  EchoInOrder'
<1> DEFINE Ordered(d) ==
      /\ \A i \in DOMAIN echoed[d] :
           \E u \in 1 .. taken[d] - Pending(d) : echoed[d][i] = <<d, u>>
      /\ \A i, j \in DOMAIN echoed[d] :
           i < j => echoed[d][i][2] < echoed[d][j][2]
<1> SUFFICES ASSUME NEW d \in Clients PROVE Ordered(d)'
  BY DEF EchoInOrder
<1>1. Ordered(d) BY DEF EchoInOrder
<1>2. /\ Pending(d) \in Int /\ taken[d] \in Nat /\ echoed[d] \in Seq(Cell)
      /\ Pending(d)' \in Int /\ taken'[d] \in Nat /\ echoed'[d] \in Seq(Cell)
  BY PendingType DEF TypeOK, StackTypeOK, ServerTypeOK, Pending, Index
(* A step that echoes nothing keeps the order if it settles no fewer units. *)
<1>3. ASSUME echoed'[d] = echoed[d],
             taken'[d] - Pending(d)' >= taken[d] - Pending(d)
      PROVE  Ordered(d)'
  BY <1>1, <1>2, <1>3, SMTT(30)
<1>4. CASE Server
  <2>1. CASE ServerElsewhere BY <1>2, <1>3, <2>1, ElsewhereShare
  <2>2. ASSUME NEW c \in Clients, NEW n \in 1 .. BufSize, RecvData(c, n)
        PROVE  Ordered(d)'
    <3>1. echoed' = echoed /\ taken'[d] - Pending(d)' = taken[d] - Pending(d)
      BY <1>2, <2>2, RecvDataShare, SystemAssumption
    <3>2. QED BY <1>2, <1>3, <3>1
  <2>3. ASSUME NEW c \in Clients, SendUnit(c) PROVE Ordered(d)'
    <3>0. /\ taken' = taken
          /\ Pending(d)' = IF d = c THEN Pending(d) - 1 ELSE Pending(d)
          /\ echoed[d]' = IF d = c
                    THEN Append(echoed[d], <<c, taken[c] - Pending(c) + 1>>)
                    ELSE echoed[d]
      BY <2>3, SendUnitShare
    <3>1. CASE d # c BY <1>2, <1>3, <3>0, <3>1
    <3>2. CASE d = c
      <4> DEFINE new == taken[d] - Pending(d) + 1
      <4>1. /\ echoed'[d] = Append(echoed[d], <<d, new>>)
            /\ taken'[d] - Pending(d)' = new
        BY <1>2, <3>0, <3>2
      <4>2. new >= 1 /\ new \in Int
        <5>1. pc = "send" /\ xClientSocket = d /\ sent \in Int /\ xRx \in Int
              /\ sent >= 0
          BY <2>3, <3>2 DEF SendUnit, TypeOK, ServerTypeOK, Index
        <5>2. xRx <= taken[d] BY <5>1 DEF BufferFresh
        <5>3. Pending(d) = xRx - sent BY <5>1 DEF Pending
        <5>4. QED BY <1>2, <5>1, <5>2, <5>3
      <4>3. \A i \in DOMAIN echoed'[d] :
              \/ i \in DOMAIN echoed[d] /\ echoed'[d][i] = echoed[d][i]
              \/ i = Len(echoed[d]) + 1 /\ echoed'[d][i] = <<d, new>>
        BY <1>2, <4>1, SMTT(30)
      <4> HIDE DEF new
      <4>4. \A i \in DOMAIN echoed[d] :
              \E u \in 1 .. new - 1 : echoed[d][i] = <<d, u>>
        <5>1. new - 1 = taken[d] - Pending(d) BY <1>2 DEF new
        <5>2. QED BY <1>1, <5>1
      <4>5. \A i \in DOMAIN echoed'[d] :
              \E u \in 1 .. new : echoed'[d][i] = <<d, u>>
        BY <4>2, <4>3, <4>4
      <4>6. ASSUME NEW i \in DOMAIN echoed'[d], NEW j \in DOMAIN echoed'[d],
                   i < j
            PROVE  echoed'[d][i][2] < echoed'[d][j][2]
        <5>1. \A k \in DOMAIN echoed[d] : k \in 1 .. Len(echoed[d])
          BY <1>2
        <5>2. i \in DOMAIN echoed[d] /\ echoed'[d][i] = echoed[d][i]
          BY <1>2, <4>1, <4>3, <4>6, <5>1
        <5>3. PICK u \in 1 .. new - 1 : echoed[d][i] = <<d, u>>
          BY <4>4, <5>2
        <5>4. CASE j \in DOMAIN echoed[d] /\ echoed'[d][j] = echoed[d][j]
          BY <1>1, <4>6, <5>2, <5>4
        <5>5. CASE echoed'[d][j] = <<d, new>>
          BY <4>2, <5>2, <5>3, <5>5
        <5>6. QED BY <4>3, <5>4, <5>5
      <4>7. QED BY <4>1, <4>5, <4>6
    <3>3. QED BY <3>1, <3>2
  <2>4. ASSUME NEW c \in Clients, SendComplete(c) \/ SendShort(c)
        PROVE  Ordered(d)'
    BY <1>2, <1>3, <2>4, SendEndShare
  <2>5. QED BY <1>4, <2>1, <2>2, <2>3, <2>4, ServerCases
<1>5. CASE UNCHANGED vars \/ \E c \in Clients : Client(c) \/ Network(c)
  BY <1>2, <1>3, <1>5, OthersShare
<1>6. QED BY <1>4, <1>5 DEF Next

LEMMA LossOnlyWhenShortStep ==
  ASSUME TypeOK, TypeOK', BufferFresh, LossOnlyWhenShort, [Next]_vars
  PROVE  LossOnlyWhenShort'
<1> SUFFICES ASSUME NEW d \in Clients, d \notin short'
             PROVE  (Len(echoed[d]) + Pending(d) = taken[d])'
  BY DEF LossOnlyWhenShort
<1>1. /\ Pending(d) \in Int /\ taken[d] \in Nat /\ echoed[d] \in Seq(Cell)
      /\ Len(echoed[d]) \in Nat
  BY PendingType
<1>2. d \notin short => Len(echoed[d]) + Pending(d) = taken[d]
  BY DEF LossOnlyWhenShort
<1>3. CASE Server
  <2>1. CASE ServerElsewhere BY <1>1, <1>2, <2>1, ElsewhereShare
  <2>2. ASSUME NEW c \in Clients, NEW n \in 1 .. BufSize, RecvData(c, n)
        PROVE  (Len(echoed[d]) + Pending(d) = taken[d])'
    BY <1>1, <1>2, <2>2, RecvDataShare, SystemAssumption
  <2>3. ASSUME NEW c \in Clients, SendUnit(c)
        PROVE  (Len(echoed[d]) + Pending(d) = taken[d])'
    <3>1. /\ taken' = taken /\ short' = short
          /\ Pending(d)' = IF d = c THEN Pending(d) - 1 ELSE Pending(d)
          /\ echoed[d]' = IF d = c
                    THEN Append(echoed[d], <<c, taken[c] - Pending(c) + 1>>)
                    ELSE echoed[d]
      BY <2>3, SendUnitShare
    <3>2. Len(echoed[d])' = IF d = c THEN Len(echoed[d]) + 1 ELSE Len(echoed[d])
      BY <1>1, <3>1
    <3>3. QED BY <1>1, <1>2, <3>1, <3>2
  <2>4. ASSUME NEW c \in Clients, SendComplete(c) \/ SendShort(c)
        PROVE  (Len(echoed[d]) + Pending(d) = taken[d])'
    BY <1>1, <1>2, <2>4, SendEndShare
  <2>5. QED BY <1>3, <2>1, <2>2, <2>3, <2>4, ServerCases
<1>4. CASE UNCHANGED vars \/ \E c \in Clients : Client(c) \/ Network(c)
  BY <1>1, <1>2, <1>4, OthersShare
<1>5. QED BY <1>3, <1>4 DEF Next

(* The invariant of the streams, inductive with the type invariant.        *)
StreamInv == BufferFresh /\ EchoInOrder /\ LossOnlyWhenShort

LEMMA StreamsCorrect == Spec => [](TypeOK /\ StreamInv)
<1>1. Init => StreamInv
  <2> SUFFICES ASSUME Init PROVE StreamInv OBVIOUS
  <2>1. /\ pc = "socket" /\ taken = [c \in Clients |-> 0]
        /\ echoed = [c \in Clients |-> <<>>]
    BY DEF Init, StackInit, ServerInit
  <2>2. BufferFresh BY <2>1 DEF BufferFresh
  <2>3. EchoInOrder BY <2>1 DEF EchoInOrder
  <2>4. LossOnlyWhenShort BY <2>1 DEF LossOnlyWhenShort, Pending
  <2>5. QED BY <2>2, <2>3, <2>4 DEF StreamInv
<1>2. TypeOK /\ TypeOK' /\ StreamInv /\ [Next]_vars => StreamInv'
  BY BufferFreshStep, EchoInOrderStep, LossOnlyWhenShortStep DEF StreamInv
<1>3. QED BY <1>1, <1>2, TypeCorrect, PTL DEF Spec

(* For any set of clients, what is echoed to a client is its own data, in  *)
(* order and without repetition.                                           *)
THEOREM EchoesInOrder == Spec => []EchoInOrder
<1>1. StreamInv => EchoInOrder BY DEF StreamInv
<1>2. QED BY <1>1, StreamsCorrect, PTL

(* For any set of clients, only a short send loses data.                   *)
THEOREM LosesOnlyWhenShort == Spec => []LossOnlyWhenShort
<1>1. StreamInv => LossOnlyWhenShort BY DEF StreamInv
<1>2. QED BY <1>1, StreamsCorrect, PTL
-------------------------------------------------------------------------------
(* The refinement: RecvData consumes, SendUnit puts out, and every other   *)
(* step of the system leaves the abstract state alone.                     *)
LEMMA ServiceStep ==
  ASSUME TypeOK, StreamInv, [Next]_vars
  PROVE  [Service!Next]_<<taken, echoed>>
<1> USE DEF StreamInv
<1>1. CASE Server
  <2>1. CASE ServerElsewhere BY <2>1, ElsewhereLeavesStreams
  <2>2. ASSUME NEW c \in Clients, NEW n \in 1 .. BufSize, RecvData(c, n)
        PROVE  Service!Next
    <3>1. echoed' = echoed /\ taken' = [taken EXCEPT ![c] = @ + n]
      BY <2>2 DEF RecvData
    <3>2. taken[c] \in Nat /\ n \in Nat \ {0} /\ taken'[c] = taken[c] + n
      BY <3>1, SystemAssumption DEF TypeOK, StackTypeOK
    <3>3. taken' = [taken EXCEPT ![c] = taken'[c]]
      BY <3>1, <3>2
    <3>4. Service!Consume(c) BY <3>1, <3>2, <3>3 DEF Service!Consume
    <3>5. QED BY <3>4 DEF Service!Next
  <2>3. ASSUME NEW c \in Clients, SendUnit(c) PROVE Service!Next
    <3> DEFINE new == taken[c] - Pending(c) + 1
    <3>1. taken' = taken /\ echoed'[c] = Append(echoed[c], <<c, new>>)
      BY <2>3, SendUnitShare
    <3>2. echoed' = [echoed EXCEPT ![c] = Append(@, <<c, new>>)]
      <4>1. echoed' = [echoed EXCEPT ![c] = Append(@, rxBuffer[sent])]
        BY <2>3 DEF SendUnit, QueueCell
      <4>2. QED BY <3>1, <4>1 DEF TypeOK, StackTypeOK
    <3>3. /\ Pending(c) \in Int /\ taken[c] \in Nat /\ echoed[c] \in Seq(Cell)
          /\ Pending(c) >= 1
      <4>1. /\ pc = "send" /\ xClientSocket = c /\ sent < xRx
            /\ sent \in Int /\ xRx \in Int
        BY <2>3 DEF SendUnit, SendLen, TypeOK, ServerTypeOK, Index
      <4>2. Pending(c) >= 1 BY <4>1 DEF Pending
      <4>3. QED BY <4>2, PendingType
    <3>4. Service!LastUnit(c) \in Int /\ Service!LastUnit(c) <= new - 1
      <4>1. CASE echoed[c] = <<>>
        <5>1. Service!LastUnit(c) = 0 BY <4>1 DEF Service!LastUnit
        <5>2. xRx <= taken[c] /\ Pending(c) = xRx - sent /\ sent >= 0
              /\ sent \in Int /\ xRx \in Int
          BY <2>3 DEF SendUnit, BufferFresh, Pending, TypeOK, ServerTypeOK, Index
        <5>3. QED BY <3>3, <5>1, <5>2
      <4>2. CASE echoed[c] # <<>>
        <5>1. Len(echoed[c]) \in DOMAIN echoed[c] BY <3>3, <4>2
        <5>2. PICK u \in 1 .. taken[c] - Pending(c) :
                echoed[c][Len(echoed[c])] = <<c, u>>
          BY <5>1 DEF EchoInOrder
        <5>3. Service!LastUnit(c) = u BY <4>2, <5>2 DEF Service!LastUnit
        <5>4. QED BY <3>3, <5>3
      <4>3. QED BY <4>1, <4>2
    <3>5. new \in Service!LastUnit(c) + 1 .. taken[c] BY <3>3, <3>4
    <3>6. Service!PutOut(c) BY <3>1, <3>2, <3>5 DEF Service!PutOut
    <3>7. QED BY <3>6 DEF Service!Next
  <2>4. ASSUME NEW c \in Clients, SendComplete(c) \/ SendShort(c)
        PROVE  UNCHANGED <<taken, echoed>>
    BY <2>4 DEF SendComplete, SendShort, SendReturns, stackVars
  <2>5. QED BY <1>1, <2>1, <2>2, <2>3, <2>4, ServerCases
<1>2. CASE UNCHANGED vars \/ \E c \in Clients : Client(c) \/ Network(c)
  BY <1>2, OthersLeaveStreams DEF vars, stackVars
<1>3. QED BY <1>1, <1>2 DEF Next

(* The server as coded implements the echo service, whatever its buffer    *)
(* sizes, its clients and the network do.                                  *)
THEOREM Implementation == Spec => ImplementsEchoService
<1>1. Init => Service!Init BY DEF Init, StackInit, Service!Init
<1>2. TypeOK /\ StreamInv /\ [Next]_vars => [Service!Next]_<<taken, echoed>>
  BY ServiceStep
<1>3. QED BY <1>1, <1>2, StreamsCorrect, PTL
          DEF Spec, ImplementsEchoService, Service!Spec
-------------------------------------------------------------------------------
(* Sockets.  A child socket exists for a connection that was made, and the *)
(* backlog is a part of the children.                                      *)
SocketInv ==
  /\ NoSocketLeak
  /\ backlog \subseteq children
  /\ \A c \in children : link[c] # "absent"

LEMMA SocketStep ==
  ASSUME TypeOK, SocketInv, [Next]_vars
  PROVE  SocketInv'
<1> USE SystemAssumption DEF SocketInv, NoSocketLeak
<1>1. CASE Server
  <2>1. CASE CreateSocket BY <2>1 DEF CreateSocket, stackVars
  <2>2. CASE Halted BY <2>2 DEF Halted, stackVars, taskVars
  <2>3. CASE BindAndListen BY <2>3 DEF BindAndListen
  <2>4. CASE AcceptTimeout BY <2>4 DEF AcceptTimeout, AcceptReturns, stackVars
  <2>5. CASE AcceptInvalid BY <2>5 DEF AcceptInvalid, AcceptReturns, stackVars
  <2>6. CASE RecvNull BY <2>6 DEF RecvNull, RecvFails, stackVars
  <2>7. CASE Close
    BY <2>7 DEF Close, CloseSocket, CloseServerEnd, TypeOK, StackTypeOK
  <2>8. ASSUME NEW c \in Clients, Serve(c) PROVE SocketInv'
    <3>1. CASE AcceptClient(c) BY <3>1 DEF AcceptClient, AcceptReturns
    <3>2. ASSUME NEW n \in 1 .. BufSize, RecvData(c, n) PROVE SocketInv'
      BY <3>2 DEF RecvData
    <3>3. CASE RecvClosed(c) BY <3>3 DEF RecvClosed, RecvFails, stackVars
    <3>4. CASE RecvTimeout(c) BY <3>4 DEF RecvTimeout, RecvFails, stackVars
    <3>5. CASE SendUnit(c)
      BY <3>5 DEF SendUnit, QueueCell, TypeOK, StackTypeOK
    <3>6. CASE SendComplete(c)
      BY <3>6 DEF SendComplete, SendReturns, stackVars
    <3>7. CASE SendShort(c) BY <3>7 DEF SendShort, SendReturns, stackVars
    <3>8. QED BY <2>8, <3>1, <3>2, <3>3, <3>4, <3>5, <3>6, <3>7 DEF Serve
  <2>9. QED BY <1>1, <2>1, <2>2, <2>3, <2>4, <2>5, <2>6, <2>7, <2>8
            DEF Server, ServerNext
<1>2. ASSUME NEW c \in Clients, Client(c) PROVE SocketInv'
  <2>1. UNCHANGED taskVars BY <1>2 DEF Client
  <2>2. CASE Connect(c)
    BY <2>1, <2>2 DEF Connect, Handshake, taskVars, TypeOK, StackTypeOK
  <2>3. CASE UNCHANGED <<children, backlog, link>>
    BY <2>1, <2>3 DEF taskVars
  <2>4. CASE Quit(c)
    BY <2>1, <2>4 DEF Quit, CloseClientEnd, ForgetUnaccepted, taskVars, TypeOK,
                      StackTypeOK
  <2>5. QED
    BY <1>2, <2>2, <2>3, <2>4
       DEF Client, ClientNext, ClientRuns, ConnectFails, Select, SockEnd, Kill,
           SockRecv, StdinRead, ClientSendUnit, ClientSendReturns, stackVars
<1>3. ASSUME NEW c \in Clients, Network(c) PROVE SocketInv'
  BY <1>3 DEF Network, LinkLost, ForgetUnaccepted, taskVars, TypeOK, StackTypeOK
<1>4. CASE UNCHANGED vars BY <1>4 DEF vars, stackVars, taskVars
<1>5. QED BY <1>1, <1>2, <1>3, <1>4 DEF Next

(* For any set of clients and any backlog, no child socket is leaked.      *)
THEOREM SocketsNotLeaked == Spec => []NoSocketLeak
<1>1. Init => SocketInv
  BY DEF Init, StackInit, ServerInit, SocketInv, NoSocketLeak
<1>2. TypeOK /\ SocketInv /\ [Next]_vars => SocketInv' BY SocketStep
<1>3. SocketInv => NoSocketLeak BY DEF SocketInv
<1>4. QED BY <1>1, <1>2, <1>3, TypeCorrect, PTL DEF Spec
===============================================================================
