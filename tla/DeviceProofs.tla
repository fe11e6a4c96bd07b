------------------------------ MODULE DeviceProofs -----------------------------
(***************************************************************************)
(* Proofs about what interleaves below the tasks: exclusive accesses, the  *)
(* debugger's terminal, the console, and the regions of the memory         *)
(* protection unit.                                                        *)
(***************************************************************************)
EXTENDS ExclusiveAccess, DebugChannel, Console, MemoryProtection, Arithmetic

(* Exclusive accesses.  While a store would be done, the context that runs *)
(* holds what is in memory.                                                *)
CounterInv ==
  /\ counter \in 0 .. CounterRange - 1 /\ stored \in Nat
  /\ running \in Contexts
  /\ loaded \in [Contexts -> Nat]
  /\ exclusive \in BOOLEAN
  /\ exclusive => loaded[running] = counter
  /\ NoLostUpdate

LEMMA CounterStart ==
  ASSUME CounterInit
  PROVE  CounterInv
<1>1. CounterRange \in Nat \ {0} BY ExclusiveAssumption DEF ExclusiveAssumption
<1>2. 0 % CounterRange = 0
  <2>1. 0 = CounterRange * 0 + 0 BY <1>1
  <2>2. QED BY <1>1, <2>1, Remainder
<1>3. 0 \in 0 .. CounterRange - 1 BY <1>1
<1>4. NoLostUpdate BY <1>2 DEF CounterInit, NoLostUpdate
<1>5. QED BY <1>3, <1>4 DEF CounterInit, CounterInv

LEMMA CounterStep ==
  ASSUME CounterInv, [CounterNext]_counterVars
  PROVE  CounterInv'
<1> USE DEF CounterInv, NoLostUpdate
<1>1. CounterRange \in Nat \ {0} BY ExclusiveAssumption DEF ExclusiveAssumption
<1>2. CASE LDREX BY <1>2 DEF LDREX
<1>3. CASE STREX
  <2>1. CASE Stored
    <3>1. /\ counter' = (counter + 1) % CounterRange /\ stored' = stored + 1
          /\ exclusive' = FALSE /\ UNCHANGED <<running, loaded>>
      BY <1>3, <2>1 DEF STREX, Stored
    <3>2. counter = stored % CounterRange /\ stored \in Int /\ stored + 1 \in Nat OBVIOUS
    <3>3. counter' = (stored + 1) % CounterRange BY <1>1, <3>1, <3>2, Successors
    <3>4. (stored + 1) % CounterRange \in 0 .. CounterRange - 1 BY <1>1, <3>2, Division
    <3>5. NoLostUpdate' BY <3>1, <3>3
    <3>6. QED BY <3>1, <3>2, <3>3, <3>4, <3>5
  <2>2. CASE ~Stored BY <1>3, <2>2 DEF STREX
  <2>3. QED BY <2>1, <2>2
<1>4. CASE CLREX BY <1>4 DEF CLREX
<1>5. CASE SwitchContext BY <1>5 DEF SwitchContext
<1>6. CASE UNCHANGED counterVars BY <1>6 DEF counterVars
<1>7. QED BY <1>2, <1>3, <1>4, <1>5, <1>6 DEF CounterNext

LEMMA CounterSafe == CounterSpec => []CounterInv
BY CounterStart, CounterStep, PTL DEF CounterSpec

(* Whatever the contexts, however they interrupt one another and however   *)
(* often the counter has wrapped: it shows every increment that STREX      *)
(* reported as done.                                                       *)
THEOREM UpdatesAreKept == CounterSpec => []NoLostUpdate
<1>1. CounterInv => NoLostUpdate BY DEF CounterInv
<1>2. QED BY <1>1, CounterSafe, PTL
-------------------------------------------------------------------------------
(* The debugger's terminal, to the program.  While ITM_ReceiveChar() holds *)
(* a character it is still in the buffer, so none is typed over it.        *)
InputInv ==
  /\ typed \in Nat /\ ITM_RxBuffer \in Nat /\ ch \in Int
  /\ received \in Seq(Nat)
  /\ receiver \in {"idle", "full", "taken"}
  /\ ITM_RxBuffer # ITM_RXBUFFER_EMPTY => ITM_RxBuffer = typed
  /\ receiver # "idle" => ITM_RxBuffer # ITM_RXBUFFER_EMPTY
  /\ receiver = "taken" => ch = ITM_RxBuffer
  /\ TypedIsReceived

(* And from it.  Characters get into the port in their order, and only     *)
(* into an empty one.                                                      *)
OutputInv ==
  /\ sent \in Nat /\ port \in 0 .. sent
  /\ displayed \in Seq(1 .. sent) /\ dropped \subseteq 1 .. sent
  /\ sender \in {"idle", "wait", "write"}
  /\ sender # "idle" => sent \notin dropped /\ sent > 0 /\ port # sent
  /\ sender # "idle" => \A i \in 1 .. Len(displayed) : displayed[i] < sent
  /\ sender = "write" => port = 0
  /\ port # 0 => \A i \in 1 .. Len(displayed) : displayed[i] < port
  /\ port \notin dropped
  /\ SentIsDisplayed

LEMMA InputStep ==
  ASSUME InputInv, InputNext
  PROVE  InputInv'
<1> USE DEF InputInv, TypedIsReceived, ITM_CheckChar, ITM_RXBUFFER_EMPTY
<1>1. CASE FindChar BY <1>1 DEF FindChar
<1>2. CASE TakeChar BY <1>2 DEF TakeChar
<1>3. CASE EmptyBuffer
  <2>1. /\ ITM_RxBuffer' = 0 /\ received' = Append(received, ch) /\ receiver' = "idle"
        /\ UNCHANGED <<ch, typed>>
    BY <1>3 DEF EmptyBuffer
  <2>2. ch = typed /\ typed = Len(received) + 1 BY <1>3 DEF EmptyBuffer
  <2>3. /\ received' \in Seq(Nat) /\ Len(received') = Len(received) + 1
        /\ \A i \in 1 .. Len(received') :
             received'[i] = IF i = Len(received) + 1 THEN ch ELSE received[i]
    BY <2>1, <2>2
  <2>4. QED BY <2>1, <2>2, <2>3
<1>4. CASE Type BY <1>4 DEF Type
<1>5. QED BY <1>1, <1>2, <1>3, <1>4 DEF InputNext

LEMMA OutputStep ==
  ASSUME OutputInv, OutputNext
  PROVE  OutputInv'
<1> USE DEF OutputInv, SentIsDisplayed
<1>1. CASE SendUnbooked
  <2>1. /\ sender = "idle" /\ sent' = sent + 1 /\ dropped' = dropped \cup {sent + 1}
        /\ UNCHANGED <<port, sender, displayed>>
    BY <1>1 DEF SendUnbooked
  <2>2. displayed' \in Seq(1 .. sent') BY <2>1
  <2>3. \A i \in 1 .. Len(displayed) : displayed[i] \in 1 .. sent OBVIOUS
  <2>4. QED BY <2>1, <2>2, <2>3
<1>2. CASE SendBooked
  <2>1. /\ sender = "idle" /\ sender' = "wait" /\ sent' = sent + 1
        /\ UNCHANGED <<port, dropped, displayed>>
    BY <1>2 DEF SendBooked
  <2>2. displayed' \in Seq(1 .. sent') BY <2>1
  <2>3. \A i \in 1 .. Len(displayed) : displayed[i] \in 1 .. sent OBVIOUS
  <2>4. QED BY <2>1, <2>2, <2>3
<1>3. CASE FindPortFree BY <1>3 DEF FindPortFree, PortFree
<1>4. CASE WritePort BY <1>4 DEF WritePort
<1>5. CASE Book BY <1>5 DEF Book
<1>6. CASE Display
  <2>1. /\ port # 0 /\ displayed' = Append(displayed, port) /\ port' = 0
        /\ UNCHANGED <<sender, sent, dropped>>
    BY <1>6 DEF Display
  <2>2. /\ displayed' \in Seq(1 .. sent) /\ Len(displayed') = Len(displayed) + 1
        /\ \A i \in 1 .. Len(displayed') :
             displayed'[i] = IF i = Len(displayed) + 1 THEN port ELSE displayed[i]
    BY <2>1
  <2>3. \A i \in 1 .. Len(displayed) : displayed[i] \in 1 .. sent OBVIOUS
  <2>4. \A i, j \in 1 .. Len(displayed') : i < j => displayed'[i] < displayed'[j]
    <3>1. TAKE i, j \in 1 .. Len(displayed')
    <3>2. HAVE i < j
    <3>3. displayed'[i] = displayed[i] /\ i \in 1 .. Len(displayed)
      <4>1. i < Len(displayed) + 1 /\ i \in 1 .. Len(displayed)
        BY <2>2, <3>2, SMTT(30)
      <4>2. QED BY <2>2, <4>1
    <3>4. CASE j = Len(displayed) + 1
      <4>1. displayed'[j] = port BY <2>2, <3>4
      <4>2. displayed[i] < port BY <2>1, <3>3
      <4>3. QED BY <3>3, <4>1, <4>2
    <3>5. CASE j # Len(displayed) + 1
      <4>1. displayed'[j] = displayed[j] /\ j \in 1 .. Len(displayed) BY <2>2, <3>5
      <4>2. displayed[i] < displayed[j] BY <3>2, <3>3, <4>1
      <4>3. QED BY <3>3, <4>1, <4>2
    <3>6. QED BY <3>4, <3>5
  <2>5. \A c \in 1 .. sent' :
          \/ c \in dropped'
          \/ \E i \in 1 .. Len(displayed') : displayed'[i] = c
          \/ port' = c
          \/ c = sent' /\ sender' # "idle"
    BY <2>1, <2>2
  <2>6. \A i \in 1 .. Len(displayed') : displayed'[i] \notin dropped' \cup {port'}
    BY <2>1, <2>2, <2>3
  <2>7. sender # "idle" => \A i \in 1 .. Len(displayed') : displayed'[i] < sent
    BY <2>1, <2>2
  <2>8. 0 \notin dropped OBVIOUS
  <2>9. port' \in 0 .. sent /\ (sender # "idle" => port' # sent) BY <2>1
  <2>10. displayed' \in Seq(1 .. sent') BY <2>1, <2>2
  <2>11. SentIsDisplayed' BY <2>4, <2>5, <2>6
  <2>12. QED BY <2>1, <2>7, <2>8, <2>9, <2>10, <2>11
<1>7. QED BY <1>1, <1>2, <1>3, <1>4, <1>5, <1>6 DEF OutputNext

LEMMA ChannelSafe == ChannelSpec => [](InputInv /\ OutputInv)
<1>1. ChannelInit => InputInv
  BY DEF ChannelInit, InputInv, TypedIsReceived, ITM_CheckChar, ITM_RXBUFFER_EMPTY
<1>2. ChannelInit => OutputInv BY DEF ChannelInit, OutputInv, SentIsDisplayed
<1>3. InputInv /\ UNCHANGED input => InputInv'
  BY DEF input, InputInv, TypedIsReceived, ITM_CheckChar
<1>4. OutputInv /\ UNCHANGED output => OutputInv'
  BY DEF output, OutputInv, SentIsDisplayed
<1>5. InputInv /\ OutputInv /\ [ChannelNext]_channelVars => InputInv' /\ OutputInv'
  BY <1>3, <1>4, InputStep, OutputStep DEF ChannelNext, channelVars
<1>6. QED BY <1>1, <1>2, <1>5, PTL DEF ChannelSpec

(* For any number of characters and any interleaving of the program with   *)
(* the debugger, every character that is typed is received and every one   *)
(* that is sent after the output was booked is displayed, in order.        *)
THEOREM CharactersAreKept == ChannelSpec => []CharactersKept
<1>1. InputInv /\ OutputInv => CharactersKept BY DEF InputInv, OutputInv, CharactersKept
<1>2. QED BY <1>1, ChannelSafe, PTL
-------------------------------------------------------------------------------
(* The console.  What is in the UART is the last character of its task so  *)
(* far; when it is overrun, exactly that one is missing.                   *)
Chars == Printers \X Nat
Before(c, d) == c[1] = d[1] => c[2] < d[2]
Shown == {shown[i] : i \in 1 .. Len(shown)}
Kept == Shown \cup (IF "TXBF" \in STATUS THEN {DATA} ELSE {})

ConsoleInv ==
  /\ todo \in [Printers -> Nat] /\ result \in [Printers -> Int]
  /\ BAUDDIV \in {0, 16}
  /\ BAUDDIV = 16 => UART_CTRL_TX_EN \in CTRL
  /\ \A t \in Printers : result[t] = -1 \/ (result[t] = len[t] /\ todo[t] = len[t])
  /\ shown \in Seq(Chars)
  /\ \A i, j \in 1 .. Len(shown) : i < j => Before(shown[i], shown[j])
  /\ "TXBF" \in STATUS => DATA \in Chars /\ \A c \in Shown : Before(c, DATA)
  /\ Kept \subseteq StoredChars
  /\ "TXOR" \notin STATUS <=> StoredChars \subseteq Kept
  /\ prompt => "TXOR" \notin STATUS

LEMMA CharStored ==
  ASSUME ConsoleInv, NEW t \in Printers, StoreChar(t)
  PROVE  /\ StoredChars' = StoredChars \cup {<<t, todo[t] + 1>>}
         /\ <<t, todo[t] + 1>> \in Chars \ StoredChars
         /\ \A c \in StoredChars : c \in Chars /\ Before(c, <<t, todo[t] + 1>>)
         /\ todo' \in [Printers -> Nat]
<1>1. todo \in [Printers -> Nat] /\ todo' = [todo EXCEPT ![t] = @ + 1]
  BY DEF ConsoleInv, StoreChar
<1>2. \A c : c \in StoredChars <=> \E u \in Printers : \E i \in 1 .. todo[u] : c = <<u, i>>
  BY DEF StoredChars
<1>3. \A c : c \in StoredChars' <=> \E u \in Printers : \E i \in 1 .. todo'[u] : c = <<u, i>>
  BY DEF StoredChars
<1>4. \A u \in Printers : u # t => todo'[u] = todo[u] BY <1>1
<1>5. todo'[t] = todo[t] + 1 /\ todo[t] \in Nat BY <1>1
<1>6. \A i : i \in 1 .. todo'[t] <=> i \in 1 .. todo[t] \/ i = todo[t] + 1 BY <1>5
<1>7. \A c : c \in StoredChars' <=> c \in StoredChars \/ c = <<t, todo[t] + 1>>
  BY <1>2, <1>3, <1>4, <1>6
<1>8. \A c \in StoredChars : c \in Chars /\ Before(c, <<t, todo[t] + 1>>)
  <2>1. TAKE c \in StoredChars
  <2>2. PICK u \in Printers : \E i \in 1 .. todo[u] : c = <<u, i>> BY <1>2
  <2>3. PICK i \in 1 .. todo[u] : c = <<u, i>> BY <2>2
  <2>4. todo[u] \in Nat BY <1>1
  <2>5. i \in Nat /\ (u = t => i < todo[t] + 1) BY <2>4, <1>5
  <2>6. QED BY <2>3, <2>5 DEF Before, Chars
<1>9. ~Before(<<t, todo[t] + 1>>, <<t, todo[t] + 1>>) BY <1>5 DEF Before
<1>10. QED BY <1>1, <1>5, <1>7, <1>8, <1>9 DEF Chars

LEMMA ConsoleStep ==
  ASSUME ConsoleInv, [ConsoleNext]_consoleVars
  PROVE  ConsoleInv'
<1>1. CASE UNCHANGED consoleVars
  <2>1. Kept' = Kept /\ Shown' = Shown /\ StoredChars' = StoredChars
    BY <1>1 DEF consoleVars, Kept, Shown, StoredChars
  <2>2. QED BY <1>1, <2>1 DEF consoleVars, ConsoleInv
<1>2. CASE uart_init
  <2>1. Kept' = Kept /\ Shown' = Shown /\ StoredChars' = StoredChars
    BY <1>2 DEF uart_init, Kept, Shown, StoredChars
  <2>2. BAUDDIV' = 16 /\ UART_CTRL_TX_EN \in CTRL' BY <1>2 DEF uart_init, Enables
  <2>3. UNCHANGED <<STATUS, DATA, todo, result, shown, prompt>> BY <1>2 DEF uart_init
  <2>4. QED BY <2>1, <2>2, <2>3 DEF ConsoleInv
<1>3. CASE TerminalTakes
  <2>1. /\ "TXBF" \in STATUS /\ STATUS' = STATUS \ {"TXBF"}
        /\ shown' = Append(shown, DATA)
        /\ UNCHANGED <<CTRL, BAUDDIV, DATA, todo, result, prompt>>
    BY <1>3 DEF TerminalTakes, Sends
  <2>2. shown \in Seq(Chars) /\ DATA \in Chars BY <2>1 DEF ConsoleInv
  <2>3. /\ shown' \in Seq(Chars) /\ Len(shown') = Len(shown) + 1 /\ Len(shown) \in Nat
        /\ \A i \in 1 .. Len(shown) : shown'[i] = shown[i]
        /\ shown'[Len(shown) + 1] = DATA
    BY <2>1, <2>2
  <2>4. \A i \in 1 .. Len(shown') : i \in 1 .. Len(shown) \/ i = Len(shown) + 1
    BY <2>3
  <2>5. \A i \in 1 .. Len(shown) : i \in 1 .. Len(shown') BY <2>3
  <2>6. Len(shown) + 1 \in 1 .. Len(shown') BY <2>3
  <2>7. Shown' = Shown \cup {DATA} BY <2>3, <2>4, <2>5, <2>6 DEF Shown
  <2>8. Kept' = Kept BY <2>1, <2>7 DEF Kept
  <2>9. \A i, j \in 1 .. Len(shown') : i < j => Before(shown'[i], shown'[j])
    <3>1. TAKE i, j \in 1 .. Len(shown')
    <3>2. HAVE i < j
    <3>3. i \in 1 .. Len(shown) /\ shown'[i] = shown[i] BY <2>3, <2>4, <3>2
    <3>4. CASE j = Len(shown) + 1 BY <2>1, <2>3, <3>3, <3>4 DEF ConsoleInv, Shown
    <3>5. CASE j # Len(shown) + 1
      <4>1. j \in 1 .. Len(shown) /\ shown'[j] = shown[j] BY <2>3, <2>4, <3>5
      <4>2. QED BY <3>2, <3>3, <4>1 DEF ConsoleInv
    <3>6. QED BY <3>4, <3>5
  <2>10. StoredChars' = StoredChars BY <2>1 DEF StoredChars
  <2>11. QED BY <2>1, <2>3, <2>8, <2>9, <2>10 DEF ConsoleInv
<1>4. CASE \E t \in Printers : StoreChar(t)
  <2>1. PICK t \in Printers : StoreChar(t) BY <1>4
  <2> DEFINE c == <<t, todo[t] + 1>>
  <2>2. /\ StoredChars' = StoredChars \cup {c} /\ c \in Chars \ StoredChars
        /\ \A d \in StoredChars : d \in Chars /\ Before(d, c)
        /\ todo' \in [Printers -> Nat]
    BY <2>1, CharStored
  <2>3. /\ Printing /\ todo[t] < len[t] /\ todo' = [todo EXCEPT ![t] = @ + 1]
        /\ DATA' = c
        /\ STATUS' = STATUS \cup {IF "TXBF" \in STATUS THEN "TXOR" ELSE "TXBF"}
        /\ UNCHANGED <<CTRL, BAUDDIV, result, shown, prompt>>
    BY <2>1 DEF StoreChar
  <2> HIDE DEF c
  <2>4. /\ "TXBF" \in STATUS' /\ Shown' = Shown /\ Kept' = Shown \cup {c}
        /\ "TXOR" \in STATUS' <=> "TXOR" \in STATUS \/ "TXBF" \in STATUS
    BY <2>3 DEF Shown, Kept
  <2>5. Shown \subseteq Kept /\ Kept \subseteq StoredChars BY DEF Kept, ConsoleInv
  <2>6. DATA' \in Chars /\ \A d \in Shown' : Before(d, DATA')
    BY <2>2, <2>3, <2>4, <2>5
  <2>7. Kept' \subseteq StoredChars' BY <2>2, <2>4, <2>5
  <2>8. "TXOR" \notin STATUS' <=> StoredChars' \subseteq Kept'
    <3>1. CASE "TXBF" \notin STATUS
      <4>1. Kept' = Kept \cup {c} BY <2>4, <3>1 DEF Kept
      <4>2. QED BY <2>2, <2>4, <2>5, <3>1, <4>1 DEF ConsoleInv
    <3>2. CASE "TXBF" \in STATUS
      <4>1. DATA \in Kept /\ DATA \in Chars BY <3>2 DEF Kept, ConsoleInv
      <4>2. DATA \in StoredChars' /\ DATA # c BY <2>2, <2>5, <4>1
      <4>3. DATA \notin Shown
        <5>1. SUFFICES ASSUME DATA \in Shown PROVE FALSE OBVIOUS
        <5>2. Before(DATA, DATA) BY <3>2, <5>1 DEF ConsoleInv
        <5>3. QED BY <4>1, <5>2 DEF Before, Chars
      <4>4. DATA \notin Kept' BY <2>4, <4>2, <4>3
      <4>5. QED BY <2>4, <3>2, <4>2, <4>4
    <3>3. QED BY <3>1, <3>2
  <2>9. prompt' => "TXOR" \notin STATUS'
    <3>1. SUFFICES ASSUME prompt PROVE "TXOR" \notin STATUS' BY <2>3
    <3>2. BAUDDIV = 16 /\ ~Sends BY <2>3, <3>1 DEF Printing, ConsoleInv
    <3>3. "TXBF" \notin STATUS BY <3>2 DEF Sends, ConsoleInv
    <3>4. QED BY <2>4, <3>1, <3>3 DEF ConsoleInv
  <2>10. \A u \in Printers : result'[u] = -1 \/ (result'[u] = len[u] /\ todo'[u] = len[u])
    <3>1. TAKE u \in Printers
    <3>2. CASE u = t
      <4>1. len[t] \in Nat /\ todo[t] \in Nat
        BY ConsoleAssumption DEF ConsoleAssumption, ConsoleInv
      <4>2. QED BY <2>3, <3>2, <4>1 DEF ConsoleInv
    <3>3. CASE u # t BY <2>3, <3>3 DEF ConsoleInv
    <3>4. QED BY <3>2, <3>3
  <2>11. QED BY <2>2, <2>3, <2>6, <2>7, <2>8, <2>9, <2>10 DEF ConsoleInv
<1>5. CASE \E t \in Printers : WriteReturns(t)
  <2>1. PICK t \in Printers : WriteReturns(t) BY <1>5
  <2>2. /\ todo[t] = len[t] /\ result' = [result EXCEPT ![t] = len[t]]
        /\ UNCHANGED <<CTRL, BAUDDIV, STATUS, DATA, todo, shown, prompt>>
    BY <2>1 DEF WriteReturns
  <2>3. len[t] \in Int BY ConsoleAssumption DEF ConsoleAssumption
  <2>4. result' \in [Printers -> Int] BY <2>2, <2>3 DEF ConsoleInv
  <2>5. \A u \in Printers : result'[u] = -1 \/ (result'[u] = len[u] /\ todo[u] = len[u])
    BY <2>2 DEF ConsoleInv
  <2>6. Kept' = Kept /\ Shown' = Shown /\ StoredChars' = StoredChars
    BY <2>2 DEF Kept, Shown, StoredChars
  <2>7. QED BY <2>2, <2>4, <2>5, <2>6 DEF ConsoleInv
<1>6. QED BY <1>1, <1>2, <1>3, <1>4, <1>5 DEF ConsoleNext

LEMMA ConsoleSafe == ConsoleSpec => []ConsoleInv
<1>1. ASSUME ConsoleInit PROVE ConsoleInv
  <2>1. /\ shown \in Seq(Chars) /\ Len(shown) = 0 /\ STATUS = {}
        /\ todo \in [Printers -> Nat] /\ \A t \in Printers : todo[t] = 0
    BY <1>1 DEF ConsoleInit
  <2>2. Kept = {} BY <2>1 DEF Kept, Shown
  <2>3. StoredChars = {} BY <2>1 DEF StoredChars
  <2>4. result \in [Printers -> Int] /\ \A t \in Printers : result[t] = -1
    BY <1>1 DEF ConsoleInit
  <2>5. \A i, j \in 1 .. Len(shown) : FALSE BY <2>1
  <2>6. BAUDDIV = 0 BY <1>1 DEF ConsoleInit
  <2>7. QED BY <2>1, <2>2, <2>3, <2>4, <2>5, <2>6 DEF ConsoleInv
<1>2. QED BY <1>1, ConsoleStep, PTL DEF ConsoleSpec

LEMMA KeptIsShown ==
  ASSUME ConsoleInv
  PROVE  ToSet(KeptChars) = Kept /\ CharsInOrder
<1> DEFINE rest == IF "TXBF" \in STATUS THEN <<DATA>> ELSE <<>>
<1>1. shown \in Seq(Chars) /\ rest \in Seq(Chars) BY DEF ConsoleInv
<1>2. KeptChars = shown \o rest BY DEF KeptChars
<1>3. CASE "TXBF" \notin STATUS
  <2>1. KeptChars = shown BY <1>1, <1>2, <1>3
  <2>2. DOMAIN KeptChars = 1 .. Len(shown) BY <1>1, <2>1
  <2>3. ToSet(KeptChars) = Kept BY <1>3, <2>1, <2>2 DEF ToSet, Kept, Shown
  <2>4. CharsInOrder BY <2>1, <2>2 DEF CharsInOrder, ConsoleInv, Before
  <2>5. QED BY <2>3, <2>4
<1>4. CASE "TXBF" \in STATUS
  <2>1. KeptChars = shown \o <<DATA>> /\ DATA \in Chars BY <1>2, <1>4 DEF ConsoleInv
  <2>2. /\ DOMAIN KeptChars = 1 .. Len(shown) + 1 /\ Len(shown) \in Nat
        /\ \A i \in 1 .. Len(shown) : KeptChars[i] = shown[i]
        /\ KeptChars[Len(shown) + 1] = DATA
    BY <1>1, <2>1
  <2>3. \A i : i \in DOMAIN KeptChars <=> i \in 1 .. Len(shown) \/ i = Len(shown) + 1
    BY <2>2
  <2>4. ToSet(KeptChars) = Kept BY <1>4, <2>2, <2>3 DEF ToSet, Kept, Shown
  <2>5. CharsInOrder
    <3>1. SUFFICES ASSUME NEW i \in DOMAIN KeptChars, NEW j \in DOMAIN KeptChars, i < j
                   PROVE  Before(KeptChars[i], KeptChars[j])
      BY DEF CharsInOrder, Before
    <3>2. i \in 1 .. Len(shown) BY <2>2, <2>3, <3>1
    <3>3. CASE j \in 1 .. Len(shown) BY <2>2, <3>1, <3>2, <3>3 DEF ConsoleInv
    <3>4. CASE j = Len(shown) + 1 BY <1>4, <2>2, <3>2, <3>4 DEF ConsoleInv, Shown
    <3>5. QED BY <2>3, <3>3, <3>4
  <2>6. QED BY <2>4, <2>5
<1>5. QED BY <1>3, <1>4

(* Whatever tasks print, however long their lines are and however they     *)
(* interleave with one another and with the terminal: their characters     *)
(* appear in order, and one is missing only if the UART says so.           *)
THEOREM LinesArePrinted == ConsoleSpec => []LinesPrinted
<1>1. ASSUME ConsoleInv PROVE LinesPrinted
  <2>1. ToSet(KeptChars) = Kept /\ CharsInOrder BY <1>1, KeptIsShown
  <2>2. \A t \in Printers : result[t] \in {-1, todo[t]} BY <1>1 DEF ConsoleInv
  <2>3. /\ Kept \subseteq StoredChars
        /\ Kept = StoredChars <=> "TXOR" \notin STATUS
        /\ prompt => "TXOR" \notin STATUS
    BY <1>1 DEF ConsoleInv
  <2>4. QED BY <2>1, <2>2, <2>3 DEF LinesPrinted
<1>2. QED BY <1>1, ConsoleSafe, PTL
-------------------------------------------------------------------------------
(* The memory protection unit.  RNR selects the region of the row that is  *)
(* half written; the chunks change nothing about which words come next.    *)
RowsOf(t, r, n) == {j \in 1 .. n : t[j].RBAR.REGION = r}
Addresses(t) == [j \in DOMAIN t |-> t[j].RBAR.ADDR]
Attributes(t) == [j \in DOMAIN t |-> t[j].RASR]
Loaded(m, before, t, bases, attributes) ==
  \A r \in Regions :
    /\ ShowsLast(m.RBAR[r], before.RBAR[r], RowsOf(t, r, bases), Addresses(t))
    /\ ShowsLast(m.RASR[r], before.RASR[r], RowsOf(t, r, attributes), Attributes(t))

LoadInv ==
  /\ mpu \in MpuState
  /\ table \in Seq(ARM_MPU_Region_t)
  /\ skipped \in Nat /\ cnt \in Nat /\ words \in Nat
  /\ skipped + cnt = Len(table) /\ words <= Chunk * rowWordSize
  /\ words % 2 = 1 => mpu.RNR = table[skipped + words \div 2 + 1].RBAR.REGION
  /\ Loaded(mpu, found, table, skipped + (words + 1) \div 2, skipped + words \div 2)

LEMMA LastRow ==
  ASSUME NEW r \in Regions, NEW n \in Nat, NEW value, NEW before, NEW new,
         ShowsLast(value, before, RowsOf(table, r, n), new)
  PROVE  ShowsLast(IF table[n + 1].RBAR.REGION = r THEN new[n + 1] ELSE value,
                   before, RowsOf(table, r, n + 1), new)
<1>1. \A j : j \in 1 .. n + 1 <=> j \in 1 .. n \/ j = n + 1 OBVIOUS
<1>2. CASE table[n + 1].RBAR.REGION = r
  <2>1. n + 1 \in RowsOf(table, r, n + 1) /\ \A k \in RowsOf(table, r, n + 1) : k <= n + 1
    BY <1>1, <1>2 DEF RowsOf
  <2>2. QED BY <1>2, <2>1 DEF ShowsLast
<1>3. CASE table[n + 1].RBAR.REGION # r
  <2>1. RowsOf(table, r, n + 1) = RowsOf(table, r, n) BY <1>1, <1>3 DEF RowsOf
  <2>2. QED BY <1>3, <2>1
<1>4. QED BY <1>2, <1>3

LEMMA RowsAreLoaded ==
  ASSUME NEW bases, NEW attributes
  PROVE  RowsLoaded(bases, attributes) <=> Loaded(mpu, found, table, bases, attributes)
BY DEF RowsLoaded, Loaded, RowsOf, Addresses, Attributes

LEMMA LoadStep ==
  ASSUME LoadInv, [LoadNext]_loadVars
  PROVE  LoadInv'
<1>1. CASE UNCHANGED loadVars
  BY <1>1 DEF loadVars, LoadInv, Chunk
<1>2. CASE NextChunk
  <2>1. /\ words = 8 /\ cnt > 4 /\ words' = 0 /\ cnt' = cnt - 4 /\ skipped' = skipped + 4
        /\ UNCHANGED <<mpu, table, found>>
    BY <1>2 DEF NextChunk, Copied, Chunk, rowWordSize, MPU_TYPE_RALIASES
  <2>2. skipped' + (words' + 1) \div 2 = skipped + (words + 1) \div 2
        /\ skipped' + words' \div 2 = skipped + words \div 2
    BY <2>1 DEF LoadInv
  <2>3. Loaded(mpu', found', table', skipped' + (words' + 1) \div 2, skipped' + words' \div 2)
    BY <2>1, <2>2 DEF LoadInv
  <2>4. QED BY <2>1, <2>3 DEF LoadInv, Chunk, MPU_TYPE_RALIASES, rowWordSize
<1>3. CASE ARM_MPU_OrderedMemcpy
  <2> DEFINE n == skipped + words \div 2
             row == table[n + 1]
  <2>1. /\ words < Chunk * rowWordSize /\ words' = words + 1
        /\ mpu' = IF words % 2 = 0 THEN WriteRBAR(mpu, row.RBAR)
                                   ELSE WriteRASR(mpu, row.RASR)
        /\ UNCHANGED <<table, skipped, cnt, found>>
    BY <1>3 DEF ARM_MPU_OrderedMemcpy
  <2>2. /\ table \in Seq(ARM_MPU_Region_t) /\ mpu \in MpuState
        /\ skipped \in Nat /\ cnt \in Nat /\ words \in Nat /\ skipped + cnt = Len(table)
    BY DEF LoadInv
  <2>3. n \in Nat /\ n + 1 \in 1 .. Len(table)
    <3>1. words \div 2 < cnt BY <2>1, <2>2 DEF Chunk, MPU_TYPE_RALIASES, rowWordSize
    <3>2. QED BY <2>2, <3>1
  <2>4. row \in ARM_MPU_Region_t BY <2>2, <2>3
  <2> HIDE DEF n
  <2>5. words' <= Chunk' * rowWordSize /\ words' \in Nat BY <2>1, <2>2 DEF Chunk, MPU_TYPE_RALIASES, rowWordSize
  <2>6. CASE words % 2 = 0
    <3>1. (words + 1) \div 2 = words \div 2 /\ words' \div 2 = words \div 2
          /\ (words' + 1) \div 2 = words \div 2 + 1
      BY <2>1, <2>2, <2>6
    <3>2. mpu' = [mpu EXCEPT !.RNR = row.RBAR.REGION, !.RBAR[row.RBAR.REGION] = row.RBAR.ADDR]
      BY <2>1, <2>4, <2>6 DEF WriteRBAR, ARM_MPU_Region_t
    <3>3. row.RBAR.REGION \in Regions /\ row.RBAR.ADDR \in Nat
      BY <2>4 DEF ARM_MPU_Region_t
    <3>4. /\ mpu' \in MpuState /\ mpu'.RNR = row.RBAR.REGION /\ mpu'.RASR = mpu.RASR
          /\ \A r \in Regions :
               mpu'.RBAR[r] = IF row.RBAR.REGION = r THEN row.RBAR.ADDR ELSE mpu.RBAR[r]
      BY <2>2, <3>2, <3>3 DEF MpuState
    <3>5. Loaded(mpu, found, table, n, n) BY <3>1, <2>2 DEF LoadInv, n
    <3>6. Loaded(mpu', found, table, n + 1, n)
      <4>1. SUFFICES ASSUME NEW r \in Regions
                     PROVE  /\ ShowsLast(mpu'.RBAR[r], found.RBAR[r], RowsOf(table, r, n + 1), Addresses(table))
                            /\ ShowsLast(mpu'.RASR[r], found.RASR[r], RowsOf(table, r, n), Attributes(table))
        BY DEF Loaded
      <4>2. /\ ShowsLast(mpu.RBAR[r], found.RBAR[r], RowsOf(table, r, n), Addresses(table))
            /\ ShowsLast(mpu.RASR[r], found.RASR[r], RowsOf(table, r, n), Attributes(table))
        BY <2>3, <3>5 DEF Loaded
      <4>3. Addresses(table)[n + 1] = row.RBAR.ADDR BY <2>2, <2>3 DEF Addresses
      <4>4. QED BY <2>3, <3>4, <4>2, <4>3, LastRow
    <3>7. /\ skipped + (words' + 1) \div 2 = n + 1 /\ skipped + words' \div 2 = n
          /\ mpu'.RNR = table[n + 1].RBAR.REGION
      BY <2>2, <3>1, <3>4 DEF n
    <3>8. QED BY <2>1, <2>2, <2>5, <3>4, <3>6, <3>7 DEF LoadInv
  <2>7. CASE words % 2 = 1
    <3>1. (words + 1) \div 2 = words \div 2 + 1 /\ words' \div 2 = words \div 2 + 1
          /\ (words' + 1) \div 2 = words \div 2 + 1 /\ words' % 2 = 0
      BY <2>1, <2>2, <2>7
    <3>2. mpu.RNR = row.RBAR.REGION BY <2>7 DEF LoadInv, n
    <3>3. mpu' = [mpu EXCEPT !.RASR[row.RBAR.REGION] = row.RASR]
      BY <2>1, <2>7, <3>2 DEF WriteRASR
    <3>4. row.RBAR.REGION \in Regions /\ row.RASR \in [DOMAIN RasrField -> Nat]
      BY <2>4 DEF ARM_MPU_Region_t
    <3>5. /\ mpu' \in MpuState /\ mpu'.RBAR = mpu.RBAR
          /\ \A r \in Regions :
               mpu'.RASR[r] = IF row.RBAR.REGION = r THEN row.RASR ELSE mpu.RASR[r]
      BY <2>2, <3>3, <3>4 DEF MpuState
    <3>6. Loaded(mpu, found, table, n + 1, n) BY <3>1, <2>2 DEF LoadInv, n
    <3>7. Loaded(mpu', found, table, n + 1, n + 1)
      <4>1. SUFFICES ASSUME NEW r \in Regions
                     PROVE  /\ ShowsLast(mpu'.RBAR[r], found.RBAR[r], RowsOf(table, r, n + 1), Addresses(table))
                            /\ ShowsLast(mpu'.RASR[r], found.RASR[r], RowsOf(table, r, n + 1), Attributes(table))
        BY DEF Loaded
      <4>2. /\ ShowsLast(mpu.RBAR[r], found.RBAR[r], RowsOf(table, r, n + 1), Addresses(table))
            /\ ShowsLast(mpu.RASR[r], found.RASR[r], RowsOf(table, r, n), Attributes(table))
        BY <2>3, <3>6 DEF Loaded
      <4>3. Attributes(table)[n + 1] = row.RASR BY <2>2, <2>3 DEF Attributes
      <4>4. QED BY <2>3, <3>5, <4>2, <4>3, LastRow
    <3>8. skipped + (words' + 1) \div 2 = n + 1 /\ skipped + words' \div 2 = n + 1
      BY <2>2, <3>1 DEF n
    <3>9. QED BY <2>1, <2>2, <2>5, <3>1, <3>5, <3>7, <3>8 DEF LoadInv
  <2>8. QED BY <2>2, <2>6, <2>7
<1>4. QED BY <1>1, <1>2, <1>3 DEF LoadNext

LEMMA LoadSafe == LoadSpec => []LoadInv
<1>1. ASSUME LoadInit PROVE LoadInv
  <2>1. mpu \in MpuState /\ table \in Seq(ARM_MPU_Region_t) /\ cnt = Len(table)
    BY <1>1, MpuAssumption DEF MpuAssumption, LoadInit
  <2>2. skipped = 0 /\ words = 0 /\ found = mpu BY <1>1 DEF LoadInit
  <2>3. (words + 1) \div 2 = 0 /\ words \div 2 = 0 /\ words % 2 = 0 BY <2>2
  <2>4. \A r \in Regions : RowsOf(table, r, 0) = {} BY DEF RowsOf
  <2>5. Loaded(mpu, found, table, 0, 0) BY <2>2, <2>4 DEF Loaded, ShowsLast
  <2>6. cnt \in Nat BY <2>1
  <2>7. words <= Chunk * rowWordSize
    BY <2>2, <2>6 DEF Chunk, MPU_TYPE_RALIASES, rowWordSize
  <2>8. QED BY <2>1, <2>2, <2>3, <2>5, <2>6, <2>7 DEF LoadInv
<1>2. QED BY <1>1, LoadStep, PTL DEF LoadSpec

(* Functions and macros.                                                   *)
LEMMA AttributesAreDifferent == AttributesDiffer
<1> USE DEF ARM_MPU_ACCESS_, ARM_MPU_ACCESS_ORDERED, ARM_MPU_ACCESS_DEVICE,
            ARM_MPU_ACCESS_NORMAL, RasrField
<1> DEFINE kinds == [outer : 0 .. 3, inner : 0 .. 3, shareable : {0, 1}]
           normal(k) == ARM_MPU_ACCESS_NORMAL(k.outer, k.inner, k.shareable)
<1>1. \A k \in kinds : /\ normal(k).TEX = 4 + k.outer /\ normal(k).S = k.shareable
                       /\ normal(k).C = k.inner \div 2 /\ normal(k).B = k.inner % 2
  OBVIOUS
<1>2. \A k, l \in kinds : normal(k) = normal(l) => k = l
  <2>1. SUFFICES ASSUME NEW k \in kinds, NEW l \in kinds, normal(k) = normal(l)
                 PROVE  k = l
    OBVIOUS
  <2>2. k.outer = l.outer /\ k.shareable = l.shareable /\ k.inner = l.inner
    BY <1>1, <2>1
  <2>3. QED BY <2>2
<1>3. ARM_MPU_ACCESS_ORDERED.TEX = 0 /\ ARM_MPU_ACCESS_ORDERED.B = 0 OBVIOUS
<1>4. ARM_MPU_ACCESS_DEVICE(1).TEX = 0 /\ ARM_MPU_ACCESS_DEVICE(1).B = 1 OBVIOUS
<1>5. ARM_MPU_ACCESS_DEVICE(0).TEX = 2 OBVIOUS
<1>6. \A s \in RegionSizes : ARM_MPU_RASR_EX(1, 3, ARM_MPU_ACCESS_ORDERED, 0, s).SIZE = s
  BY DEF RegionSizes, ARM_MPU_RASR_EX
<1> HIDE DEF ARM_MPU_ACCESS_, ARM_MPU_ACCESS_ORDERED, ARM_MPU_ACCESS_DEVICE,
             ARM_MPU_ACCESS_NORMAL
<1>7. QED BY <1>1, <1>2, <1>3, <1>4, <1>5, <1>6 DEF AttributesDiffer

LEMMA PrivilegedAreProtected ==
  ASSUME NEW m, NEW memory
  PROVE  ProtectsPrivileged(m, memory)
<1>1. Reads(FALSE) \subseteq Reads(TRUE) /\ Writes(FALSE) \subseteq Writes(TRUE)
  BY DEF Reads, Writes
<1>2. \A a, weaker, stronger :
        weaker \subseteq stronger /\ Permits(m, FALSE, weaker, a) => Permits(m, TRUE, stronger, a)
  BY DEF Permits
<1>3. QED BY <1>1, <1>2 DEF ProtectsPrivileged, LDRT, STRT, LDR, STR

LEMMA OneIsEdited ==
  ASSUME NEW m \in MpuState, NEW r \in Regions, NEW row \in ARM_MPU_Region_t
  PROVE  EditsOne(m, r, row)
<1> DEFINE named == row.RBAR.REGION
<1>1. /\ row.RBAR.VALID = 1 /\ named \in Regions /\ row.RBAR.ADDR \in Nat
      /\ row.RASR \in [DOMAIN RasrField -> Nat]
  BY DEF ARM_MPU_Region_t
<1>2. RasrZero \in [DOMAIN RasrField -> Nat] BY DEF RasrZero
<1>3. ARM_MPU_ClrRegion(m, r) = [m EXCEPT !.RNR = r, !.RASR[r] = RasrZero]
  BY DEF ARM_MPU_ClrRegion, WriteRASR, MpuState
<1>4. ARM_MPU_SetRegionEx(m, r, row.RBAR, row.RASR) =
        [m EXCEPT !.RNR = named, !.RBAR[named] = row.RBAR.ADDR, !.RASR[named] = row.RASR]
  BY <1>1 DEF ARM_MPU_SetRegionEx, ARM_MPU_SetRegion, WriteRBAR, WriteRASR, MpuState
<1>5. m.CTRL.ENABLE = 1 /\ m.MEMFAULTENA = 1 =>
        ARM_MPU_Enable(ARM_MPU_Disable(m), m.CTRL.PRIVDEFENA) = m
  BY DEF ARM_MPU_Enable, ARM_MPU_Disable, MpuState
<1>6. QED BY <1>1, <1>3, <1>4, <1>5 DEF EditsOne, MpuState

(* For every table, however long, and every state of the unit before.      *)
THEOREM RegionsAreLoaded == LoadSpec => []RegionsLoaded
<1>1. ASSUME LoadInv PROVE RegionsLoaded
  <2>1. TableLoaded
    <3>1. ASSUME LoadReturned
          PROVE  /\ skipped + (words + 1) \div 2 = Len(table)
                 /\ skipped + words \div 2 = Len(table)
      <4>1. words = cnt * 2 /\ cnt \in Nat /\ skipped \in Nat /\ skipped + cnt = Len(table)
        BY <1>1, <3>1
        DEF LoadReturned, Copied, Chunk, rowWordSize, MPU_TYPE_RALIASES, LoadInv
      <4>2. (words + 1) \div 2 = cnt /\ words \div 2 = cnt BY <4>1
      <4>3. QED BY <4>1, <4>2
    <3>2. RowsLoaded(skipped + (words + 1) \div 2, skipped + words \div 2)
      BY <1>1, RowsAreLoaded DEF LoadInv
    <3>3. QED BY <3>1, <3>2 DEF TableLoaded
  <2>2. \A r \in Regions, j \in DOMAIN table : EditsOne(mpu, r, table[j])
    BY <1>1, OneIsEdited DEF LoadInv
  <2>3. QED BY <2>1, <2>2, AttributesAreDifferent, PrivilegedAreProtected DEF RegionsLoaded
<1>2. QED BY <1>1, LoadSafe, PTL
===============================================================================
