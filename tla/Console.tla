--------------------------------- MODULE Console -------------------------------
(***************************************************************************)
(* The console: _write() of syscalls.c stores the characters of every      *)
(* printf() one by one into the data register of UART 0.  It never looks   *)
(* at the status register, and several tasks print without a lock.         *)
(*                                                                         *)
(* Character <<t, i>> is the i-th that task t prints.  STATUS is the       *)
(* register that the headers call STATE.                                   *)
(***************************************************************************)
EXTENDS Integers, Sequences, SequencesExt

CONSTANTS
  Printers,     (* the tasks that print                                      *)
  len           (* how many characters each passes to _write()               *)

ASSUME ConsoleAssumption == len \in [Printers -> Nat]

VARIABLES
  CTRL, BAUDDIV, STATUS, DATA,     (* the registers of the UART              *)
  todo, result, (* the loop counter and the return value of each task's call *)
  shown,        (* what the terminal has taken                               *)
  prompt        (* whether the terminal takes each before the next is stored *)

consoleVars == <<CTRL, BAUDDIV, STATUS, DATA, todo, result, shown, prompt>>

UART_CTRL_TX_EN == 0
None == <<"none", 0>>

ConsoleInit ==
  /\ CTRL = {} /\ BAUDDIV = 0 /\ STATUS = {} /\ DATA = None
  /\ todo = [t \in Printers |-> 0]
  /\ result = [t \in Printers |-> -1]
  /\ shown = <<>>
  /\ prompt \in BOOLEAN

(* _start() initialises the UART before anything is printed.               *)
EnablesNothing == {}
Enables == {UART_CTRL_TX_EN}

uart_init ==
  /\ BAUDDIV = 0
  /\ BAUDDIV' = 16
  /\ CTRL' = Enables
  /\ UNCHANGED <<STATUS, DATA, todo, result, shown, prompt>>

(* The UART sends if it is enabled; 16 is the least divider it works with. *)
Sends == UART_CTRL_TX_EN \in CTRL /\ BAUDDIV >= 16 /\ "TXBF" \in STATUS
Printing == BAUDDIV # 0 /\ ~(prompt /\ Sends)

(* One character fits into the UART.  The next one takes its place, and    *)
(* the overrun is noted.                                                   *)
StoreChar(t) ==
  /\ Printing
  /\ todo[t] < len[t]
  /\ DATA' = <<t, todo[t] + 1>>
  /\ STATUS' = STATUS \cup {IF "TXBF" \in STATUS THEN "TXOR" ELSE "TXBF"}
  /\ todo' = [todo EXCEPT ![t] = @ + 1]
  /\ UNCHANGED <<CTRL, BAUDDIV, result, shown, prompt>>

WriteReturns(t) ==
  /\ Printing
  /\ todo[t] = len[t]
  /\ result[t] = -1
  /\ result' = [result EXCEPT ![t] = len[t]]
  /\ UNCHANGED <<CTRL, BAUDDIV, STATUS, DATA, todo, shown, prompt>>

TerminalTakes ==
  /\ Sends
  /\ shown' = Append(shown, DATA)
  /\ STATUS' = STATUS \ {"TXBF"}
  /\ UNCHANGED <<CTRL, BAUDDIV, DATA, todo, result, prompt>>

ConsoleNext ==
  \/ uart_init \/ TerminalTakes
  \/ \E t \in Printers : StoreChar(t) \/ WriteReturns(t)

ConsoleSpec == ConsoleInit /\ [][ConsoleNext]_consoleVars
-------------------------------------------------------------------------------
StoredChars == UNION {{<<t, i>> : i \in 1 .. todo[t]} : t \in Printers}
KeptChars == shown \o (IF "TXBF" \in STATUS THEN <<DATA>> ELSE <<>>)

(* The characters of a task appear in its order, each once, however tasks  *)
(* and terminal interleave; one is missing only if the UART has noted an   *)
(* overrun, and never with a terminal that keeps up; and what _write()     *)
(* returns is how many it has stored.                                      *)
CharsInOrder ==
  \A i, j \in DOMAIN KeptChars :
    i < j /\ KeptChars[i][1] = KeptChars[j][1] => KeptChars[i][2] < KeptChars[j][2]

LinesPrinted ==
  /\ CharsInOrder
  /\ ToSet(KeptChars) \subseteq StoredChars
  /\ ToSet(KeptChars) = StoredChars <=> "TXOR" \notin STATUS
  /\ prompt => "TXOR" \notin STATUS
  /\ \A t \in Printers : result[t] \in {-1, todo[t]}
===============================================================================
