------------------------------ MODULE DebugChannel -----------------------------
(***************************************************************************)
(* The terminal of a debugger, as core_cm3.h offers it to the program:     *)
(* ITM_SendChar() writes to the first stimulus port of the trace unit, and *)
(* ITM_ReceiveChar() takes what the debugger has put into ITM_RxBuffer.    *)
(* The debugger reads and writes memory while the program runs.            *)
(*                                                                         *)
(* The characters of each direction are numbered as they are typed or      *)
(* sent.                                                                   *)
(***************************************************************************)
EXTENDS Integers, Sequences

CONSTANT
  MaxChars      (* bound of the model: characters in either direction        *)

ASSUME ChannelAssumption == MaxChars \in Nat

ITM_RXBUFFER_EMPTY == 0

VARIABLES
  ITMENA, TER,  (* whether a debugger has booked the output                  *)
  port,         (* the character that waits in the port, 0 if none           *)
  ITM_RxBuffer, (* the character for the program, or ITM_RXBUFFER_EMPTY      *)
  receiver, ch, (* where ITM_ReceiveChar() is, and its variable              *)
  sender,       (* where ITM_SendChar() is                                   *)
  typed,        (* how many characters the debugger has typed                *)
  received,     (* those that ITM_ReceiveChar() has returned                 *)
  sent,         (* how many characters were passed to ITM_SendChar()         *)
  dropped,      (* those for which no debugger had booked the output         *)
  displayed     (* those that the debugger has taken from the port           *)

input == <<ITM_RxBuffer, receiver, ch, typed, received>>
output == <<ITMENA, TER, port, sender, sent, dropped, displayed>>
channelVars == <<input, output>>

ChannelInit ==
  /\ ITMENA = FALSE /\ TER = {}
  /\ port = 0
  /\ ITM_RxBuffer = ITM_RXBUFFER_EMPTY
  /\ receiver = "idle" /\ ch = -1
  /\ sender = "idle"
  /\ typed = 0 /\ received = <<>>
  /\ sent = 0 /\ dropped = {} /\ displayed = <<>>
-------------------------------------------------------------------------------
(* ITM_ReceiveChar() looks at the buffer, reads it and empties it: three   *)
(* accesses.                                                               *)
ITM_CheckChar == IF ITM_RxBuffer = ITM_RXBUFFER_EMPTY THEN 0 ELSE 1

FindChar ==
  /\ receiver = "idle"
  /\ ITM_CheckChar = 1
  /\ receiver' = "full"
  /\ UNCHANGED <<ITM_RxBuffer, ch, typed, received>>

TakeCharLate ==
  /\ receiver = "full"
  /\ ITM_RxBuffer' = ITM_RXBUFFER_EMPTY
  /\ ch' = ITM_RxBuffer'
  /\ receiver' = "taken"
  /\ UNCHANGED <<typed, received>>
TakeChar ==
  /\ receiver = "full"
  /\ ch' = ITM_RxBuffer
  /\ receiver' = "taken"
  /\ UNCHANGED <<ITM_RxBuffer, typed, received>>

EmptyBuffer ==
  /\ receiver = "taken"
  /\ ITM_RxBuffer' = ITM_RXBUFFER_EMPTY
  /\ received' = Append(received, ch)
  /\ receiver' = "idle"
  /\ UNCHANGED <<ch, typed>>

(* The debugger waits until the program has emptied the buffer.            *)
Type ==
  /\ ITM_CheckChar = 0
  /\ typed < MaxChars
  /\ typed' = typed + 1
  /\ ITM_RxBuffer' = typed + 1
  /\ UNCHANGED <<receiver, ch, received>>
-------------------------------------------------------------------------------
(* ITM_SendChar() returns at once if nobody has booked the output.  If one *)
(* has, it waits for the port, which reads as zero while a character is in *)
(* it, and writes to it: the look and the write are two accesses.          *)
Booked == ITMENA /\ 0 \in TER

SendUnbooked ==
  /\ sender = "idle"
  /\ ~Booked
  /\ sent < MaxChars
  /\ sent' = sent + 1
  /\ dropped' = dropped \cup {sent + 1}
  /\ UNCHANGED <<ITMENA, TER, port, sender, displayed>>

SendBooked ==
  /\ sender = "idle"
  /\ Booked
  /\ sent < MaxChars
  /\ sent' = sent + 1
  /\ sender' = "wait"
  /\ UNCHANGED <<ITMENA, TER, port, dropped, displayed>>

PortFree == port = 0

FindPortFree ==
  /\ sender = "wait"
  /\ PortFree
  /\ sender' = "write"
  /\ UNCHANGED <<ITMENA, TER, port, sent, dropped, displayed>>

WritePort ==
  /\ sender = "write"
  /\ port' = sent
  /\ sender' = "idle"
  /\ UNCHANGED <<ITMENA, TER, sent, dropped, displayed>>

(* The debugger books the output, and takes a character.                   *)
Book ==
  /\ ITMENA' = TRUE
  /\ TER' = TER \cup {0}
  /\ UNCHANGED <<port, sender, sent, dropped, displayed>>

Display ==
  /\ port # 0
  /\ displayed' = Append(displayed, port)
  /\ port' = 0
  /\ UNCHANGED <<ITMENA, TER, sender, sent, dropped>>

InputNext == FindChar \/ TakeChar \/ EmptyBuffer \/ Type
OutputNext ==
  SendUnbooked \/ SendBooked \/ FindPortFree \/ WritePort \/ Book \/ Display

ChannelNext ==
  \/ InputNext /\ UNCHANGED output
  \/ OutputNext /\ UNCHANGED input

ChannelSpec == ChannelInit /\ [][ChannelNext]_channelVars
-------------------------------------------------------------------------------
(* However the accesses of the two interleave, what is typed is received   *)
(* once and in order; only the last character may still be on its way, and *)
(* no other one is typed before the program is through with it.            *)
TypedIsReceived ==
  /\ \A i \in 1 .. Len(received) : received[i] = i
  /\ typed = Len(received) + ITM_CheckChar

(* What is sent to a debugger that has booked it is displayed, each        *)
(* character once and in order; one may be in the port, and the last one   *)
(* may be waiting for it.                                                  *)
SentIsDisplayed ==
  /\ \A i, j \in 1 .. Len(displayed) : i < j => displayed[i] < displayed[j]
  /\ \A c \in 1 .. sent :
       \/ c \in dropped
       \/ \E i \in 1 .. Len(displayed) : displayed[i] = c
       \/ port = c
       \/ c = sent /\ sender # "idle"
  /\ \A i \in 1 .. Len(displayed) : displayed[i] \notin dropped \cup {port}

CharactersKept == TypedIsReceived /\ SentIsDisplayed
===============================================================================
