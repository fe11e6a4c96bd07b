----------------------------- MODULE LinuxEchoServer --------------------------
(***************************************************************************)
(* The two host programs that listen on the heartbeat task's port:         *)
(* linux/tcp_server.c of Heartbeat, and linux/linux_tcp_server.c, which    *)
(* echoes what it receives, with blocking calls, on the one connection it  *)
(* accepts.  The heartbeat task reads none of the echo.                    *)
(*                                                                         *)
(* Of linux_tcp_server.c, spc is "sock" in recv(), where chunk counts what *)
(* recv() has for its caller, and "send" in send(), where chunk is what is *)
(* still to be taken; ChunkMax stands for BUF_SIZE - 1.                    *)
(***************************************************************************)
EXTENDS Heartbeat

VARIABLES
  program,      (* the one that the user of the host has started             *)
  told          (* whether a send() has failed because of the reset          *)

HostsInit ==
  /\ Init
  /\ program \in {"tcp_server", "linux_tcp_server"}
  /\ told = FALSE
-------------------------------------------------------------------------------
LinuxAccept ==
  /\ spc = "accept"
  /\ fd \in {"queue", "queueDead"}
  /\ fd' = IF fd = "queue" THEN "open" ELSE "openDead"
  /\ spc' = "sock"
  /\ UNCHANGED <<taskVars, conn, stream, typed, chunk, last, left, back>>

LinuxRecvCell ==
  /\ spc = "sock"
  /\ chunk < ChunkMax
  /\ ReadCell
  /\ chunk' = chunk + 1
  /\ UNCHANGED <<taskVars, conn, spc, typed, fd, back>>

LinuxRecvReturns ==
  /\ spc = "sock"
  /\ chunk > 0
  /\ spc' = "send"
  /\ UNCHANGED <<taskVars, conn, stream, typed, chunk, last, atHost, back>>

(* The connection was reset: recv() returns -1, or 0 when send() has been  *)
(* told of it already.                                                     *)
BreaksOnError(n) == n < 0
Breaks(n) == n <= 0

LinuxRecvFails ==
  /\ spc = "sock"
  /\ chunk = 0
  /\ fd = "openReset" /\ left = <<>>
  /\ Breaks(IF told THEN 0 ELSE -1)
  /\ HostEnds

(* The result of send() is not looked at.                                  *)
LinuxSendReturns ==
  /\ spc = "send"
  /\ chunk = 0 \/ fd = "openReset"
  /\ told' = (told \/ chunk > 0)
  /\ chunk' = 0
  /\ spc' = "sock"
  /\ UNCHANGED <<taskVars, conn, stream, typed, last, atHost, back>>

LinuxRuns ==
  /\ program = "linux_tcp_server" /\ program' = program
  /\ \/ LinuxSendReturns
     \/ /\ told' = told
        /\ \/ LinuxRecvReturns \/ HostSendByte \/ LinuxRecvFails
           \/ LinuxRecvCell /\ fd # "open"

(* It waits for the network, and for nothing else.                         *)
LinuxWaits ==
  /\ program = "linux_tcp_server"
  /\ LinuxAccept \/ (LinuxRecvCell /\ fd = "open") \/ Kill

hostsVars == <<vars, program, told>>

HostsNext ==
  \/ LinuxRuns
  \/ /\ \/ Task \/ LinkLost \/ HostTold \/ LinuxWaits
        \/ program = "tcp_server" /\ Host
     /\ UNCHANGED <<program, told>>

HostsSpec == HostsInit /\ [][HostsNext]_hostsVars

(* As in Heartbeat; and linux_tcp_server.c goes on when it can, with what  *)
(* has arrived and with what it sends.                                     *)
FairHostsSpec ==
  /\ HostsSpec
  /\ WF_hostsVars(Task /\ UNCHANGED <<program, told>>)
  /\ WF_hostsVars(program = "tcp_server" /\ HostSends /\ UNCHANGED <<program, told>>)
  /\ WF_hostsVars(HostTold /\ UNCHANGED <<program, told>>)
  /\ WF_hostsVars(LinuxRuns)
-------------------------------------------------------------------------------
(* recv() has nothing to return, and nothing is sent whose answer could    *)
(* tell the program that the connection is dead: it waits for ever.        *)
WaitsUnaware == fd = "openDead" /\ spc = "sock" /\ chunk = 0 /\ left = <<>>

(* Once the task has dropped the connection, or the path is lost, the echo *)
(* server answers what has arrived, finds out by the answer to its own     *)
(* segment and ends, also when the reset meets it in send(), whose result  *)
(* it ignores.  Only a server that has nothing to read and nothing to send *)
(* when the connection dies, and nothing on its way, learns nothing of it. *)
ResetEndsServer ==
  (program = "linux_tcp_server" /\ fd \in {"openDead", "openSent", "openReset"})
    ~> (spc = "done" \/ WaitsUnaware)
===============================================================================
