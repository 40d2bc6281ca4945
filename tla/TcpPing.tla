------------------------------ MODULE TcpPing -------------------------------
(***************************************************************************)
(* tcp_ping: the server that accepts one client at a time and echoes its   *)
(* message (server.c:start_server, ping.c:PingListen) and the clients that *)
(* send a message over a new connection for every ping (client.c:          *)
(* start_client, ping.c:pingSend).                                         *)
(*                                                                         *)
(* The message of realsize bytes ends in its first NUL, by which either    *)
(* side knows its end.  Its bytes are units 1..NUL, known by their place.  *)
(* write() on these blocking sockets returns when it has taken everything, *)
(* or with a short count when a signal (a stop and continue of the job)    *)
(* interrupts it: ShortWrite is that return where it makes a difference.   *)
(***************************************************************************)
EXTENDS Integers, Sequences, FiniteSets

CONSTANTS
  Clients,   \* client programs
  NoClient,  \* value of conn when no connection is served
  Pings,     \* msg_count of each of them
  NUL,       \* place of the NUL: realsize
  Chunk,     \* length of PingListen's buffer, 1024
  Capacity,  \* units the socket buffers hold in one direction
  Backlog    \* CONFIG_MAX_CLIENT, given to listen()

ASSUME ClientsAssumption == NoClient \notin Clients

ASSUME SizesAssumption ==
  /\ Pings \in Nat
  /\ NUL \in Nat /\ NUL >= 2
  /\ Chunk \in Nat \ {0}
  /\ Capacity \in Nat \ {0}
  /\ Backlog \in Nat \ {0}

VARIABLES
  spc,          \* where the server is
  conn,         \* the client it serves
  readData,     \* what PingListen has read
  totalSent,    \* how much of it has been echoed: totalBytesSent
  backlog,      \* clients connected and not accepted yet
  hungup,       \* clients whose connection the server has closed
  cpc,          \* where each client is
  left,         \* pings it has still to do, the current one included
  totalBytes,   \* units of the message it has sent
  bufferRecv,   \* what it has received
  c2s, s2c,     \* what is under way on its connection
  nulLost,      \* history: clients that took a short write for the whole
  wrong,        \* history: clients that printed "Ping Error"
  trouble       \* history: a client was interrupted, accept() failed, or
                \* there was no listening socket from the start

serverVars == <<spc, conn, readData, totalSent, backlog, hungup>>
clientVars == <<cpc, left, totalBytes, bufferRecv>>
vars == <<spc, conn, readData, totalSent, backlog, hungup, cpc, left,
          totalBytes, bufferRecv, c2s, s2c, nulLost, wrong, trouble>>

SStates == {"accept", "read", "write", "close", "dead"}
CStates == {"ready", "send", "recv", "close", "done", "crashed", "gone"}
Ended == {"done", "crashed", "gone"}

FirstUnits(n) == [i \in 1..n |-> i]

\* The end of the connection at the client, and at the server.
ClientGone(c) == cpc[c] \in {"ready"} \union Ended
ServerGone(c) == spc = "dead" \/ c \in hungup

\* The connection of c waits in the queue, or is the one in service.
Queued(c) == \E i \in 1..Len(backlog) : backlog[i] = c
Served(c) == conn = c /\ ~Queued(c)

Init ==
  /\ spc \in {"accept", "dead"} /\ conn = NoClient
  /\ readData = <<>> /\ totalSent = 0
  /\ backlog = <<>> /\ hungup = {}
  /\ cpc = [c \in Clients |-> IF Pings > 0 THEN "ready" ELSE "done"]
  /\ left = [c \in Clients |-> Pings]
  /\ totalBytes = [c \in Clients |-> 0]
  /\ bufferRecv = [c \in Clients |-> <<>>]
  /\ c2s = [c \in Clients |-> <<>>]
  /\ s2c = [c \in Clients |-> <<>>]
  /\ nulLost = {} /\ wrong = {} /\ trouble = (spc = "dead")

-----------------------------------------------------------------------------
(***************************************************************************)
(* The server.                                                             *)
(***************************************************************************)

WaitConnection ==
  /\ spc = "accept"
  /\ backlog # <<>>
  /\ conn' = Head(backlog)
  /\ backlog' = Tail(backlog)
  /\ readData' = <<>> /\ totalSent' = 0
  /\ spc' = "read"
  /\ UNCHANGED <<hungup, clientVars, c2s, s2c, nulLost, wrong, trouble>>

\* The end of the server.  The kernel closes what it had open.
Die ==
  /\ spc' = "dead"
  /\ conn' = NoClient
  /\ backlog' = <<>>
  /\ UNCHANGED <<readData, totalSent, hungup>>

\* accept() fails.  Its -1 is not looked at, read(-1) gives PingListen an
\* unsigned count of -1 bytes to copy, and the copy kills the server.
AcceptFails ==
  /\ spc = "accept"
  /\ Die
  /\ trouble' = TRUE
  /\ UNCHANGED <<clientVars, c2s, s2c, nulLost, wrong>>

\* Mutant: the loop of PingListen also ends when a read() does not fill the
\* buffer.
ReadPingShort(k) ==
  /\ spc = "read"
  /\ k <= Len(c2s[conn])
  /\ readData' = readData \o SubSeq(c2s[conn], 1, k)
  /\ c2s' = [c2s EXCEPT ![conn] = SubSeq(@, k + 1, Len(@))]
  /\ spc' = IF c2s[conn][k] = NUL \/ k < Chunk THEN "write" ELSE "read"
  /\ UNCHANGED <<conn, totalSent, backlog, hungup, clientVars, s2c, nulLost,
                 wrong, trouble>>

\* One turn of PingListen's loop, which ends when the last unit read is NUL.
ReadPing(k) ==
  /\ spc = "read"
  /\ k <= Len(c2s[conn])
  /\ readData' = readData \o SubSeq(c2s[conn], 1, k)
  /\ c2s' = [c2s EXCEPT ![conn] = SubSeq(@, k + 1, Len(@))]
  /\ spc' = IF c2s[conn][k] = NUL THEN "write" ELSE "read"
  /\ UNCHANGED <<conn, totalSent, backlog, hungup, clientVars, s2c, nulLost,
                 wrong, trouble>>

\* Mutant: PingListen goes on reading at the end of the stream.
ReadEndIgnored ==
  /\ spc = "read"
  /\ c2s[conn] = <<>>
  /\ ClientGone(conn)
  /\ UNCHANGED vars

\* The stream ends before the NUL: what was read is echoed all the same.
ReadEndOfStream ==
  /\ spc = "read"
  /\ c2s[conn] = <<>>
  /\ ClientGone(conn)
  /\ spc' = IF readData = <<>> THEN "close" ELSE "write"
  /\ UNCHANGED <<conn, readData, totalSent, backlog, hungup, clientVars, c2s,
                 s2c, nulLost, wrong, trouble>>

\* Mutant: every write() is given the start of readData.
WriteBackFromStart(k) ==
  /\ spc = "write"
  /\ k <= Len(readData) - totalSent
  /\ IF ClientGone(conn) THEN UNCHANGED s2c
     ELSE /\ Len(s2c[conn]) + k <= Capacity
          /\ s2c' = [s2c EXCEPT ![conn] = @ \o SubSeq(readData, 1, k)]
  /\ totalSent' = totalSent + k
  /\ spc' = IF totalSent' < Len(readData) THEN "write" ELSE "close"
  /\ UNCHANGED <<conn, readData, backlog, hungup, clientVars, c2s, nulLost,
                 wrong, trouble>>

\* k units are written; what is written to a client that is gone is dropped.
WriteBack(k) ==
  /\ spc = "write"
  /\ k <= Len(readData) - totalSent
  /\ IF ClientGone(conn) THEN UNCHANGED s2c
     ELSE /\ Len(s2c[conn]) + k <= Capacity
          /\ s2c' = [s2c EXCEPT ![conn] =
                       @ \o SubSeq(readData, totalSent + 1, totalSent + k)]
  /\ totalSent' = totalSent + k
  /\ spc' = IF totalSent' < Len(readData) THEN "write" ELSE "close"
  /\ UNCHANGED <<conn, readData, backlog, hungup, clientVars, c2s, nulLost,
                 wrong, trouble>>

\* Writing to a client that is gone kills the only server there is (SIGPIPE).
BrokenPipe ==
  /\ spc = "write"
  /\ ClientGone(conn)
  /\ Die
  /\ UNCHANGED <<clientVars, c2s, s2c, nulLost, wrong, trouble>>

\* A client may have gone on to its next connection by now.
CloseConnection ==
  /\ spc = "close"
  /\ hungup' = IF Queued(conn) THEN hungup ELSE hungup \union {conn}
  /\ conn' = NoClient
  /\ spc' = "accept"
  /\ UNCHANGED <<readData, totalSent, backlog, clientVars, c2s, s2c, nulLost,
                 wrong, trouble>>

-----------------------------------------------------------------------------
(***************************************************************************)
(* The clients.                                                            *)
(***************************************************************************)

Connect(c) ==
  /\ cpc[c] = "ready"
  /\ spc # "dead"
  /\ Len(backlog) < Backlog
  /\ backlog' = Append(backlog, c)
  /\ hungup' = hungup \ {c}
  /\ cpc' = [cpc EXCEPT ![c] = "send"]
  /\ totalBytes' = [totalBytes EXCEPT ![c] = 0]
  /\ bufferRecv' = [bufferRecv EXCEPT ![c] = <<>>]
  /\ c2s' = [c2s EXCEPT ![c] = <<>>]
  /\ s2c' = [s2c EXCEPT ![c] = <<>>]
  /\ UNCHANGED <<spc, conn, readData, totalSent, left, nulLost, wrong, trouble>>

\* Nobody listens, or the address is no address.  pingSend(-1) counts the
\* unsigned -1 of read(-1) as bytes received, looks for the NUL far behind its
\* buffer and crashes.
ConnectFails(c) ==
  /\ cpc[c] = "ready"
  /\ cpc' = [cpc EXCEPT ![c] = "crashed"]
  /\ UNCHANGED <<serverVars, left, totalBytes, bufferRecv, c2s, s2c, nulLost,
                 wrong, trouble>>

\* Mutant: write() is given strlen bytes, without the NUL.
SendWithoutNUL(c, k) ==
  /\ cpc[c] = "send"
  /\ ~ServerGone(c)
  /\ k <= NUL - 1 - totalBytes[c]
  /\ Len(c2s[c]) + k <= Capacity
  /\ c2s' = [c2s EXCEPT ![c] = @ \o [i \in 1..k |-> totalBytes[c] + i]]
  /\ totalBytes' = [totalBytes EXCEPT ![c] = @ + k]
  /\ cpc' = [cpc EXCEPT ![c] =
               IF totalBytes'[c] < NUL - 1 THEN "send" ELSE "recv"]
  /\ UNCHANGED <<serverVars, left, bufferRecv, s2c, nulLost, wrong, trouble>>

\* Each write() is given the rest of the message, NUL included.
SendPing(c, k) ==
  /\ cpc[c] = "send"
  /\ ~ServerGone(c)
  /\ k <= NUL - totalBytes[c]
  /\ Len(c2s[c]) + k <= Capacity
  /\ c2s' = [c2s EXCEPT ![c] = @ \o [i \in 1..k |-> totalBytes[c] + i]]
  /\ totalBytes' = [totalBytes EXCEPT ![c] = @ + k]
  /\ cpc' = [cpc EXCEPT ![c] = IF totalBytes'[c] < NUL THEN "send" ELSE "recv"]
  /\ UNCHANGED <<serverVars, left, bufferRecv, s2c, nulLost, wrong, trouble>>

\* write() returns early, with all the message sent but its NUL: the loop of
\* ping.c:79 compares with strlen and is content.
ShortWrite(c) ==
  /\ cpc[c] = "send"
  /\ totalBytes[c] = NUL - 1
  /\ cpc' = [cpc EXCEPT ![c] = "recv"]
  /\ nulLost' = nulLost \union {c}
  /\ UNCHANGED <<serverVars, left, totalBytes, bufferRecv, c2s, s2c, wrong,
                 trouble>>

\* Writing to a server that is gone kills the client (SIGPIPE), or is taken
\* for a complete write: the unsigned -1 it returns is more than any length.
SendFails(c) ==
  /\ cpc[c] = "send"
  /\ ServerGone(c)
  /\ cpc' \in {[cpc EXCEPT ![c] = "crashed"], [cpc EXCEPT ![c] = "recv"]}
  /\ UNCHANGED <<serverVars, left, totalBytes, bufferRecv, c2s, s2c, nulLost,
                 wrong, trouble>>

\* memcmp over the realsize bytes, once the reading has ended.
Verdict(c, received) ==
  wrong' = IF received = FirstUnits(NUL) THEN wrong ELSE wrong \union {c}

RecvEcho(c, k) ==
  /\ cpc[c] = "recv"
  /\ k <= Len(s2c[c])
  /\ bufferRecv' = [bufferRecv EXCEPT ![c] = @ \o SubSeq(s2c[c], 1, k)]
  /\ s2c' = [s2c EXCEPT ![c] = SubSeq(@, k + 1, Len(@))]
  /\ IF s2c[c][k] = NUL
     THEN /\ cpc' = [cpc EXCEPT ![c] = "close"]
          /\ Verdict(c, bufferRecv'[c])
     ELSE UNCHANGED <<cpc, wrong>>
  /\ UNCHANGED <<serverVars, left, totalBytes, c2s, nulLost, trouble>>

\* The stream ends before the NUL, or read() fails and the client looks for
\* it outside its buffer.
RecvEnds(c) ==
  /\ cpc[c] = "recv"
  /\ s2c[c] = <<>>
  /\ ServerGone(c)
  /\ \/ /\ cpc' = [cpc EXCEPT ![c] = "close"]
        /\ Verdict(c, bufferRecv[c])
     \/ /\ cpc' = [cpc EXCEPT ![c] = "crashed"]
        /\ UNCHANGED wrong
  /\ UNCHANGED <<serverVars, left, totalBytes, bufferRecv, c2s, s2c, nulLost,
                 trouble>>

\* Mutant: one ping too many.
CloseClientOffByOne(c) ==
  /\ cpc[c] = "close"
  /\ left' = [left EXCEPT ![c] = @ - 1]
  /\ cpc' = [cpc EXCEPT ![c] = IF left[c] >= 1 THEN "ready" ELSE "done"]
  /\ UNCHANGED <<serverVars, totalBytes, bufferRecv, c2s, s2c, nulLost, wrong,
                 trouble>>

\* start_client closes the connection and does the next ping, if any is left.
CloseClient(c) ==
  /\ cpc[c] = "close"
  /\ left' = [left EXCEPT ![c] = @ - 1]
  /\ cpc' = [cpc EXCEPT ![c] = IF left[c] > 1 THEN "ready" ELSE "done"]
  /\ UNCHANGED <<serverVars, totalBytes, bufferRecv, c2s, s2c, nulLost, wrong,
                 trouble>>

\* The user interrupts the client program.
Interrupt(c) ==
  /\ cpc[c] \notin Ended
  /\ cpc' = [cpc EXCEPT ![c] = "gone"]
  /\ trouble' = TRUE
  /\ UNCHANGED <<serverVars, left, totalBytes, bufferRecv, c2s, s2c, nulLost,
                 wrong>>

-----------------------------------------------------------------------------

ServerStep ==
  \/ WaitConnection
  \/ \E k \in 1..Chunk : ReadPing(k)
  \/ ReadEndOfStream
  \/ \E k \in 1..Capacity : WriteBack(k)
  \/ BrokenPipe
  \/ CloseConnection

ClientStep(c) ==
  \/ Connect(c)
  \/ spc = "dead" /\ ConnectFails(c)
  \/ \E k \in 1..Capacity : SendPing(c, k)
  \/ SendFails(c)
  \/ \E k \in 1..NUL : RecvEcho(c, k)
  \/ RecvEnds(c)
  \/ CloseClient(c)

Next ==
  \/ ServerStep
  \/ AcceptFails
  \/ \E c \in Clients : ClientStep(c)
  \/ \E c \in Clients : ConnectFails(c) \/ ShortWrite(c)
  \/ \E c \in Clients : Interrupt(c)

Spec == Init /\ [][Next]_vars

\* Every process runs whenever it can, and a client whose connect() waits for
\* a place in the queue gets one if there is one often enough.
FairSpec ==
  /\ Spec
  /\ WF_vars(ServerStep)
  /\ \A c \in Clients : WF_vars(ClientStep(c)) /\ SF_vars(Connect(c))

-----------------------------------------------------------------------------
(***************************************************************************)
(* Correctness.                                                            *)
(***************************************************************************)

ServerTypes ==
  /\ spc \in SStates
  /\ conn \in Clients \union {NoClient}
  /\ spc \in {"read", "write", "close"} => conn \in Clients
  /\ readData \in Seq(1..NUL) /\ totalSent \in 0..Len(readData)
  /\ backlog \in Seq(Clients) /\ Len(backlog) <= Backlog

ClientTypes ==
  /\ cpc \in [Clients -> CStates]
  /\ left \in [Clients -> 0..Pings]
  /\ totalBytes \in [Clients -> 0..NUL]
  /\ bufferRecv \in [Clients -> Seq(1..NUL)]

NetworkTypes ==
  /\ c2s \in [Clients -> Seq(1..NUL)]
  /\ s2c \in [Clients -> Seq(1..NUL)]

\* Every variable has its type.
TypeOK ==
  /\ ServerTypes /\ ClientTypes /\ NetworkTypes
  /\ hungup \subseteq Clients
  /\ nulLost \subseteq Clients
  /\ wrong \subseteq Clients
  /\ trouble \in BOOLEAN

\* Whatever portions are read and written on either side, the server has, and
\* has coming, just what its client sent, and the client has, and has coming,
\* just what the server echoed of it: nothing before it is accepted, and the
\* whole message once the server hung up (ping.c:38-52, 79-93).
EchoIntact ==
  \A c \in Clients : cpc[c] \in {"send", "recv"} /\ spc # "dead" =>
    LET arrived == IF Served(c) THEN readData ELSE <<>>
        echoed  == IF Served(c) THEN SubSeq(readData, 1, totalSent) ELSE <<>>
    IN IF c \in hungup THEN bufferRecv[c] \o s2c[c] = FirstUnits(NUL)
       ELSE /\ arrived \o c2s[c] = FirstUnits(totalBytes[c])
            /\ bufferRecv[c] \o s2c[c] = echoed

\* A ping is reported wrong only when the server is dead: an echo that comes
\* to its end is the message.  And only a client that is interrupted, or an
\* accept() that fails, ends the server: the pings themselves, complete or
\* short, never do (ping.c:38-52, 85-97, server.c:30-43).
WrongOnlyAfterTrouble ==
  /\ wrong # {} => spc = "dead"
  /\ spc = "dead" => trouble

\* Client and server wait for each other only over a message whose NUL was
\* lost to a short write.
StuckOnlyWithoutNUL ==
  spc = "read" /\ c2s[conn] = <<>> /\ cpc[conn] = "recv" => conn \in nulLost

\* All the clients come to the end of their program.  The lost NUL of one of
\* them is enough to keep the server, and so every other client, waiting for
\* ever (server.c:30-43 serves one connection at a time).
EveryPingEnds == <>[]((\A c \in Clients : cpc[c] \in Ended) \/ nulLost # {})

=============================================================================
