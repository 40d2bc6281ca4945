---------------------------- MODULE UdpTransfer -----------------------------
(***************************************************************************)
(* UDP_FileTransfer: the server that sends one file to one client, a       *)
(* datagram per read(), and runs of the client program (both are only a    *)
(* main).  Both work on the local host, where a datagram is lost when the  *)
(* socket it goes to does not exist or has a full queue, and the order of  *)
(* the others is kept.  Nothing is ever sent again.                        *)
(*                                                                         *)
(* The file does not change meanwhile, and write() to the local file takes *)
(* all it is given or fails.  A unit stands for some bytes of the file and *)
(* is known by its offset; 0 is anything else that gets into the local     *)
(* file.                                                                   *)
(***************************************************************************)
EXTENDS Integers, Sequences

CONSTANTS
  Clients,   \* runs of the client program
  NoClient,  \* udpClient before the first datagram
  MaxLen,    \* bound on the length of the file, in units
  Chunk,     \* length of filebuffer, 10240
  ByeLen,    \* length of the text "BYE"
  Capacity,  \* datagrams the queue of a socket holds
  Leftover,  \* bound on what an int that was never assigned may hold
  MaxFaults, \* bound on the failures of sendto() or write() in a row
  IntHalf    \* least number an int does not hold, 2^31

ASSUME ClientsAssumption == NoClient \notin Clients

ASSUME SizesAssumption ==
  /\ MaxLen \in Nat
  /\ Chunk \in Nat \ {0}
  /\ ByeLen \in 1..Chunk
  /\ Capacity \in Nat \ {0}
  /\ Leftover \in Nat
  /\ MaxFaults \in Nat
  /\ IntHalf \in Nat /\ IntHalf > Chunk /\ IntHalf > Leftover

VARIABLES
  spc,             \* where the server is
  udpClient,       \* sender of the last datagram it received
  flen,            \* length of the file: st_size
  offset,          \* units of it that were read
  totalSendBytes,  \* units counted as sent
  toServer,        \* queue of the server's socket
  toClient,        \* queue of each client's
  cpc,             \* where each client is
  name,            \* the file it asks for: "OK", or some other name
  fileSize,        \* the length announced to it
  totalReadBytes,  \* units it has counted as read
  writeBytes,      \* how much of the datagram in its buffer is written
  local,           \* the file it writes
  asker,           \* history: the client whose request was taken
  garbage,         \* history: clients whose copy starts from an int, theirs or
                   \* the server's, that was never assigned and is not 0, or
                   \* has bytes of a sendto() or a write() that failed
  lost             \* history: clients that lost a datagram

serverVars == <<spc, udpClient, flen, offset, totalSendBytes, asker>>
clientVars == <<cpc, name, fileSize, totalReadBytes, writeBytes, local>>
vars == <<spc, udpClient, flen, offset, totalSendBytes, toServer, toClient,
          cpc, name, fileSize, totalReadBytes, writeBytes, local, asker,
          garbage, lost>>

\* The server may be deaf: main goes on when bind() fails.  It ends well
\* ("ended") or because of a file or an answer it did not expect ("failed"),
\* or it turns for ever round a read() that fails ("spin").
SStates == {"bind", "deaf", "request", "open", "ready", "answer", "send",
            "spin", "bye", "ended", "failed"}
CStates == {"start", "ready", "create", "data", "bye", "done", "failed"}
Ended == {"done", "failed"}

FirstUnits(n) == [i \in 1..n |-> i]
Smaller(m, n) == IF m <= n THEN m ELSE n
Zeros(n) == [i \in 1..n |-> 0]

\* What an int makes of a number: the cut of %i, and the sums that wrap.
Signed(n) == ((n + IntHalf) % (2 * IntHalf)) - IntHalf

Ready == [text |-> "READY", units |-> <<>>]
Data(i, k) == [text |-> "data", units |-> [j \in 1..k |-> i + j]]
Bye == [text |-> "BYE", units |-> Zeros(ByeLen)]

Init ==
  /\ spc = "bind" /\ udpClient = NoClient
  /\ flen \in 0..MaxLen
  /\ offset = 0
  /\ totalSendBytes \in (-Leftover)..Leftover
  /\ toServer = <<>>
  /\ toClient = [c \in Clients |-> <<>>]
  /\ cpc = [c \in Clients |-> "start"]
  /\ name \in [Clients -> {"OK", "other"}]
  /\ fileSize = [c \in Clients |-> 0]
  /\ totalReadBytes = [c \in Clients |-> 0]
  /\ writeBytes \in [Clients -> (-Leftover)..Leftover]
  /\ local = [c \in Clients |-> <<>>]
  /\ asker = NoClient
  /\ garbage = {c \in Clients : writeBytes[c] # 0 \/ totalSendBytes # 0}
  /\ lost = {}

-----------------------------------------------------------------------------
(***************************************************************************)
(* The server.                                                             *)
(***************************************************************************)

\* sendto() a client: what finds no socket is dropped without a word, and so
\* is what finds a full queue, or no memory in the kernel.
SendTo(c, d) ==
  IF cpc[c] \in Ended THEN UNCHANGED <<toClient, lost>>
  ELSE \/ /\ Len(toClient[c]) < Capacity
          /\ toClient' = [toClient EXCEPT ![c] = Append(@, d)]
          /\ UNCHANGED lost
       \/ /\ lost' = lost \union {c}
          /\ UNCHANGED toClient

\* There may be no socket at all.
Bind ==
  /\ spc = "bind"
  /\ spc' \in {"request", "deaf", "failed"}
  /\ UNCHANGED <<udpClient, flen, offset, totalSendBytes, toServer, toClient,
                 clientVars, asker, garbage, lost>>

\* Any first datagram is taken for the name of a file.
ReceiveRequest ==
  /\ spc = "request"
  /\ toServer # <<>>
  /\ toServer' = Tail(toServer)
  /\ udpClient' = Head(toServer).from
  /\ asker' = Head(toServer).from
  /\ spc' = "open"
  /\ UNCHANGED <<flen, offset, totalSendBytes, toClient, clientVars, garbage,
                 lost>>

\* The server ends when it cannot open the file.  Nobody tells the client.
OpenFile ==
  /\ spc = "open"
  /\ spc' \in {"ready", "failed"}
  /\ UNCHANGED <<udpClient, flen, offset, totalSendBytes, toServer, toClient,
                 clientVars, asker, garbage, lost>>

SendReady ==
  /\ spc = "ready"
  /\ SendTo(udpClient, Ready)
  /\ spc' = "answer"
  /\ UNCHANGED <<udpClient, flen, offset, totalSendBytes, toServer,
                 clientVars, asker, garbage>>

\* Mutant: the answer is not compared with "OK".
ReceiveAnyAnswer ==
  /\ spc = "answer"
  /\ toServer # <<>>
  /\ toServer' = Tail(toServer)
  /\ udpClient' = Head(toServer).from
  /\ spc' = "send"
  /\ UNCHANGED <<flen, offset, totalSendBytes, toClient, clientVars, asker,
                 garbage, lost>>

\* The second recvfrom() puts its sender, whoever it is, in udpClient.  The
\* server ends when the text is not "OK".
ReceiveAnswer ==
  /\ spc = "answer"
  /\ toServer # <<>>
  /\ toServer' = Tail(toServer)
  /\ udpClient' = Head(toServer).from
  /\ spc' = IF Head(toServer).text = "OK" THEN "send" ELSE "failed"
  /\ UNCHANGED <<flen, offset, totalSendBytes, toClient, clientVars, asker,
                 garbage, lost>>


\* What a turn of the loop adds to totalSendBytes.
Counted(k) == k

\* Mutant: what read() returned is not looked at, the buffer counts as full.
PortionFull == Chunk

\* What a read() that does not fail returns.
Portion == Smaller(Chunk, flen - offset)

\* Mutant: sendto() is given the buffer from its second unit on.
DatagramOffByOne(k, f) == Data(offset + 1, k)

\* f times sendto() fails, and its -1 makes the next one start one byte (a
\* unit is a byte here) before the place of this one, before the buffer at
\* last.  The client gets no more of it than its own buffer takes.
Datagram(k, f) ==
  IF f = 0 THEN Data(offset, k)
  ELSE [text |-> "data",
        units |-> SubSeq(Zeros(f) \o Data(offset, k).units, 1, Smaller(Chunk, k + f))]

\* One turn of the loop: a read() and a datagram with what it returned.  At
\* the end of the file a count that is still too low makes the loop spin.
SendData(f) ==
  /\ spc = "send"
  /\ totalSendBytes < flen
  /\ offset < flen
  /\ SendTo(udpClient, Datagram(Portion, f))
  /\ offset' = offset + Portion
  /\ totalSendBytes' = Signed(totalSendBytes + Counted(Portion))
  /\ garbage' = IF f = 0 THEN garbage ELSE garbage \union {udpClient}
  /\ UNCHANGED <<spc, udpClient, flen, toServer, clientVars, asker>>

\* read() returned -1: nothing is sent or counted, and the loop turns again.
\* A turn of this kind changes nothing, and a later read() may succeed; this is
\* the step from which on all of them fail, as they do for a directory, which
\* can be opened and has a length.
ReadFails ==
  /\ spc = "send"
  /\ totalSendBytes < flen
  /\ spc' = "spin"
  /\ UNCHANGED <<udpClient, flen, offset, totalSendBytes, toServer, toClient,
                 clientVars, asker, garbage, lost>>

LoopEnds ==
  /\ spc = "send"
  /\ totalSendBytes >= flen
  /\ spc' = "bye"
  /\ UNCHANGED <<udpClient, flen, offset, totalSendBytes, toServer, toClient,
                 clientVars, asker, garbage, lost>>

SendBye ==
  /\ spc = "bye"
  /\ SendTo(udpClient, Bye)
  /\ spc' = "ended"
  /\ UNCHANGED <<udpClient, flen, offset, totalSendBytes, toServer,
                 clientVars, asker, garbage>>

-----------------------------------------------------------------------------
(***************************************************************************)
(* The clients.                                                            *)
(***************************************************************************)

\* sendto() the server, which has a socket on its port from bind() to its end.
SendToServer(c, text) ==
  IF spc \in {"bind", "deaf", "ended", "failed"} THEN UNCHANGED <<toServer, lost>>
  ELSE \/ /\ Len(toServer) < Capacity
          /\ toServer' = Append(toServer, [from |-> c, text |-> text])
          /\ UNCHANGED lost
       \/ /\ lost' = lost \union {c}
          /\ UNCHANGED toServer

SendRequest(c) ==
  /\ cpc[c] = "start"
  /\ SendToServer(c, name[c])
  /\ cpc' = [cpc EXCEPT ![c] = "ready"]
  /\ UNCHANGED <<serverVars, toClient, name, fileSize, totalReadBytes,
                 writeBytes, local, garbage>>

\* The client ends if what it gets is not "READY n".
ReceiveReady(c) ==
  /\ cpc[c] = "ready"
  /\ toClient[c] # <<>>
  /\ toClient' = [toClient EXCEPT ![c] = Tail(@)]
  /\ IF Head(toClient[c]).text = "READY"
     THEN /\ cpc' = [cpc EXCEPT ![c] = "create"]
          /\ fileSize' = [fileSize EXCEPT ![c] = Signed(flen)]
     ELSE /\ cpc' = [cpc EXCEPT ![c] = "failed"]
          /\ UNCHANGED fileSize
  /\ UNCHANGED <<serverVars, toServer, name, totalReadBytes, writeBytes,
                 local, garbage, lost>>

\* The local file is created and the server answered, or the client ends.
CreateFile(c) ==
  /\ cpc[c] = "create"
  /\ \/ /\ SendToServer(c, "OK")
        /\ cpc' = [cpc EXCEPT ![c] = "data"]
     \/ /\ cpc' = [cpc EXCEPT ![c] = "failed"]
        /\ UNCHANGED <<toServer, lost>>
  /\ UNCHANGED <<serverVars, toClient, name, fileSize, totalReadBytes,
                 writeBytes, local, garbage>>

\* One turn of the loop: a datagram, of which the units from writeBytes on are
\* written.  writeBytes goes on from what it was for the datagram before, and
\* it is what totalReadBytes, an int, is increased by.  Each of the f times
\* that write() fails takes it one unit back.
ReceiveData(c, f) ==
  /\ cpc[c] = "data"
  /\ totalReadBytes[c] < fileSize[c]
  /\ toClient[c] # <<>>
  /\ toClient' = [toClient EXCEPT ![c] = Tail(@)]
  /\ LET units == Head(toClient[c]).units
         w == writeBytes[c] - f
     IN IF writeBytes[c] < Len(units)
        THEN /\ local' = [local EXCEPT ![c] = @ \o
                  [i \in 1..(Len(units) - w) |->
                     IF w + i > 0 THEN units[w + i] ELSE 0]]
             /\ writeBytes' = [writeBytes EXCEPT ![c] = Len(units)]
        ELSE f = 0 /\ UNCHANGED <<local, writeBytes>>
  /\ totalReadBytes' = [totalReadBytes EXCEPT ![c] = Signed(@ + writeBytes'[c])]
  /\ garbage' = IF f = 0 THEN garbage ELSE garbage \union {c}
  /\ UNCHANGED <<serverVars, toServer, cpc, name, fileSize, lost>>

\* Mutant: the client does not wait for a datagram after the last one.
DataEndsAtOnce(c) ==
  /\ cpc[c] = "data"
  /\ totalReadBytes[c] >= fileSize[c]
  /\ cpc' = [cpc EXCEPT ![c] = "done"]
  /\ UNCHANGED <<serverVars, toServer, toClient, name, fileSize,
                 totalReadBytes, writeBytes, local, garbage, lost>>

DataEnds(c) ==
  /\ cpc[c] = "data"
  /\ totalReadBytes[c] >= fileSize[c]
  /\ cpc' = [cpc EXCEPT ![c] = "bye"]
  /\ UNCHANGED <<serverVars, toServer, toClient, name, fileSize,
                 totalReadBytes, writeBytes, local, garbage, lost>>

\* Any one more datagram ends the client.
ReceiveBye(c) ==
  /\ cpc[c] = "bye"
  /\ toClient[c] # <<>>
  /\ toClient' = [toClient EXCEPT ![c] = Tail(@)]
  /\ cpc' = [cpc EXCEPT ![c] = "done"]
  /\ UNCHANGED <<serverVars, toServer, name, fileSize, totalReadBytes,
                 writeBytes, local, garbage, lost>>

\* The user interrupts the client.
Interrupt(c) ==
  /\ cpc[c] \notin Ended
  /\ cpc' = [cpc EXCEPT ![c] = "failed"]
  /\ toClient' = [toClient EXCEPT ![c] = <<>>]
  /\ UNCHANGED <<serverVars, toServer, name, fileSize, totalReadBytes,
                 writeBytes, local, garbage, lost>>

-----------------------------------------------------------------------------

ServerStep ==
  \/ Bind
  \/ ReceiveRequest
  \/ OpenFile
  \/ SendReady
  \/ ReceiveAnswer
  \/ \E f \in 0..MaxFaults : SendData(f)
  \/ LoopEnds
  \/ SendBye

ClientStep(c) ==
  \/ SendRequest(c)
  \/ ReceiveReady(c)
  \/ CreateFile(c)
  \/ \E f \in 0..MaxFaults : ReceiveData(c, f)
  \/ DataEnds(c)
  \/ ReceiveBye(c)

Next ==
  \/ ServerStep
  \/ ReadFails
  \/ \E c \in Clients : ClientStep(c)
  \/ \E c \in Clients : Interrupt(c)

Spec == Init /\ [][Next]_vars

\* Both programs run whenever they can.
Fairness ==
  /\ WF_vars(ServerStep)
  /\ \A c \in Clients : WF_vars(ClientStep(c))

FairSpec == Spec /\ Fairness

-----------------------------------------------------------------------------
(***************************************************************************)
(* Correctness.                                                            *)
(***************************************************************************)

Datagrams ==
  {d \in [text : {"READY", "data", "BYE"}, units : Seq(0..MaxLen)] :
     Len(d.units) <= Chunk}

ServerTypes ==
  /\ spc \in SStates
  /\ udpClient \in Clients \union {NoClient}
  /\ asker \in Clients \union {NoClient}
  /\ flen \in 0..MaxLen /\ offset \in 0..flen
  /\ totalSendBytes \in (-IntHalf)..(IntHalf - 1)

QueueTypes ==
  /\ toServer \in Seq([from : Clients, text : {"OK", "other"}])
  /\ Len(toServer) <= Capacity
  /\ toClient \in [Clients -> Seq(Datagrams)]
  /\ \A c \in Clients : Len(toClient[c]) <= Capacity
  /\ lost \subseteq Clients

ClientTypes ==
  /\ cpc \in [Clients -> CStates]
  /\ name \in [Clients -> {"OK", "other"}]
  /\ fileSize \in [Clients -> (-IntHalf)..MaxLen]
  /\ totalReadBytes \in [Clients -> (-IntHalf)..(IntHalf - 1)]
  /\ writeBytes \in [Clients -> (-Leftover)..(Chunk + Leftover)]
  /\ local \in [Clients -> Seq(0..MaxLen)]
  /\ garbage \subseteq Clients

\* Every variable has its type.
TypeOK == ServerTypes /\ QueueTypes /\ ClientTypes

\* Only the client that asked for the file is sent its data, although the
\* server takes the address of whoever writes next and never compares the
\* two: any text but "OK" ends it.  The exception is a client that asks for
\* a file of that name at the wrong moment (server.c:77-79).
DataReachesAsker ==
  \A c \in Clients : \A i \in 1..Len(toClient[c]) :
    toClient[c][i].text # "READY" => c = asker \/ name[c] = "OK"

\* What a client that ends well has is the first datagram of the file, which
\* is all of it if it fits in one: writeBytes is not set back to 0, so of a
\* longer file nothing else is written, however many datagrams arrive
\* (server.c:86-93 sends them all).  Of a file whose length is no int, and is
\* cut to 0 or less, it has nothing (server.c:73); of one of 4 GiB or more
\* whose length is cut to a small number it may have anything.
FirstDatagramArrives ==
  \A c \in Clients : cpc[c] = "done" /\ c \notin garbage =>
    IF Signed(flen) <= 0 THEN local[c] = <<>>
    ELSE flen < IntHalf => local[c] = FirstUnits(Smaller(flen, Chunk))

\* The server sends without waiting and may fill the queue of the client, and
\* nothing is sent again; but a client that lost a datagram never ends well:
\* it counts as many datagrams as there are and waits for one more
\* (server.c:86-95).  One that is told a length below 0 waits for one in all.
LossIsNoticed ==
  \A c \in Clients : cpc[c] = "done" /\ flen < IntHalf => c \notin lost \ garbage

\* A client counts a full buffer for each datagram, so for a length just below
\* what an int holds its count wraps before it gets there.
CountWraps(c) == Chunk * ((fileSize[c] + Chunk - 1) \div Chunk) >= IntHalf

\* A datagram was lost, an int was never assigned, the server is through with
\* errors or its loop spins, it sends to another client, or the client's own
\* count goes below 0.
Excepted(c) ==
  \/ c \in lost \union garbage
  \/ spc \in {"failed", "spin"}
  \/ udpClient # c
  \/ CountWraps(c)


=============================================================================
