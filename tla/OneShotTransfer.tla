-------------------------- MODULE OneShotTransfer --------------------------
(***************************************************************************)
(* file_transfer: a receiver that accepts one connection, writes what it   *)
(* reads from it to a file and ends (server.c:start_server), and the       *)
(* transmitters that send it a file each (client.c:start_client).          *)
(*                                                                         *)
(* A unit stands for some bytes and is known by the transmitter it comes   *)
(* from and its offset in the file.  The content of the files being sent   *)
(* does not change meanwhile.                                              *)
(***************************************************************************)
EXTENDS Integers, Sequences, FiniteSets

CONSTANTS
  Clients,    \* transmitters
  NoClient,   \* value of conn before a connection is accepted
  MaxLen,     \* bound on the length of a file, in units
  Chunk,      \* BUFFERSIZE, the length of the buffers of both programs
  Capacity,   \* units the socket buffers of a connection hold
  Backlog,    \* CONFIG_MAX_CLIENT, given to listen()
  MaxFaults   \* bound on the failures of write() that others may follow

ASSUME ClientsAssumption == IsFiniteSet(Clients) /\ NoClient \notin Clients

ASSUME SizesAssumption ==
  /\ MaxLen \in Nat
  /\ Chunk \in Nat \ {0}
  /\ Capacity \in Nat \ {0}
  /\ Backlog \in Nat \ {0}
  /\ MaxFaults \in Nat

VARIABLES
  spc,              \* where the receiver is
  conn,             \* the transmitter whose connection it accepted
  readBuffer,       \* the portion read from the connection
  totalWriteBytes,  \* how much of it is counted as written, maybe negative
  local,            \* the file it writes
  faults,           \* failures of write() so far, MaxFaults + 1 for no end of them
  backlog,          \* connections made and not accepted
  cpc,              \* where each transmitter is
  len,              \* how much read() gives of its file; an error ends it too
  sent,             \* units of it written to the connection
  portion,          \* end of the portion in its buffer
  net               \* units under way on its connection

serverVars == <<spc, conn, readBuffer, totalWriteBytes, local, faults>>
clientVars == <<cpc, len, sent, portion>>
vars == <<spc, conn, readBuffer, totalWriteBytes, local, faults, backlog, cpc,
          len, sent, portion, net>>

SStates == {"boot", "open", "accept", "read", "write", "full", "close", "ended"}
CStates == {"open", "connect", "read", "write", "spin", "close", "done",
            "crashed"}
Ended == {"done", "crashed"}

Unit(c, i) == [from |-> c, at |-> i]
Garbage == [from |-> NoClient, at |-> 0]
FirstUnits(c, n) == [i \in 1..n |-> Unit(c, i)]

Smaller(m, n) == IF m <= n THEN m ELSE n

FullForGood == faults = MaxFaults + 1

Listening == spc \notin {"boot", "ended"}

Init ==
  /\ spc = "boot" /\ conn = NoClient
  /\ readBuffer = <<>> /\ totalWriteBytes = 0
  /\ local = <<>> /\ faults = 0
  /\ backlog = <<>>
  /\ cpc = [c \in Clients |-> "open"]
  /\ len \in [Clients -> 0..MaxLen]
  /\ sent = [c \in Clients |-> 0]
  /\ portion = [c \in Clients |-> 0]
  /\ net = [c \in Clients |-> <<>>]

-----------------------------------------------------------------------------
(***************************************************************************)
(* The receiver.                                                           *)
(***************************************************************************)

\* newTCPServerSocket4: from here on transmitters can connect.
OpenServer ==
  /\ spc = "boot"
  /\ spc' \in {"open", "ended"}
  /\ UNCHANGED <<conn, readBuffer, totalWriteBytes, local, faults, backlog,
                 clientVars, net>>

\* The file is created or truncated, or the receiver ends and takes the
\* connections made so far with it.
OpenFile ==
  /\ spc = "open"
  /\ \/ spc' = "accept" /\ UNCHANGED backlog
     \/ spc' = "ended"  /\ backlog' = <<>>
  /\ local' = <<>>
  /\ UNCHANGED <<conn, readBuffer, totalWriteBytes, faults, clientVars, net>>

WaitConnection ==
  /\ spc = "accept"
  /\ backlog # <<>>
  /\ conn' = Head(backlog)
  /\ backlog' = Tail(backlog)
  /\ spc' = "read"
  /\ UNCHANGED <<readBuffer, totalWriteBytes, local, faults, clientVars, net>>

\* accept() fails: read(-1) is no more than 0, and the receiver ends with an
\* empty file.
AcceptFails ==
  /\ spc = "accept"
  /\ spc' = "close"
  /\ UNCHANGED <<conn, readBuffer, totalWriteBytes, local, faults, backlog,
                 clientVars, net>>

ReadPortion(k) ==
  /\ spc = "read"
  /\ k <= Len(net[conn])
  /\ readBuffer' = SubSeq(net[conn], 1, k)
  /\ net' = [net EXCEPT ![conn] = SubSeq(@, k + 1, Len(@))]
  /\ totalWriteBytes' = 0
  /\ spc' = "write"
  /\ UNCHANGED <<conn, local, faults, backlog, clientVars>>

\* Mutant: the loop of server.c:62 goes on while read() returns 0.
ReadEndIgnored ==
  /\ spc = "read"
  /\ net[conn] = <<>>
  /\ cpc[conn] \in Ended
  /\ UNCHANGED vars

\* The transmitter closed its end, or the kernel did when it died.
ReadEndOfStream ==
  /\ spc = "read"
  /\ net[conn] = <<>>
  /\ cpc[conn] \in Ended
  /\ spc' = "close"
  /\ UNCHANGED <<conn, readBuffer, totalWriteBytes, local, faults, backlog,
                 clientVars, net>>

\* Mutant: every write() is given the start of the buffer.
WriteFromStart(k) ==
  /\ spc = "write"
  /\ k <= Len(readBuffer) - totalWriteBytes
  /\ local' = local \o [i \in 1..k |->
       IF i <= Len(readBuffer) THEN readBuffer[i] ELSE Garbage]
  /\ totalWriteBytes' = totalWriteBytes + k
  /\ spc' = IF totalWriteBytes' < Len(readBuffer) THEN "write" ELSE "read"
  /\ UNCHANGED <<conn, readBuffer, faults, backlog, clientVars, net>>

\* write() takes k of the units from readBuffer+totalWriteBytes on; before
\* the buffer there is whatever the heap holds.
WritePortion(k) ==
  /\ spc = "write"
  /\ k <= Len(readBuffer) - totalWriteBytes
  /\ local' = local \o [i \in 1..k |->
       IF totalWriteBytes + i > 0 THEN readBuffer[totalWriteBytes + i]
       ELSE Garbage]
  /\ totalWriteBytes' = totalWriteBytes + k
  /\ spc' = IF totalWriteBytes' < Len(readBuffer) THEN "write" ELSE "read"
  /\ UNCHANGED <<conn, readBuffer, faults, backlog, clientVars, net>>

\* Mutant: -1 is added as an unsigned number, and ends the loop.
WriteFailsUnsigned ==
  /\ spc = "write"
  /\ faults < MaxFaults
  /\ faults' = faults + 1
  /\ totalWriteBytes' = Len(readBuffer)
  /\ spc' = "read"
  /\ UNCHANGED <<conn, readBuffer, local, backlog, clientVars, net>>

\* write() fails and its -1 is added to the count: the next one starts one
\* byte (a unit is a byte here) before the place of this one.
WriteFails ==
  /\ spc = "write"
  /\ faults < MaxFaults
  /\ faults' = faults + 1
  /\ totalWriteBytes' = totalWriteBytes - 1
  /\ UNCHANGED <<spc, conn, readBuffer, local, backlog, clientVars, net>>

\* The disk stays full, or the place of the next write() has gone so far down
\* that it is no memory of the program: from now on every write() fails.
DiskFull ==
  /\ spc = "write"
  /\ spc' = "full"
  /\ faults' = MaxFaults + 1
  /\ UNCHANGED <<conn, readBuffer, totalWriteBytes, local, backlog, clientVars,
                 net>>

\* After 2^31 failures the int may turn positive: the loop ends and the rest
\* of the portion is never written.
FullEnds ==
  /\ spc = "full"
  /\ spc' = "read"
  /\ UNCHANGED <<conn, readBuffer, totalWriteBytes, local, faults, backlog,
                 clientVars, net>>

\* The file, the connection and the listening socket are closed, and the
\* kernel resets the connections that were never accepted.
CloseAll ==
  /\ spc = "close"
  /\ spc' = "ended"
  /\ backlog' = <<>>
  /\ UNCHANGED <<conn, readBuffer, totalWriteBytes, local, faults, clientVars,
                 net>>

-----------------------------------------------------------------------------
(***************************************************************************)
(* The transmitters.                                                       *)
(***************************************************************************)

\* The file is opened, or start_client returns at once.
OpenSource(c) ==
  /\ cpc[c] = "open"
  /\ cpc' \in {[cpc EXCEPT ![c] = "connect"], [cpc EXCEPT ![c] = "done"]}
  /\ UNCHANGED <<serverVars, backlog, len, sent, portion, net>>

Connect(c) ==
  /\ cpc[c] = "connect"
  /\ Listening
  /\ Len(backlog) < Backlog
  /\ backlog' = Append(backlog, c)
  /\ cpc' = [cpc EXCEPT ![c] = "read"]
  /\ UNCHANGED <<serverVars, len, sent, portion, net>>

\* Nobody listens, or the address is no address.  The -1 is not looked at, and
\* any data the file has is written to it in a loop that goes down from 0 by
\* one for each failure.
ConnectFails(c) ==
  /\ cpc[c] = "connect"
  /\ cpc' = [cpc EXCEPT ![c] = IF len[c] > 0 THEN "spin" ELSE "close"]
  /\ UNCHANGED <<serverVars, backlog, len, sent, portion, net>>

\* After 2^31 failures the int may turn positive, for each portion of the
\* file, or the division by the time spent ends the program.
SpinEnds(c) ==
  /\ cpc[c] = "spin"
  /\ cpc' \in {[cpc EXCEPT ![c] = "close"], [cpc EXCEPT ![c] = "crashed"]}
  /\ UNCHANGED <<serverVars, backlog, len, sent, portion, net>>

\* Mutant: what read() returned is not looked at, the buffer counts as full.
ReadSourceFull(c) ==
  /\ cpc[c] = "read"
  /\ portion' = [portion EXCEPT ![c] = sent[c] + Chunk]
  /\ cpc' = [cpc EXCEPT ![c] = IF sent[c] < len[c] THEN "write" ELSE "close"]
  /\ UNCHANGED <<serverVars, backlog, len, sent, net>>

ReadSource(c) ==
  /\ cpc[c] = "read"
  /\ portion' = [portion EXCEPT ![c] = Smaller(sent[c] + Chunk, len[c])]
  /\ cpc' = [cpc EXCEPT ![c] = IF sent[c] < len[c] THEN "write" ELSE "close"]
  /\ UNCHANGED <<serverVars, backlog, len, sent, net>>

\* The receiver still has the connection, accepted or queued.
Connected(c) ==
  /\ Listening
  /\ c = conn \/ \E i \in 1..Len(backlog) : backlog[i] = c

\* A portion that was sent is followed by a division by the time it took,
\* which ends the program when that is 0.
WriteSource(c, k) ==
  /\ cpc[c] = "write"
  /\ Connected(c)
  /\ k <= portion[c] - sent[c]
  /\ Len(net[c]) + k <= Capacity
  /\ net' = [net EXCEPT ![c] = @ \o [i \in 1..k |-> Unit(c, sent[c] + i)]]
  /\ sent' = [sent EXCEPT ![c] = @ + k]
  /\ IF sent'[c] < portion[c] THEN UNCHANGED cpc
     ELSE cpc' \in {[cpc EXCEPT ![c] = "read"], [cpc EXCEPT ![c] = "crashed"]}
  /\ UNCHANGED <<serverVars, backlog, len, portion>>

\* Mutant: what is written to a connection that was reset counts as sent.
WriteIgnored(c) ==
  /\ cpc[c] = "write"
  /\ ~Connected(c)
  /\ sent' = [sent EXCEPT ![c] = portion[c]]
  /\ cpc' = [cpc EXCEPT ![c] = "read"]
  /\ UNCHANGED <<serverVars, backlog, len, portion, net>>

\* The receiver is gone: the first write() fails, the loop repeats it and
\* SIGPIPE ends the program.
BrokenPipe(c) ==
  /\ cpc[c] = "write"
  /\ ~Connected(c)
  /\ cpc' = [cpc EXCEPT ![c] = "crashed"]
  /\ UNCHANGED <<serverVars, backlog, len, sent, portion, net>>

CloseClient(c) ==
  /\ cpc[c] = "close"
  /\ cpc' = [cpc EXCEPT ![c] = "done"]
  /\ UNCHANGED <<serverVars, backlog, len, sent, portion, net>>

\* The user interrupts the transmitter.
Interrupt(c) ==
  /\ cpc[c] \notin Ended
  /\ cpc' = [cpc EXCEPT ![c] = "crashed"]
  /\ UNCHANGED <<serverVars, backlog, len, sent, portion, net>>

-----------------------------------------------------------------------------

ServerStep ==
  \/ OpenServer
  \/ OpenFile
  \/ WaitConnection
  \/ \E k \in 1..Chunk : ReadPortion(k)
  \/ ReadEndOfStream
  \/ \E k \in 1..(Chunk + MaxFaults) : WritePortion(k)
  \/ CloseAll

ClientStep(c) ==
  \/ OpenSource(c)
  \/ ReadSource(c)
  \/ \E k \in 1..Chunk : WriteSource(c, k)
  \/ BrokenPipe(c)
  \/ CloseClient(c)

Next ==
  \/ ServerStep
  \/ AcceptFails
  \/ WriteFails
  \/ DiskFull
  \/ FullEnds
  \/ \E c \in Clients : ClientStep(c)
  \/ \E c \in Clients : Connect(c) \/ ConnectFails(c)
  \/ \E c \in Clients : SpinEnds(c)
  \/ \E c \in Clients : Interrupt(c)

Spec == Init /\ [][Next]_vars

\* Both programs run whenever they can.  Nothing has to connect, to fail or
\* to be interrupted, and no count has to overflow.
FairSpec ==
  /\ Spec
  /\ WF_vars(ServerStep)
  /\ \A c \in Clients : WF_vars(ClientStep(c))

-----------------------------------------------------------------------------
(***************************************************************************)
(* Correctness.                                                            *)
(***************************************************************************)

Units == [from : Clients \union {NoClient}, at : 0..MaxLen]

\* Every variable has its type.
TypeOK ==
  /\ spc \in SStates
  /\ conn \in Clients \union {NoClient}
  /\ spc \in {"read", "write", "full"} => conn \in Clients
  /\ readBuffer \in Seq(Units) /\ Len(readBuffer) <= Chunk
  /\ totalWriteBytes \in (-MaxFaults)..Len(readBuffer)
  /\ local \in Seq(Units)
  /\ faults \in 0..(MaxFaults + 1)
  /\ backlog \in Seq(Clients) /\ Len(backlog) <= Backlog
  /\ cpc \in [Clients -> CStates]
  /\ len \in [Clients -> 0..MaxLen]
  /\ sent \in [Clients -> 0..MaxLen]
  /\ portion \in [Clients -> 0..MaxLen]
  /\ net \in [Clients -> Seq(Units)]
  /\ \A c \in Clients : Len(net[c]) <= Capacity

\* What the receiver has read and not written yet.
Unwritten ==
  IF spc = "write"
  THEN SubSeq(readBuffer, totalWriteBytes + 1, Len(readBuffer)) ELSE <<>>

\* However many transmitters connect, and whatever portions are read and
\* written, the receiver's file holds the units of the accepted one and of no
\* other, in order and each once, and what it has not got yet is under way;
\* when the receiver ends after a transmitter that ended well, it has the
\* whole file, as far as that could be read (server.c:62-70, 80,
\* client.c:49-56).
OneSender ==
  faults = 0 =>
    IF conn = NoClient THEN local = <<>>
    ELSE /\ local \o Unwritten \o net[conn] = FirstUnits(conn, sent[conn])
         /\ spc = "ended" /\ cpc[conn] = "done" =>
              local = FirstUnits(conn, len[conn])

\* A failed write() to the file never loses data of the transmitter.  Each
\* leaves one unit too many in the file, a repeated one or one from before
\* the buffer (server.c:64-68); unless they have no end, or one only by the
\* overflow of the count.
FailedWritesOnlyAdd ==
  spc \in {"read", "close", "ended"} /\ conn # NoClient /\ ~FullForGood =>
    LET received == sent[conn] - Len(net[conn]) IN
    /\ Len(local) = received + faults
    /\ \A i \in 1..received : \E j \in 1..Len(local) : local[j] = Unit(conn, i)

\* A transmitter may send all of its file to a receiver that never accepts
\* it, and end as if it had arrived, but only if the socket buffers take all
\* of it: with more than that it waits, and the end of the receiver ends it
\* too (server.c:57, 79, client.c:53).
UnnoticedLossIsSmall ==
  \A c \in Clients : sent[c] = len[c] /\ c # conn => len[c] <= Capacity

\* Once it has a connection the receiver comes to its end, and so does a
\* transmitter that connected, also one that waits in the queue, with its
\* socket buffers full, for a receiver that will not take it (server.c:62, 79
\* closes the listening socket).  Only a disk that is full for good stops the
\* receiver, in a loop that counts down (server.c:65-68), and with it the
\* transmitters that have more to send than their socket buffers take.
ProgramsEnd ==
  /\ <>[](conn # NoClient => spc \in {"ended", "full"})
  /\ \A c \in Clients : <>[](cpc[c] \in {"read", "write"} =>
       spc = "full" /\ cpc[c] = "write" /\ Len(net[c]) = Capacity)

=============================================================================
