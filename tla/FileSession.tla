---------------------------- MODULE FileSession ----------------------------
(***************************************************************************)
(* One session of FileTransfer_Proyecto: the child that runs start_protocol*)
(* of server.c on its connection, and at the other end start_protocol (a   *)
(* GET) or get_list (a LIST) of client.c.                                  *)
(*                                                                         *)
(* The connection is two streams.  An item of the stream to the client is  *)
(* what one sendLine writes, or one unit of file data; a unit stands for   *)
(* some bytes and is known by its offset in the file, so that a lost,      *)
(* repeated or misplaced one shows.  Lines are read byte by byte up to the *)
(* terminator, data in whatever portions read() and write() take.          *)
(* Another process may truncate the file or append to it in mid-transfer.  *)
(***************************************************************************)
EXTENDS Integers, Sequences

CONSTANTS
  MaxLen,      \* bound on the length of the file, in units
  MaxEntries,  \* bound on the entries of baseDir
  Chunk,       \* length of the buffers read() and write() are given, 102400
  Heap,        \* what the child may read from the start of readBuffer on
  Capacity,    \* items the socket buffers of the connection hold
  SizeMod      \* values of a u_int, 2^32

ASSUME BoundsAssumption ==
  /\ MaxLen \in Nat
  /\ MaxEntries \in Nat

ASSUME BuffersAssumption ==
  /\ Chunk \in Nat \ {0}
  /\ Heap \in Nat /\ Chunk <= Heap
  /\ Capacity \in Nat \ {0}
  /\ SizeMod \in Nat /\ Heap < SizeMod - 1

VARIABLES
  spc,         \* where the child is in start_protocol, doGet or doList
  flen,        \* length of the requested file
  st_size,     \* its length when fstat() looked
  offset,      \* units of it that read() has returned
  readBytes,   \* length of the portion in readBuffer
  writeBytes,  \* how much of that portion has been written
  stray,       \* history: units sent to the client that read() did not return
  entries,     \* entries readdir() has still to return
  c2s,         \* commands sent to the child and not read
  s2c,         \* items sent to the client and not read
  prog,        \* the client program: "get" or "list"
  cpc,         \* where it is
  answer,      \* kinds of the lines read so far in answer to the command
  size,        \* the length announced in the answer
  totalReadBytes,  \* units of data it has read
  local,       \* the local file
  events       \* history: what happened to the session from outside, and
               \* whether the copy came to its end

transfer == <<st_size, offset, readBytes, writeBytes, stray>>
serverVars == <<spc, transfer, entries>>
clientVars == <<prog, cpc, answer, size, totalReadBytes, local>>
vars == <<spc, flen, st_size, offset, readBytes, writeBytes, stray, entries,
          c2s, s2c, prog, cpc, answer, size, totalReadBytes, local, events>>

\* The child in service, by what it does next, and after it.
Sending == {"noname", "notfound", "nodir", "ok", "size", "blank", "write", "list"}
Serving == Sending \union {"command", "open", "opendir", "stat", "read"}
SStates == Serving \union {"done", "dead"}

CStates == {"start", "header", "listing", "create", "copy", "quit", "close",
            "closed", "crashed"}

Kinds == {"OK", "NOT_FOUND", "ERROR", "size", "blank", "entry", "data"}
Line(k) == [kind |-> k, n |-> 0]
Data(i) == [kind |-> "data", n |-> i]
Foreign == Data(0)  \* what the heap holds where no unit of the file belongs
Commands == {"GET", "GET_no_name", "LIST", "QUIT"}
Events == {"shrank", "grew", "killed", "interrupted", "disk_full",
           "read_failed", "copied"}

\* read() of the file has returned -1.
ReadFailed == "read_failed" \in events

\* One end is closed, by close() or by the end of its process.
ClientGone == cpc \in {"closed", "crashed"}
ServerGone == spc \in {"done", "dead"}

Smaller(m, n) == IF m <= n THEN m ELSE n

Init ==
  /\ spc = "command"
  /\ flen \in 0..MaxLen
  /\ st_size = 0 /\ offset = 0 /\ readBytes = 0 /\ writeBytes = 0
  /\ stray = 0
  /\ entries \in 0..MaxEntries
  /\ c2s = <<>> /\ s2c = <<>>
  /\ prog \in {"get", "list"}
  /\ cpc = "start"
  /\ answer = {} /\ size = 0 /\ totalReadBytes = 0 /\ local = <<>>
  /\ events = {}

-----------------------------------------------------------------------------
(***************************************************************************)
(* The child.                                                              *)
(***************************************************************************)

\* sendLine: waits for room; what is sent to a client that is gone is dropped
\* (or write() fails, which the unsigned count takes for the end of the line).
SendLine(item) ==
  IF ClientGone THEN UNCHANGED s2c
  ELSE Len(s2c) < Capacity /\ s2c' = Append(s2c, item)

\* start_protocol reads a command up to its terminator.
ReadCommand ==
  /\ spc = "command"
  /\ c2s # <<>>
  /\ c2s' = Tail(c2s)
  /\ spc' = CASE Head(c2s) = "GET"         -> "open"
              [] Head(c2s) = "GET_no_name" -> "noname"
              [] Head(c2s) = "LIST"        -> "opendir"
              [] Head(c2s) = "QUIT"        -> "done"
  /\ UNCHANGED <<flen, transfer, entries, s2c, clientVars, events>>

\* The stream ended: the command is empty and strcmp(NULL, "GET") is fatal.
ReadEndOfStream ==
  /\ spc = "command"
  /\ c2s = <<>>
  /\ ClientGone
  /\ spc' = "dead"
  /\ UNCHANGED <<flen, transfer, entries, c2s, s2c, clientVars, events>>

\* doGet opens the file.
OpenFile ==
  /\ spc = "open"
  /\ spc' \in {"ok", "notfound"}
  /\ offset' = 0
  /\ UNCHANGED <<flen, st_size, readBytes, writeBytes, stray, entries, c2s, s2c,
                 clientVars, events>>

\* Mutant: doGet returns without an answer when the file cannot be opened.
AnswerNotFoundMissing ==
  /\ \/ spc = "noname"   /\ SendLine(Line("ERROR"))     /\ spc' = "command"
     \/ spc = "nodir"    /\ SendLine(Line("ERROR"))     /\ spc' = "command"
     \/ spc = "notfound" /\ UNCHANGED s2c               /\ spc' = "command"
     \/ spc = "ok"       /\ SendLine(Line("OK"))        /\ spc' = "stat"
  /\ UNCHANGED <<flen, transfer, entries, c2s, clientVars, events>>

\* Mutant: after an ERROR or NOT_FOUND the child returns to start_server.
AnswerErrorAndReturn ==
  /\ \/ spc \in {"noname", "nodir"} /\ SendLine(Line("ERROR")) /\ spc' = "done"
     \/ spc = "notfound" /\ SendLine(Line("NOT_FOUND")) /\ spc' = "done"
     \/ spc = "ok"       /\ SendLine(Line("OK"))        /\ spc' = "stat"
  /\ UNCHANGED <<flen, transfer, entries, c2s, clientVars, events>>

\* The answers of one line: "OK", "NOT_FOUND ...", "ERROR ..." and, when the
\* directory cannot be opened, "INTENRAL ERROR ...".
AnswerLine ==
  /\ \/ spc = "noname"   /\ SendLine(Line("ERROR"))     /\ spc' = "command"
     \/ spc = "nodir"    /\ SendLine(Line("ERROR"))     /\ spc' = "command"
     \/ spc = "notfound" /\ SendLine(Line("NOT_FOUND")) /\ spc' = "command"
     \/ spc = "ok"       /\ SendLine(Line("OK"))        /\ spc' = "stat"
  /\ UNCHANGED <<flen, transfer, entries, c2s, clientVars, events>>

StatFile ==
  /\ spc = "stat"
  /\ st_size' = flen
  /\ spc' = "size"
  /\ UNCHANGED <<flen, offset, readBytes, writeBytes, stray, entries, c2s, s2c,
                 clientVars, events>>

\* "Size: %u", with the length cut to the width of a u_int.
SendSize ==
  /\ spc = "size"
  /\ SendLine([kind |-> "size", n |-> st_size % SizeMod])
  /\ spc' = "blank"
  /\ UNCHANGED <<flen, transfer, entries, c2s, clientVars, events>>

\* Mutant: the blank line after the size is missing.
SendBlankMissing ==
  /\ spc = "blank"
  /\ spc' = "read"
  /\ UNCHANGED <<flen, transfer, entries, c2s, s2c, clientVars, events>>

SendBlank ==
  /\ spc = "blank"
  /\ SendLine(Line("blank"))
  /\ spc' = "read"
  /\ UNCHANGED <<flen, transfer, entries, c2s, clientVars, events>>

\* Mutant: writeBytes is not set back to 0 for the next portion.
ReadKeepsCount ==
  /\ spc = "read"
  /\ readBytes' = IF offset < flen THEN Smaller(Chunk, flen - offset) ELSE 0
  /\ offset' = offset + readBytes'
  /\ spc' = IF readBytes' > writeBytes THEN "write"
            ELSE IF readBytes' > 0 THEN "read" ELSE "command"
  /\ UNCHANGED <<flen, st_size, writeBytes, stray, entries, c2s, s2c,
                 clientVars, events>>

\* read() returns a full buffer or what is left of the file as it is now;
\* with nothing left doGet returns and the next command is awaited.
ReadFile ==
  /\ spc = "read"
  /\ readBytes' = IF offset < flen THEN Smaller(Chunk, flen - offset) ELSE 0
  /\ writeBytes' = 0
  /\ offset' = offset + readBytes'
  /\ spc' = IF readBytes' > 0 THEN "write" ELSE "command"
  /\ UNCHANGED <<flen, st_size, stray, entries, c2s, s2c, clientVars, events>>

\* Mutant: after a short write the portion is sent from its start again.
PortionFromStart(k) ==
  [i \in 1..k |-> IF ReadFailed THEN Foreign ELSE Data(offset - readBytes + i)]

\* The k units write() is given start at readBuffer+writeBytes.  After a read
\* that failed they are what the buffer and the heap behind it hold.
Portion(k) ==
  [i \in 1..k |-> IF ReadFailed THEN Foreign
                  ELSE Data(offset - readBytes + writeBytes + i)]

\* write() takes what there is room for, and no more than may be read.
WriteData(k) ==
  /\ spc = "write"
  /\ k <= Smaller(readBytes, Heap) - writeBytes
  /\ IF ClientGone THEN UNCHANGED <<s2c, stray>>
     ELSE /\ Len(s2c) + k <= Capacity
          /\ s2c' = s2c \o Portion(k)
          /\ stray' = IF ReadFailed THEN stray + k ELSE stray
  /\ writeBytes' = writeBytes + k
  /\ spc' = IF writeBytes' < readBytes THEN "write" ELSE "read"
  /\ UNCHANGED <<flen, st_size, offset, readBytes, entries, c2s, clientVars,
                 events>>

\* At the end of the heap write() fails, and its -1 takes the count one back:
\* the last of it is sent again and again.
WriteFaults ==
  /\ spc = "write"
  /\ writeBytes = Heap
  /\ writeBytes' = writeBytes - 1
  /\ UNCHANGED <<spc, flen, st_size, offset, readBytes, stray, entries, c2s,
                 s2c, clientVars, events>>

\* doList opens the directory, and sends one line per entry, then "\r\n".
OpenDirectory ==
  /\ spc = "opendir"
  /\ spc' \in {"list", "nodir"}
  /\ UNCHANGED <<flen, transfer, entries, c2s, s2c, clientVars, events>>

SendEntry ==
  /\ spc = "list"
  /\ entries > 0
  /\ SendLine(Line("entry"))
  /\ entries' = entries - 1
  /\ UNCHANGED <<spc, flen, transfer, c2s, clientVars, events>>

EndList ==
  /\ spc = "list"
  /\ entries = 0
  /\ SendLine(Line("blank"))
  /\ spc' = "command"
  /\ UNCHANGED <<flen, transfer, entries, c2s, clientVars, events>>

\* Writing to a client that is gone kills the child (SIGPIPE): not always the
\* first time, but once the other end has reset the connection.
BrokenPipe ==
  /\ spc \in Sending
  /\ ClientGone
  /\ spc' = "dead"
  /\ UNCHANGED <<flen, transfer, entries, c2s, s2c, clientVars, events>>

-----------------------------------------------------------------------------
(***************************************************************************)
(* The client program.                                                     *)
(***************************************************************************)

SendCommand(cmd) ==
  c2s' = IF ServerGone THEN c2s ELSE Append(c2s, cmd)

\* The request; the name of the remote file may be the empty argument.
SendRequest ==
  /\ cpc = "start"
  /\ \/ prog = "get"  /\ SendCommand("GET")         /\ cpc' = "header"
     \/ prog = "get"  /\ SendCommand("GET_no_name") /\ cpc' = "header"
     \/ prog = "list" /\ SendCommand("LIST")        /\ cpc' = "listing"
  /\ UNCHANGED <<flen, serverVars, s2c, prog, answer, size, totalReadBytes,
                 local, events>>

\* The line is the last of an answer to GET: it ends in "\r\n\r\n", or makes
\* the one before end so.
EndsAnswer(item) == item.kind \in {"blank", "NOT_FOUND", "ERROR"}

\* start_protocol reads its answer into a buffer it has not initialised
\* (client.c:102), so that even an OK may go unrecognised.  "NOT_FOUND name"
\* is not the NOT_FOUND it compares with: that too is an unknown answer.
ReadHeader ==
  LET item == Head(s2c) IN
  /\ cpc = "header"
  /\ s2c # <<>>
  /\ s2c' = Tail(s2c)
  /\ answer' = answer \union {item.kind}
  /\ size' = IF item.kind = "size" THEN item.n ELSE size
  /\ cpc' \in IF ~EndsAnswer(item) THEN {"header"}
              ELSE IF "OK" \in answer THEN {"create", "quit"} ELSE {"quit"}
  /\ UNCHANGED <<flen, serverVars, c2s, prog, totalReadBytes, local, events>>

\* The stream ends within the answer, which is taken as it is.  After an OK
\* and no size strstr returns NULL and the client crashes.
HeaderEnds ==
  /\ cpc = "header"
  /\ s2c = <<>>
  /\ ServerGone
  /\ cpc' \in CASE "size" \in answer -> {"create", "quit"}
                [] answer = {"OK"}   -> {"crashed", "quit"}
                [] answer = {}       -> {"quit"}
  /\ UNCHANGED <<flen, serverVars, c2s, s2c, prog, answer, size,
                 totalReadBytes, local, events>>

\* doGet creates the local file, or cannot and returns at once.
CreateFile ==
  /\ cpc = "create"
  /\ cpc' \in {"copy", "quit"}
  /\ UNCHANGED <<flen, serverVars, c2s, s2c, prog, answer, size,
                 totalReadBytes, local, events>>

\* One turn of doGet's loop: read() returns k units.  When write() to the
\* local file fails they are counted all the same.
CopyData(k) ==
  /\ cpc = "copy"
  /\ totalReadBytes < size
  /\ k <= Len(s2c)
  /\ s2c' = SubSeq(s2c, k + 1, Len(s2c))
  /\ totalReadBytes' = totalReadBytes + k
  /\ \/ /\ local' = local \o [i \in 1..k |-> s2c[i].n]
        /\ UNCHANGED events
     \/ /\ events' = events \union {"disk_full"}
        /\ UNCHANGED local
  /\ UNCHANGED <<flen, serverVars, c2s, prog, cpc, answer, size>>

\* Mutant: the loop ends when there is nothing to read at the moment.
CopyEndsWhenDry ==
  /\ cpc = "copy"
  /\ totalReadBytes >= size \/ s2c = <<>>
  /\ cpc' = "quit"
  /\ events' = events \union {"copied"}
  /\ UNCHANGED <<flen, serverVars, c2s, s2c, prog, answer, size,
                 totalReadBytes, local>>

\* The loop ends.  It does not when the stream ends first: read() returns 0
\* for ever, a step that changes nothing.
CopyEnds ==
  /\ cpc = "copy"
  /\ totalReadBytes >= size
  /\ cpc' = "quit"
  /\ events' = events \union {"copied"}
  /\ UNCHANGED <<flen, serverVars, c2s, s2c, prog, answer, size,
                 totalReadBytes, local>>

\* Mutant: start_protocol returns without a QUIT.
SendNoQuit ==
  /\ cpc = "quit"
  /\ cpc' = "close"
  /\ UNCHANGED <<flen, serverVars, c2s, s2c, prog, answer, size,
                 totalReadBytes, local, events>>

SendQuit ==
  /\ cpc = "quit"
  /\ SendCommand("QUIT")
  /\ cpc' = "close"
  /\ UNCHANGED <<flen, serverVars, s2c, prog, answer, size, totalReadBytes,
                 local, events>>

\* get_list reads lines up to a blank one that has a line before it.
ReadList ==
  LET item == Head(s2c) IN
  /\ cpc = "listing"
  /\ s2c # <<>>
  /\ s2c' = Tail(s2c)
  /\ answer' = answer \union {item.kind}
  /\ cpc' = IF item.kind = "ERROR" \/ (item.kind = "blank" /\ answer # {})
            THEN "close" ELSE "listing"
  /\ UNCHANGED <<flen, serverVars, c2s, prog, size, totalReadBytes, local,
                 events>>

ListEnds ==
  /\ cpc = "listing"
  /\ s2c = <<>>
  /\ ServerGone
  /\ cpc' = "close"
  /\ UNCHANGED <<flen, serverVars, c2s, s2c, prog, answer, size,
                 totalReadBytes, local, events>>

\* The client's end is closed.  With data unread that resets the connection,
\* and a command the child has not read yet may be lost.
CloseConnection ==
  /\ s2c' = <<>>
  /\ c2s' \in IF s2c = <<>> THEN {c2s} ELSE {c2s, <<>>}
  /\ cpc' = "closed"
  /\ UNCHANGED <<flen, serverVars, prog, answer, size, totalReadBytes, local>>

CloseClient ==
  /\ cpc = "close"
  /\ CloseConnection
  /\ UNCHANGED events

-----------------------------------------------------------------------------
(***************************************************************************)
(* What else happens: the user interrupts the client or kills the child,   *)
(* the file cannot be read, another process truncates it or appends to it. *)
(***************************************************************************)

Interrupt ==
  /\ ~ClientGone
  /\ CloseConnection
  /\ events' = events \union {"interrupted"}

KillChild ==
  /\ spc \in Serving
  /\ spc' = "dead"
  /\ events' = events \union {"killed"}
  /\ UNCHANGED <<flen, transfer, entries, c2s, s2c, clientVars>>

\* read() fails, for an I/O error or because the name is a directory's.  The
\* -1 is kept in a u_int: the largest portion there is.
ReadFails ==
  /\ spc = "read"
  /\ readBytes' = SizeMod - 1
  /\ writeBytes' = 0
  /\ spc' = "write"
  /\ events' = events \union {"read_failed"}
  /\ UNCHANGED <<flen, st_size, offset, stray, entries, c2s, s2c, clientVars>>

ChangeFile(n) ==
  /\ spc \in {"size", "blank", "read", "write"}
  /\ n # flen
  /\ flen' = n
  /\ events' = events \union {IF n < flen THEN "shrank" ELSE "grew"}
  /\ UNCHANGED <<serverVars, c2s, s2c, clientVars>>

-----------------------------------------------------------------------------

ServerStep ==
  \/ ReadCommand
  \/ ReadEndOfStream
  \/ OpenFile
  \/ AnswerLine
  \/ StatFile
  \/ SendSize
  \/ SendBlank
  \/ ReadFile
  \/ \E k \in 1..Heap : WriteData(k)
  \/ WriteFaults
  \/ OpenDirectory
  \/ SendEntry
  \/ EndList
  \/ BrokenPipe

ClientStep ==
  \/ SendRequest
  \/ ReadHeader
  \/ HeaderEnds
  \/ CreateFile
  \/ \E k \in 1..Chunk : CopyData(k)
  \/ CopyEnds
  \/ SendQuit
  \/ ReadList
  \/ ListEnds
  \/ CloseClient

Next ==
  \/ ServerStep
  \/ ClientStep
  \/ Interrupt
  \/ KillChild
  \/ ReadFails
  \/ \E n \in 0..MaxLen : ChangeFile(n)

Spec == Init /\ [][Next]_vars

\* Both processes run whenever they can, and the reset of a connection whose
\* other end is closed does arrive; nobody has to interrupt, kill or change
\* anything, and no read has to fail.
FairSpec ==
  Spec /\ WF_vars(ServerStep) /\ WF_vars(BrokenPipe) /\ WF_vars(ClientStep)

-----------------------------------------------------------------------------
(***************************************************************************)
(* Correctness.                                                            *)
(***************************************************************************)

Items == [kind : Kinds, n : Nat]

ServerTypes ==
  /\ spc \in SStates
  /\ flen \in 0..MaxLen /\ st_size \in 0..MaxLen /\ offset \in 0..MaxLen
  /\ readBytes \in 0..Chunk \/ (ReadFailed /\ readBytes = SizeMod - 1)
  /\ writeBytes \in 0..Smaller(readBytes, Heap)
  /\ stray \in Nat
  /\ entries \in 0..MaxEntries

StreamTypes ==
  /\ c2s \in Seq(Commands)
  /\ s2c \in Seq(Items)
  /\ Len(s2c) <= Capacity

ClientTypes ==
  /\ prog \in {"get", "list"}
  /\ cpc \in CStates
  /\ answer \subseteq Kinds
  /\ size \in Nat
  /\ totalReadBytes \in Nat
  /\ local \in Seq(Nat)
  /\ events \subseteq Events

\* Every variable has its type.
TypeOK == ServerTypes /\ StreamTypes /\ ClientTypes

FirstUnits(n) == [i \in 1..n |-> i]

\* Units written to the connection, and how many of the items now in the
\* stream to the client are lines if nothing of what was written is missing.
Written ==
  IF ReadFailed THEN offset + stray ELSE offset - readBytes + writeBytes
Lines == Len(s2c) - (Written - totalReadBytes)

\* What the u-th unit on the connection has to be: that of the file, or after
\* a read that failed something else.
Unit(u) == IF ReadFailed /\ u > offset THEN Foreign ELSE Data(u)

\* Whatever portions write() and read() take on either side, what is under
\* way is some lines and then the very units that follow those the client
\* has read, each once, in order and up to the last one written
\* (server.c:182-187, client.c:155-163).  Only when read() has failed, and
\* only behind everything that it returned before, is there anything else:
\* the -1 counts as a portion of 4294967295 bytes (server.c:182).
NothingLostOrRepeated ==
  ~ClientGone =>
    /\ 0 <= Lines /\ Lines <= Len(s2c)
    /\ \A i \in 1..Len(s2c) :
         IF i <= Lines THEN s2c[i].kind # "data"
         ELSE s2c[i] = Unit(totalReadBytes + i - Lines)

\* A copy that came to its end is exactly the file that was announced, unless
\* the file grew meanwhile (then the client reads on past the announced
\* length), or is longer than a u_int can say (then it stops short), or the
\* local disk refused data, which the client does not tell anybody, or read()
\* failed at the server, which sends its heap instead of an error.
ExactCopy ==
  "copied" \in events =>
    \/ local = FirstUnits(st_size)
    \/ "grew" \in events
    \/ st_size >= SizeMod
    \/ "disk_full" \in events
    \/ ReadFailed

ServerWaits == spc = "command" /\ c2s = <<>>
ClientWaits ==
  /\ s2c = <<>>
  /\ cpc \in {"header", "listing"} \/ (cpc = "copy" /\ totalReadBytes < size)

\* get_list has read the "\r\n" that is all doList sends of an empty directory.
ReadEmptyList == cpc = "listing" /\ answer = {"blank"}

\* The two never wait for each other, except over the list of an empty
\* directory, which has no "\r\n\r\n" (server.c:140, client.c:70), and over
\* a file that was truncated after its length was announced (server.c:176).
NoMutualWait ==
  ServerWaits /\ ClientWaits => ReadEmptyList \/ "shrank" \in events

\* A child whose client copied a whole file gets its QUIT, and goes on to its
\* close() instead of dying on an empty command or a broken pipe: unless it
\* has still to send, because the file grew or is longer than announced, or
\* because read() failed and what it sends has no end.
QuitIsHeard ==
  "copied" \in events /\ spc = "dead" =>
    events \intersect {"killed", "interrupted", "grew", "read_failed"} # {}
      \/ st_size >= SizeMod

\* The client program ends, however the answer comes, unless it is the list
\* of an empty directory or the copy of a file that was truncated, or of one
\* whose child was killed (the loop of client.c:155 never sees the end of the
\* stream).  The child does not outlive the client, whatever that did and
\* whether or not it said QUIT: it closes the connection or dies.
SessionEnds ==
  /\ <>[](\/ ClientGone
          \/ ReadEmptyList
          \/ cpc = "copy" /\ events \intersect {"shrank", "killed"} # {})
  /\ ClientGone ~> ServerGone

-----------------------------------------------------------------------------
(***************************************************************************)
(* The session implements FileCopy.  What the remote file has been seen to *)
(* hold is what fstat() announced and what read() returned.  The copy is   *)
(* broken once the local disk has refused data, or the client has received *)
(* more than read() returned before it failed.                             *)
(***************************************************************************)

CopyBroken ==
  "disk_full" \in events \/ (ReadFailed /\ Len(local) > offset)

CopyStatus ==
  IF CopyBroken THEN "broken"
  ELSE IF "copied" \in events THEN "complete"
  ELSE IF cpc \in {"start", "header", "listing", "create"} THEN "waiting"
  ELSE IF cpc = "copy" THEN "receiving" ELSE "failed"

Announced == IF CopyStatus \in {"waiting", "failed"} THEN 0 ELSE size
Extent == IF offset > st_size THEN offset ELSE st_size

Copy == INSTANCE FileCopy WITH
  status <- CopyStatus,
  want   <- Announced,
  extent <- Extent

\* A GET delivers what FileCopy promises, for every interleaving of the two
\* programs and every change to the file meanwhile.
ImplementsFileCopy == Copy!Spec

-----------------------------------------------------------------------------
(***************************************************************************)
(* Seen from further away the two programs are a session of ServerSession, *)
(* like those that ForkServer gives its clients.                           *)
(***************************************************************************)

ClientStatus ==
  CASE cpc = "start"                                 -> "connected"
    [] cpc \in {"header", "listing", "create", "copy"} -> "waiting"
    [] cpc \in {"quit", "close"}                     -> "answered"
    [] OTHER                                         -> "gone"

ChildStatus ==
  IF ~ServerGone THEN "serving"
  ELSE IF "killed" \in events THEN "killed" ELSE "ended"

Input ==
  IF c2s = <<>> THEN "none"
  ELSE IF Head(c2s) = "QUIT" THEN "QUIT" ELSE "request"

Session == INSTANCE ServerSession WITH
  client <- ClientStatus,
  child  <- ChildStatus,
  input  <- Input

\* The client never goes on before its request was read, nor does the child
\* leave before QUIT or the end of the stream, however the answer comes.
ImplementsSession == Session!Spec

=============================================================================
