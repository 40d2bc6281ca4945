------------------------- MODULE UdpTransferProofs -------------------------
(***************************************************************************)
(* Proofs about UdpTransfer, for any clients, lengths and queues and any   *)
(* number of failed calls: the types of its variables, that nobody is sent *)
(* the data but the client that asked for it, or one whose file is called  *)
(* OK, that a client that ends well has the first datagram of the file,    *)
(* and that it lost none.                                                  *)
(***************************************************************************)
EXTENDS UdpTransfer, SequenceTheorems, TLAPS

(***************************************************************************)
(* What the operators make.                                                *)
(***************************************************************************)

Units == 0..MaxLen

LEMMA Sizes ==
  /\ MaxLen \in Nat /\ Chunk \in Nat /\ 0 < Chunk
  /\ ByeLen \in Nat /\ ByeLen <= Chunk
  /\ Capacity \in Nat /\ 0 < Capacity /\ Leftover \in Nat /\ MaxFaults \in Nat
  /\ IntHalf \in Nat /\ 0 < IntHalf /\ Chunk < IntHalf /\ Leftover < IntHalf
  BY SizesAssumption

\* The remainder of a natural number is below the divisor and not above the
\* number.
LEMMA ModBelow ==
  ASSUME NEW n \in Nat, NEW w \in Nat, 0 < w
  PROVE  n % w \in 0..(w - 1) /\ n % w <= n
<1>1. n \div w \in Nat /\ n % w \in 0..(w - 1) /\ n = w * (n \div w) + (n % w)
  OBVIOUS
<1>2. w * (n \div w) >= 0
  BY <1>1
<1> QED
  BY <1>1, <1>2

\* An int holds its own values, and a cut number is not above the number.
LEMMA SignedRange ==
  ASSUME NEW n \in Int, -IntHalf <= n
  PROVE  Signed(n) \in (-IntHalf)..(IntHalf - 1) /\ Signed(n) <= n
<1>1. n + IntHalf \in Nat /\ 2 * IntHalf \in Nat /\ 0 < 2 * IntHalf
  BY Sizes
<1> DEFINE r == (n + IntHalf) % (2 * IntHalf)
<1>2. r \in 0..(2 * IntHalf - 1) /\ r <= n + IntHalf
  BY <1>1, ModBelow
<1> HIDE DEF r
<1>3. r - IntHalf \in (-IntHalf)..(IntHalf - 1) /\ r - IntHalf <= n
  BY <1>2, Sizes
<1> QED
  BY <1>3 DEF Signed, r

\* A function on 1..n into S is a sequence of n values of S.
LEMMA SeqOfLength ==
  ASSUME NEW n \in Nat, NEW S, NEW p \in [1..n -> S]
  PROVE  p \in Seq(S) /\ Len(p) = n
<1>1. p \in Seq(S)
  BY SeqDef, Zenon
<1> QED
  BY <1>1, LenProperties

LEMMA ZerosType ==
  ASSUME NEW n \in Nat
  PROVE  Zeros(n) \in Seq(Units) /\ Len(Zeros(n)) = n
<1>1. Zeros(n) \in [1..n -> Units]
  BY Sizes DEF Zeros, Units
<1> QED
  BY <1>1, SeqOfLength

LEMMA ReadyIsDatagram == Ready \in Datagrams
<1>1. <<>> \in Seq(Units) /\ Len(<<>>) = 0
  OBVIOUS
<1> QED
  BY <1>1, Sizes DEF Ready, Datagrams, Units

LEMMA ByeIsDatagram == Bye \in Datagrams
<1>1. Zeros(ByeLen) \in Seq(Units) /\ Len(Zeros(ByeLen)) = ByeLen
  BY ZerosType, Sizes
<1> QED
  BY <1>1, Sizes DEF Bye, Datagrams, Units

\* What read() returns is not past the end of the file.
LEMMA PortionRange ==
  ASSUME ServerTypes
  PROVE  /\ Portion \in Nat /\ Portion <= Chunk
         /\ offset + Portion <= flen /\ flen <= MaxLen
  BY Sizes DEF Portion, Smaller, ServerTypes

\* However often sendto() failed, a datagram holds units of the file or of the
\* memory before the buffer, and no more of them than the client's buffer.
LEMMA DatagramType ==
  ASSUME ServerTypes, NEW f \in Nat
  PROVE  Datagram(Portion, f) \in Datagrams
<1>1. /\ Portion \in Nat /\ Portion <= Chunk
      /\ offset \in Nat /\ offset + Portion <= MaxLen
  BY PortionRange, Sizes DEF ServerTypes
<1> DEFINE d == [j \in 1..Portion |-> offset + j]
<1>2. d \in Seq(Units) /\ Len(d) = Portion
  <2>1. d \in [1..Portion -> Units]
    BY <1>1, Sizes DEF Units
  <2> QED
    BY <1>1, <2>1, SeqOfLength
<1>3. Data(offset, Portion) = [text |-> "data", units |-> d]
  BY DEF Data
<1> HIDE DEF d
<1>4. Data(offset, Portion).units = d
  BY <1>3
<1>5. CASE f = 0
  <2>1. Data(offset, Portion) \in Datagrams
    BY <1>1, <1>2, <1>3 DEF Datagrams, Units
  <2> QED
    BY <1>5, <2>1 DEF Datagram
<1>6. CASE f # 0
  <2> DEFINE s == Zeros(f) \o d
             n == Smaller(Chunk, Portion + f)
  <2>1. s \in Seq(Units) /\ Len(s) = f + Portion
    BY <1>2, ZerosType, ConcatProperties
  <2>2. n \in Nat /\ n <= Chunk /\ n <= f + Portion
    BY <1>1, Sizes DEF Smaller
  <2> HIDE DEF s, n
  <2>3. \A i \in 1..n : s[i] \in Units
    BY <1>1, <2>1, <2>2, ElementOfSeq
  <2>4. SubSeq(s, 1, n) \in Seq(Units) /\ Len(SubSeq(s, 1, n)) <= Chunk
    BY <2>2, <2>3, Sizes, SubSeqProperties
  <2>5. Datagram(Portion, f) = [text |-> "data", units |-> SubSeq(s, 1, n)]
    BY <1>4, <1>6 DEF Datagram, s, n
  <2> QED
    BY <2>4, <2>5 DEF Datagrams, Units
<1> QED
  BY <1>5, <1>6

-----------------------------------------------------------------------------
(***************************************************************************)
(* Types.                                                                  *)
(***************************************************************************)

\* From the request on the server has someone to send to.
SenderKnown ==
  spc \in {"open", "ready", "answer", "send", "bye"} => udpClient \in Clients

TypeInv == TypeOK /\ SenderKnown

\* A step of the server, or the read() from which on all of them fail.
ServerTurn == ServerStep \/ ReadFails

Requests == [from : Clients, text : {"OK", "other"}]

\* Whatever becomes of a datagram, the queues keep their types.
LEMMA SendToTypes ==
  ASSUME QueueTypes, NEW c \in Clients, NEW d \in Datagrams,
         SendTo(c, d), toServer' = toServer
  PROVE  QueueTypes'
<1>1. CASE UNCHANGED <<toClient, lost>>
  BY <1>1 DEF QueueTypes
<1>2. CASE /\ Len(toClient[c]) < Capacity
           /\ toClient' = [toClient EXCEPT ![c] = Append(@, d)]
           /\ UNCHANGED lost
  <2>1. toClient[c] \in Seq(Datagrams)
    BY DEF QueueTypes
  <2>2. /\ Append(toClient[c], d) \in Seq(Datagrams)
        /\ Len(Append(toClient[c], d)) <= Capacity
    BY <1>2, <2>1, AppendProperties, LenProperties, Sizes
  <2> QED
    BY <1>2, <2>2 DEF QueueTypes
<1>3. CASE lost' = lost \union {c} /\ UNCHANGED toClient
  BY <1>3 DEF QueueTypes
<1> QED
  BY <1>1, <1>2, <1>3 DEF SendTo

LEMMA SendToServerTypes ==
  ASSUME QueueTypes, NEW c \in Clients, NEW text \in {"OK", "other"},
         SendToServer(c, text), toClient' = toClient
  PROVE  QueueTypes'
<1>1. CASE UNCHANGED <<toServer, lost>>
  BY <1>1 DEF QueueTypes
<1>2. CASE /\ Len(toServer) < Capacity
           /\ toServer' = Append(toServer, [from |-> c, text |-> text])
           /\ UNCHANGED lost
  <2>1. toServer \in Seq(Requests) /\ [from |-> c, text |-> text] \in Requests
    BY DEF QueueTypes, Requests
  <2>2. toServer' \in Seq(Requests) /\ Len(toServer') <= Capacity
    BY <1>2, <2>1, AppendProperties, LenProperties, Sizes
  <2> QED
    BY <1>2, <2>2 DEF QueueTypes, Requests
<1>3. CASE lost' = lost \union {c} /\ UNCHANGED toServer
  BY <1>3 DEF QueueTypes
<1> QED
  BY <1>1, <1>2, <1>3 DEF SendToServer

\* What is taken from a queue has its type, and the queue keeps its own.
LEMMA FromServerQueue ==
  ASSUME QueueTypes, toServer # <<>>, toServer' = Tail(toServer),
         UNCHANGED <<toClient, lost>>
  PROVE  QueueTypes' /\ Head(toServer) \in Requests
<1>1. toServer \in Seq(Requests)
  BY DEF QueueTypes, Requests
<1>2. /\ Head(toServer) \in Requests /\ Tail(toServer) \in Seq(Requests)
      /\ Len(Tail(toServer)) <= Capacity
  BY <1>1, HeadTailProperties, LenProperties, Sizes DEF QueueTypes
<1> QED
  BY <1>2 DEF QueueTypes, Requests

LEMMA FromClientQueue ==
  ASSUME QueueTypes, NEW c \in Clients, toClient[c] # <<>>,
         toClient' = [toClient EXCEPT ![c] = Tail(@)], UNCHANGED <<toServer, lost>>
  PROVE  QueueTypes' /\ Head(toClient[c]) \in Datagrams
<1>1. toClient[c] \in Seq(Datagrams)
  BY DEF QueueTypes
<1>2. /\ Head(toClient[c]) \in Datagrams /\ Tail(toClient[c]) \in Seq(Datagrams)
      /\ Len(Tail(toClient[c])) <= Capacity
  BY <1>1, HeadTailProperties, LenProperties, Sizes DEF QueueTypes
<1> QED
  BY <1>2 DEF QueueTypes

LEMMA TypeInit == Init => TypeInv
<1> SUFFICES ASSUME Init PROVE TypeInv
  OBVIOUS
<1>1. ServerTypes
  BY Sizes DEF Init, ServerTypes, SStates
<1>2. QueueTypes
  BY Sizes DEF Init, QueueTypes
<1>3. ClientTypes
  BY Sizes DEF Init, ClientTypes, CStates
<1>4. SenderKnown
  BY DEF Init, SenderKnown
<1> QED
  BY <1>1, <1>2, <1>3, <1>4 DEF TypeInv, TypeOK

\* The steps of the server.
LEMMA ServerStepTypes == TypeInv /\ ServerTurn => TypeInv'
<1> SUFFICES ASSUME TypeInv, ServerTurn PROVE TypeInv'
  OBVIOUS
<1> USE DEF TypeInv, TypeOK
<1>1. CASE Bind
  <2>1. ServerTypes' /\ SenderKnown'
    BY <1>1 DEF Bind, ServerTypes, SStates, SenderKnown
  <2>2. QueueTypes' /\ ClientTypes'
    BY <1>1 DEF Bind, QueueTypes, ClientTypes, clientVars
  <2> QED
    BY <2>1, <2>2
<1>2. CASE ReceiveRequest
  <2>1. QueueTypes' /\ Head(toServer) \in Requests
    BY <1>2, FromServerQueue DEF ReceiveRequest
  <2>2. ServerTypes' /\ SenderKnown'
    BY <1>2, <2>1 DEF ReceiveRequest, ServerTypes, SStates, SenderKnown, Requests
  <2>3. ClientTypes'
    BY <1>2 DEF ReceiveRequest, ClientTypes, clientVars
  <2> QED
    BY <2>1, <2>2, <2>3
<1>3. CASE OpenFile
  <2>1. ServerTypes' /\ SenderKnown'
    BY <1>3 DEF OpenFile, ServerTypes, SStates, SenderKnown
  <2>2. QueueTypes' /\ ClientTypes'
    BY <1>3 DEF OpenFile, QueueTypes, ClientTypes, clientVars
  <2> QED
    BY <2>1, <2>2
<1>4. CASE SendReady
  <2>1. udpClient \in Clients
    BY <1>4 DEF SendReady, SenderKnown
  <2>2. QueueTypes'
    BY <1>4, <2>1, ReadyIsDatagram, SendToTypes DEF SendReady
  <2>3. ServerTypes' /\ SenderKnown'
    BY <1>4, <2>1 DEF SendReady, ServerTypes, SStates, SenderKnown
  <2>4. ClientTypes'
    BY <1>4 DEF SendReady, ClientTypes, clientVars
  <2> QED
    BY <2>2, <2>3, <2>4
<1>5. CASE ReceiveAnswer
  <2>1. QueueTypes' /\ Head(toServer) \in Requests
    BY <1>5, FromServerQueue DEF ReceiveAnswer
  <2>2. ServerTypes' /\ SenderKnown'
    BY <1>5, <2>1 DEF ReceiveAnswer, ServerTypes, SStates, SenderKnown, Requests
  <2>3. ClientTypes'
    BY <1>5 DEF ReceiveAnswer, ClientTypes, clientVars
  <2> QED
    BY <2>1, <2>2, <2>3
<1>6. ASSUME NEW f \in 0..MaxFaults, SendData(f)
      PROVE  TypeInv'
  <2>1. udpClient \in Clients
    BY <1>6 DEF SendData, SenderKnown
  <2>2. Datagram(Portion, f) \in Datagrams
    BY Sizes, DatagramType
  <2>3. QueueTypes'
    BY <1>6, <2>1, <2>2, SendToTypes DEF SendData
  <2>4. offset' \in 0..flen
    BY <1>6, PortionRange DEF SendData, ServerTypes
  <2>5. totalSendBytes' \in (-IntHalf)..(IntHalf - 1)
    <3>1. totalSendBytes + Portion \in Int /\ -IntHalf <= totalSendBytes + Portion
      BY PortionRange, Sizes DEF ServerTypes
    <3> QED
      BY <1>6, <3>1, SignedRange DEF SendData, Counted
  <2>6. ServerTypes' /\ SenderKnown'
    BY <1>6, <2>1, <2>4, <2>5 DEF SendData, ServerTypes, SenderKnown
  <2>7. ClientTypes'
    BY <1>6, <2>1 DEF SendData, ClientTypes, clientVars
  <2> QED
    BY <2>3, <2>6, <2>7
<1>7. CASE LoopEnds
  <2>1. ServerTypes' /\ SenderKnown'
    BY <1>7 DEF LoopEnds, ServerTypes, SStates, SenderKnown
  <2>2. QueueTypes' /\ ClientTypes'
    BY <1>7 DEF LoopEnds, QueueTypes, ClientTypes, clientVars
  <2> QED
    BY <2>1, <2>2
<1>9. CASE ReadFails
  <2>1. ServerTypes' /\ SenderKnown'
    BY <1>9 DEF ReadFails, ServerTypes, SStates, SenderKnown
  <2>2. QueueTypes' /\ ClientTypes'
    BY <1>9 DEF ReadFails, QueueTypes, ClientTypes, clientVars
  <2> QED
    BY <2>1, <2>2
<1>8. CASE SendBye
  <2>1. udpClient \in Clients
    BY <1>8 DEF SendBye, SenderKnown
  <2>2. QueueTypes'
    BY <1>8, <2>1, ByeIsDatagram, SendToTypes DEF SendBye
  <2>3. ServerTypes' /\ SenderKnown'
    BY <1>8 DEF SendBye, ServerTypes, SStates, SenderKnown
  <2>4. ClientTypes'
    BY <1>8 DEF SendBye, ClientTypes, clientVars
  <2> QED
    BY <2>2, <2>3, <2>4
<1> QED
  BY <1>1, <1>2, <1>3, <1>4, <1>5, <1>6, <1>7, <1>8, <1>9 DEF ServerTurn, ServerStep

\* The write of the client, whatever writeBytes was before and however often
\* write() failed.
LEMMA ReceiveDataTypes ==
  ASSUME TypeInv, NEW c \in Clients, NEW f \in 0..MaxFaults, ReceiveData(c, f)
  PROVE  ClientTypes'
<1> DEFINE units == Head(toClient[c]).units
           w == writeBytes[c] - f
           written == [i \in 1..(Len(units) - w) |->
                         IF w + i > 0 THEN units[w + i] ELSE 0]
<1>1. Head(toClient[c]) \in Datagrams
  BY FromClientQueue DEF ReceiveData, TypeInv, TypeOK
<1>2. units \in Seq(Units) /\ Len(units) \in Nat /\ Len(units) <= Chunk
  BY <1>1, LenProperties DEF Datagrams, Units
<1>3. writeBytes[c] \in (-Leftover)..(Chunk + Leftover) /\ f \in Nat
      /\ totalReadBytes[c] \in (-IntHalf)..(IntHalf - 1)
      /\ fileSize[c] \in (-IntHalf)..MaxLen
  BY Sizes DEF TypeInv, TypeOK, ClientTypes
<1>4. totalReadBytes[c] < fileSize[c]
      /\ totalReadBytes' = [totalReadBytes EXCEPT ![c] = Signed(@ + writeBytes'[c])]
      /\ UNCHANGED <<cpc, name, fileSize>> /\ garbage' \subseteq garbage \union {c}
  BY DEF ReceiveData
<1>5. /\ writeBytes' \in [Clients -> (-Leftover)..(Chunk + Leftover)]
      /\ writeBytes'[c] \in 0..(Chunk + Leftover)
      /\ local' \in [Clients -> Seq(Units)]
  <2>1. local \in [Clients -> Seq(Units)]
        /\ writeBytes \in [Clients -> (-Leftover)..(Chunk + Leftover)]
    BY DEF TypeInv, TypeOK, ClientTypes, Units
  <2>2. CASE writeBytes[c] < Len(units)
    <3>1. local' = [local EXCEPT ![c] = @ \o written]
          /\ writeBytes' = [writeBytes EXCEPT ![c] = Len(units)]
      BY <2>2 DEF ReceiveData
    <3>2. Len(units) - w \in Nat
      <4>1. writeBytes[c] \in Int /\ Len(units) \in Int /\ f \in Nat
        BY <1>2, <1>3, Sizes
      <4> HIDE DEF units
      <4> QED
        BY <2>2, <4>1
    <3>3. \A i \in 1..(Len(units) - w) :
            (IF w + i > 0 THEN units[w + i] ELSE 0) \in Units
      <4> SUFFICES ASSUME NEW i \in 1..(Len(units) - w)
                   PROVE  (IF w + i > 0 THEN units[w + i] ELSE 0) \in Units
        OBVIOUS
      <4>1. w \in Int
        BY <1>3, Sizes
      <4> HIDE DEF units, w
      <4>2. CASE w + i > 0
        <5>1. w + i \in 1..Len(units)
          BY <1>2, <4>1, <4>2
        <5> QED
          BY <1>2, <4>2, <5>1, ElementOfSeq
      <4>3. CASE ~(w + i > 0)
        BY <4>3, Sizes DEF Units
      <4> QED
        BY <4>2, <4>3
    <3>4. written \in [1..(Len(units) - w) -> Units]
      BY <3>3, Zenon
    <3> HIDE DEF written
    <3>5. written \in Seq(Units)
      BY <3>2, <3>4, SeqOfLength
    <3>6. local[c] \o written \in Seq(Units)
      BY <2>1, <3>5, ConcatProperties, SMTT(30)
    <3> QED
      BY <1>2, <2>1, <3>1, <3>6, Sizes, SMTT(30)
  <2>3. CASE ~(writeBytes[c] < Len(units))
    <3>1. UNCHANGED <<local, writeBytes>>
      BY <2>3 DEF ReceiveData
    <3>2. writeBytes[c] >= 0
      BY <1>2, <1>3, <2>3, Sizes
    <3> QED
      BY <1>3, <2>1, <3>1, <3>2, Sizes
  <2> QED
    BY <2>2, <2>3
<1>6. totalReadBytes' \in [Clients -> (-IntHalf)..(IntHalf - 1)]
  <2>1. /\ totalReadBytes[c] + writeBytes'[c] \in Int
        /\ -IntHalf <= totalReadBytes[c] + writeBytes'[c]
    <3> DEFINE read == totalReadBytes[c]
               new == writeBytes'[c]
    <3>1. read \in Int /\ -IntHalf <= read /\ new \in Nat
      BY <1>3, <1>5, Sizes
    <3> HIDE DEF read, new
    <3>2. read + new \in Int /\ -IntHalf <= read + new
      BY <3>1, Sizes
    <3> QED
      BY <3>2 DEF read, new
  <2>2. Signed(totalReadBytes[c] + writeBytes'[c]) \in (-IntHalf)..(IntHalf - 1)
    BY <2>1, SignedRange
  <2> QED
    BY <1>4, <2>2 DEF TypeInv, TypeOK, ClientTypes
<1> QED
  BY <1>4, <1>5, <1>6 DEF TypeInv, TypeOK, ClientTypes, Units

\* The steps of a client.
LEMMA ClientStepTypes ==
  ASSUME TypeInv, NEW c \in Clients, ClientStep(c) \/ Interrupt(c)
  PROVE  TypeInv'
<1> USE DEF TypeInv, TypeOK
<1>1. ServerTypes' /\ SenderKnown'
  <2>1. UNCHANGED serverVars
    BY DEF ClientStep, SendRequest, ReceiveReady, CreateFile, ReceiveData,
           DataEnds, ReceiveBye, Interrupt
  <2> QED
    BY <2>1 DEF serverVars, ServerTypes, SenderKnown
<1>2. CASE SendRequest(c)
  <2>1. name[c] \in {"OK", "other"}
    BY DEF ClientTypes
  <2>2. QueueTypes'
    BY <1>2, <2>1, SendToServerTypes DEF SendRequest
  <2>3. ClientTypes'
    BY <1>2 DEF SendRequest, ClientTypes, CStates
  <2> QED
    BY <1>1, <2>2, <2>3
<1>3. CASE ReceiveReady(c)
  <2>1. QueueTypes'
    BY <1>3, FromClientQueue DEF ReceiveReady
  <2>2. Signed(flen) \in (-IntHalf)..MaxLen
    <3>1. flen \in Int /\ -IntHalf <= flen /\ flen <= MaxLen
      BY Sizes DEF ServerTypes
    <3>2. Signed(flen) \in (-IntHalf)..(IntHalf - 1) /\ Signed(flen) <= flen
      BY <3>1, SignedRange
    <3> QED
      BY <3>1, <3>2, Sizes
  <2>3. ClientTypes'
    BY <1>3, <2>2 DEF ReceiveReady, ClientTypes, CStates
  <2> QED
    BY <1>1, <2>1, <2>3
<1>4. CASE CreateFile(c)
  <2>1. QueueTypes'
    <3>1. CASE SendToServer(c, "OK")
      BY <1>4, <3>1, SendToServerTypes DEF CreateFile
    <3>2. CASE UNCHANGED <<toServer, lost>>
      BY <1>4, <3>2 DEF CreateFile, QueueTypes
    <3> QED
      BY <1>4, <3>1, <3>2 DEF CreateFile
  <2>2. ClientTypes'
    BY <1>4 DEF CreateFile, ClientTypes, CStates
  <2> QED
    BY <1>1, <2>1, <2>2
<1>5. ASSUME NEW f \in 0..MaxFaults, ReceiveData(c, f)
      PROVE  TypeInv'
  <2>1. QueueTypes'
    BY <1>5, FromClientQueue DEF ReceiveData
  <2>2. ClientTypes'
    BY <1>5, ReceiveDataTypes
  <2> QED
    BY <1>1, <2>1, <2>2
<1>6. CASE DataEnds(c)
  BY <1>1, <1>6 DEF DataEnds, QueueTypes, ClientTypes, CStates
<1>7. CASE ReceiveBye(c)
  <2>1. QueueTypes'
    BY <1>7, FromClientQueue DEF ReceiveBye
  <2>2. ClientTypes'
    BY <1>7 DEF ReceiveBye, ClientTypes, CStates
  <2> QED
    BY <1>1, <2>1, <2>2
<1>8. CASE Interrupt(c)
  <2>1. <<>> \in Seq(Datagrams) /\ Len(<<>>) <= Capacity
    BY Sizes
  <2>2. QueueTypes'
    BY <1>8, <2>1 DEF Interrupt, QueueTypes
  <2>3. ClientTypes'
    BY <1>8 DEF Interrupt, ClientTypes, CStates
  <2> QED
    BY <1>1, <2>2, <2>3
<1> QED
  BY <1>2, <1>3, <1>4, <1>5, <1>6, <1>7, <1>8 DEF ClientStep

LEMMA TypeInvariant == Spec => []TypeInv
<1>1. Init => TypeInv
  BY TypeInit
<1>2. TypeInv /\ [Next]_vars => TypeInv'
  <2> SUFFICES ASSUME TypeInv, [Next]_vars PROVE TypeInv'
    OBVIOUS
  <2>1. CASE Next
    BY <2>1, ServerStepTypes, ClientStepTypes DEF Next, ServerTurn
  <2>2. CASE UNCHANGED vars
    BY <2>2 DEF vars, TypeInv, TypeOK, ServerTypes, QueueTypes, ClientTypes,
                SenderKnown
  <2> QED
    BY <2>1, <2>2
<1> QED
  BY <1>1, <1>2, PTL DEF Spec

\* The variables of the UDP programs keep their types: no length, count or
\* queue leaves its range, with any number of clients and of failed calls
\* (server.c:80-93, client.c of UDP_FileTransfer).
THEOREM TypeCorrect == Spec => []TypeOK
<1>1. TypeInv => TypeOK
  BY DEF TypeInv
<1> QED
  BY <1>1, TypeInvariant, PTL

-----------------------------------------------------------------------------
(***************************************************************************)
(* Who is sent something.                                                  *)
(***************************************************************************)

Entitled(c) == c = asker \/ name[c] = "OK"

\* Nothing waits for a client that is not entitled, nor does it answer.
ClientsReached ==
  \A c \in Clients : toClient[c] # <<>> \/ cpc[c] = "create" => Entitled(c)

\* An "OK" on its way to the server comes from an entitled client.
AnswersEntitled ==
  \A i \in 1..Len(toServer) : toServer[i].text = "OK" => Entitled(toServer[i].from)

\* Whoever the server is about to send to is entitled.
ReceiverEntitled ==
  spc \in {"open", "ready", "send", "bye"} => Entitled(udpClient)

\* The request is the first datagram the server takes.
AskerIsFirst == spc \in {"bind", "deaf", "request"} => asker = NoClient

ReachInv ==
  ClientsReached /\ AnswersEntitled /\ ReceiverEntitled /\ AskerIsFirst

\* Who is entitled stays so: asker is only assigned once.
LEMMA EntitledStays ==
  ASSUME NEW c \in Clients, Entitled(c), name' = name,
         asker' = asker \/ asker = NoClient
  PROVE  Entitled(c)'
  BY ClientsAssumption DEF Entitled

\* A datagram sent to an entitled client.
LEMMA SendToReaches ==
  ASSUME TypeInv, ReachInv, NEW c \in Clients, NEW d, SendTo(c, d), Entitled(c),
         UNCHANGED <<cpc, name, asker>>
  PROVE  ClientsReached'
<1> SUFFICES ASSUME NEW b \in Clients, toClient'[b] # <<>> \/ cpc'[b] = "create"
             PROVE  Entitled(b)'
  BY DEF ClientsReached
<1>1. toClient \in [Clients -> Seq(Datagrams)]
  BY DEF TypeInv, TypeOK, QueueTypes
<1>2. b = c \/ toClient'[b] = toClient[b]
  BY <1>1 DEF SendTo
<1>3. Entitled(b)
  BY <1>2 DEF ReachInv, ClientsReached
<1> QED
  BY <1>3 DEF Entitled

\* A text sent by a client: an "OK" only if it is entitled.
LEMMA SendToServerReaches ==
  ASSUME TypeInv, ReachInv, NEW c \in Clients, NEW text \in {"OK", "other"},
         SendToServer(c, text) \/ UNCHANGED toServer,
         text = "OK" => Entitled(c), UNCHANGED <<name, asker>>
  PROVE  AnswersEntitled'
<1>1. toServer \in Seq(Requests) /\ [from |-> c, text |-> text] \in Requests
  BY DEF TypeInv, TypeOK, QueueTypes, Requests
<1>2. CASE toServer' = toServer
  BY <1>2 DEF ReachInv, AnswersEntitled, Entitled
<1>3. CASE toServer' = Append(toServer, [from |-> c, text |-> text])
  <2> SUFFICES ASSUME NEW i \in 1..Len(toServer'), toServer'[i].text = "OK"
               PROVE  \/ toServer'[i].from = asker'
                      \/ name'[toServer'[i].from] = "OK"
    BY DEF AnswersEntitled, Entitled
  <2>1. /\ Len(toServer) \in Nat /\ Len(toServer') = Len(toServer) + 1
        /\ \A j \in 1..Len(toServer) : toServer'[j] = toServer[j]
        /\ toServer'[Len(toServer) + 1] = [from |-> c, text |-> text]
    BY <1>1, <1>3, AppendProperties, LenProperties
  <2>2. CASE i \in 1..Len(toServer)
    BY <2>1, <2>2 DEF ReachInv, AnswersEntitled, Entitled
  <2>3. CASE i = Len(toServer) + 1
    BY <2>1, <2>3 DEF Entitled
  <2> QED
    BY <2>1, <2>2, <2>3
<1> QED
  BY <1>2, <1>3 DEF SendToServer

\* The rest of the queue, after the server took its head.
LEMMA TailReaches ==
  ASSUME TypeInv, ReachInv, toServer # <<>>, toServer' = Tail(toServer),
         name' = name, asker' = asker \/ asker = NoClient
  PROVE  AnswersEntitled'
<1> SUFFICES ASSUME NEW i \in 1..Len(toServer'), toServer'[i].text = "OK"
             PROVE  \/ toServer'[i].from = asker'
                    \/ name'[toServer'[i].from] = "OK"
  BY DEF AnswersEntitled, Entitled
<1>1. toServer \in Seq(Requests)
  BY DEF TypeInv, TypeOK, QueueTypes, Requests
<1>2. /\ Len(toServer) \in Nat /\ Len(toServer') = Len(toServer) - 1
      /\ toServer'[i] = toServer[i + 1]
  BY <1>1, HeadTailProperties, LenProperties
<1>3. i + 1 \in 1..Len(toServer)
  BY <1>2
<1> DEFINE who == toServer[i + 1].from
<1>4. who \in Clients
  <2>1. toServer[i + 1] \in Requests
    BY <1>1, <1>3, ElementOfSeq
  <2> QED
    BY <2>1 DEF Requests
<1>5. toServer[i + 1].text = "OK"
  BY <1>2
<1>6. Entitled(who)
  BY <1>3, <1>5 DEF ReachInv, AnswersEntitled
<1> HIDE DEF who
<1>7. who = asker' \/ name'[who] = "OK"
  BY <1>4, <1>6, ClientsAssumption DEF Entitled
<1> QED
  BY <1>2, <1>7 DEF who

LEMMA ReachInit == Init => ReachInv
  BY DEF Init, ReachInv, ClientsReached, AnswersEntitled, ReceiverEntitled,
         AskerIsFirst

\* The steps of the server.
LEMMA ServerStepReaches == TypeInv /\ ReachInv /\ ServerTurn => ReachInv'
<1> SUFFICES ASSUME TypeInv, ReachInv, ServerTurn PROVE ReachInv'
  OBVIOUS
<1> USE DEF ReachInv
<1>1. CASE Bind \/ OpenFile \/ LoopEnds \/ ReadFails
  BY <1>1 DEF Bind, OpenFile, LoopEnds, ReadFails, clientVars, ClientsReached,
              AnswersEntitled, ReceiverEntitled, AskerIsFirst, Entitled
<1>2. CASE ReceiveRequest
  <2>1. asker = NoClient /\ UNCHANGED <<cpc, name, toClient>>
    BY <1>2 DEF ReceiveRequest, AskerIsFirst, clientVars
  <2>2. ClientsReached'
    BY <2>1, EntitledStays DEF ClientsReached
  <2>3. AnswersEntitled'
    BY <1>2, <2>1, TailReaches DEF ReceiveRequest
  <2>4. ReceiverEntitled' /\ AskerIsFirst'
    BY <1>2 DEF ReceiveRequest, ReceiverEntitled, AskerIsFirst, Entitled
  <2> QED
    BY <2>2, <2>3, <2>4
<1>3. CASE SendReady \/ SendBye \/ \E f \in 0..MaxFaults : SendData(f)
  <2>1. /\ spc \in {"ready", "bye", "send"} /\ spc' \in {"answer", "ended", spc}
        /\ \E d : SendTo(udpClient, d)
        /\ UNCHANGED <<cpc, name, asker, udpClient, toServer>>
    BY <1>3 DEF SendReady, SendBye, SendData, clientVars
  <2>2. udpClient \in Clients /\ Entitled(udpClient)
    BY <2>1 DEF TypeInv, SenderKnown, ReceiverEntitled
  <2>3. ClientsReached'
    BY <2>1, <2>2, SendToReaches
  <2>4. AnswersEntitled' /\ ReceiverEntitled' /\ AskerIsFirst'
    BY <2>1 DEF AnswersEntitled, ReceiverEntitled, AskerIsFirst, Entitled
  <2> QED
    BY <2>3, <2>4
<1>4. CASE ReceiveAnswer
  <2>1. UNCHANGED <<cpc, name, toClient, asker>>
    BY <1>4 DEF ReceiveAnswer, clientVars
  <2>2. ClientsReached'
    BY <2>1 DEF ClientsReached, Entitled
  <2>3. AnswersEntitled'
    BY <1>4, <2>1, TailReaches DEF ReceiveAnswer
  <2>4. toServer \in Seq(Requests) /\ toServer # <<>>
    BY <1>4 DEF ReceiveAnswer, TypeInv, TypeOK, QueueTypes, Requests
  <2>5. 1 \in 1..Len(toServer) /\ Head(toServer) = toServer[1]
    BY <2>4
  <2>6. Head(toServer).text = "OK" => Entitled(Head(toServer).from)
    BY <2>5 DEF AnswersEntitled
  <2>7. ReceiverEntitled' /\ AskerIsFirst'
    BY <1>4, <2>1, <2>6 DEF ReceiveAnswer, ReceiverEntitled, AskerIsFirst, Entitled
  <2> QED
    BY <2>2, <2>3, <2>7
<1> QED
  BY <1>1, <1>2, <1>3, <1>4 DEF ServerTurn, ServerStep

\* The steps of a client: none sends to a client, and only one that found
\* something in its queue goes on to answer.
LEMMA ClientStepReaches ==
  ASSUME TypeInv, ReachInv, NEW c \in Clients, ClientStep(c) \/ Interrupt(c)
  PROVE  ReachInv'
<1> USE DEF ReachInv
<1>1. UNCHANGED <<spc, udpClient, asker, name>>
  BY DEF ClientStep, SendRequest, ReceiveReady, CreateFile, ReceiveData,
         DataEnds, ReceiveBye, Interrupt, serverVars
<1>2. ReceiverEntitled' /\ AskerIsFirst'
  BY <1>1 DEF ReceiverEntitled, AskerIsFirst, Entitled
<1>3. ClientsReached'
  <2> SUFFICES ASSUME NEW b \in Clients, toClient'[b] # <<>> \/ cpc'[b] = "create"
               PROVE  Entitled(b)
    BY <1>1 DEF ClientsReached, Entitled
  <2>1. toClient \in [Clients -> Seq(Datagrams)] /\ cpc \in [Clients -> CStates]
    BY DEF TypeInv, TypeOK, QueueTypes, ClientTypes
  <2>2. toClient'[b] # <<>> => toClient[b] # <<>>
    BY <2>1 DEF ClientStep, SendRequest, ReceiveReady, CreateFile, ReceiveData,
                DataEnds, ReceiveBye, Interrupt
  <2>3. cpc'[b] = "create" => cpc[b] = "create" \/ toClient[b] # <<>>
    BY <2>1 DEF ClientStep, SendRequest, ReceiveReady, CreateFile, ReceiveData,
                DataEnds, ReceiveBye, Interrupt
  <2> QED
    BY <2>2, <2>3 DEF ClientsReached
<1>4. AnswersEntitled'
  <2>1. CASE SendRequest(c)
    <3>1. name[c] \in {"OK", "other"} /\ (name[c] = "OK" => Entitled(c))
      BY DEF TypeInv, TypeOK, ClientTypes, Entitled
    <3> QED
      BY <1>1, <2>1, <3>1, SendToServerReaches DEF SendRequest
  <2>2. CASE CreateFile(c)
    <3>1. Entitled(c)
      BY <2>2 DEF CreateFile, ClientsReached
    <3> QED
      BY <1>1, <2>2, <3>1, SendToServerReaches DEF CreateFile
  <2>3. CASE ~SendRequest(c) /\ ~CreateFile(c)
    <3>1. toServer' = toServer
      BY <2>3 DEF ClientStep, ReceiveReady, ReceiveData, DataEnds, ReceiveBye,
                  Interrupt
    <3> QED
      BY <1>1, <3>1 DEF AnswersEntitled, Entitled
  <2> QED
    BY <2>1, <2>2, <2>3
<1> QED
  BY <1>2, <1>3, <1>4

\* Only the client that asked for the file is sent its data, or one whose file
\* is called OK: the server never compares the address it answers with the
\* one that asked, but only a client that was answered says "OK"
\* (server.c:55-93).
THEOREM OnlyAskerServed == Spec => []DataReachesAsker
<1>1. Init => ReachInv
  BY ReachInit
<1>2. TypeInv /\ ReachInv /\ [Next]_vars => ReachInv'
  <2> SUFFICES ASSUME TypeInv, ReachInv, [Next]_vars PROVE ReachInv'
    OBVIOUS
  <2>1. CASE Next
    BY <2>1, ServerStepReaches, ClientStepReaches DEF Next, ServerTurn
  <2>2. CASE UNCHANGED vars
    BY <2>2 DEF vars, ReachInv, ClientsReached, AnswersEntitled,
                ReceiverEntitled, AskerIsFirst, Entitled
  <2> QED
    BY <2>1, <2>2
<1>3. TypeInv /\ ReachInv => DataReachesAsker
  <2> SUFFICES ASSUME TypeInv, ReachInv, NEW c \in Clients,
                      NEW i \in 1..Len(toClient[c])
               PROVE  c = asker \/ name[c] = "OK"
    BY DEF DataReachesAsker
  <2>1. toClient[c] # <<>>
    OBVIOUS
  <2> QED
    BY <2>1 DEF ReachInv, ClientsReached, Entitled
<1> QED
  BY <1>1, <1>2, <1>3, TypeInvariant, PTL DEF Spec

-----------------------------------------------------------------------------
(***************************************************************************)
(* What becomes of the file.                                               *)
(***************************************************************************)

\* The server sends the file to this client, or has sent it.
Served(c) == c = udpClient /\ spc \in {"send", "spin", "bye", "ended"}

\* The client was told the length and said OK.
Accepted == {"data", "bye", "done"}

\* Nothing has come into the hands of the client's loop.
Unread(c) ==
  /\ totalReadBytes[c] = 0 /\ local[c] = <<>>
  /\ c \notin garbage => writeBytes[c] = 0

\* The clients with a text on the way to the server; none has two.
Senders(q) == {q[i].from : i \in 1..Len(q)}
Distinct(q) == \A i, j \in 1..Len(q) : q[i].from = q[j].from => i = j

\* Who has a text on the way has lost nothing and is not served yet, and the
\* one that asked has said OK.  Who has sent nothing is not known.
MessagesOK ==
  /\ Distinct(toServer)
  /\ \A c \in Senders(toServer) :
       /\ cpc[c] # "start" /\ c \notin lost /\ ~Served(c)
       /\ c = asker => cpc[c] \in Accepted \union {"failed"}
  /\ \A c \in Clients : cpc[c] = "start" => c # udpClient /\ c \notin lost

\* How far the server is, and the loop of line 86.
CountsOK ==
  /\ spc \notin {"send", "spin", "bye", "ended", "failed"} => offset = 0
  /\ flen < IntHalf /\ (\E c \in Clients : c \notin garbage) =>
       /\ totalSendBytes = offset
       /\ spc \in {"bye", "ended"} => offset = flen

\* Nobody is sent anything before the request, and READY is the first thing.
AskerOK ==
  /\ spc \in {"bind", "deaf", "request"} => \A c \in Clients : toClient[c] = <<>>
  /\ spc \in {"open", "ready"} =>
       /\ asker \in Clients /\ udpClient = asker
       /\ toClient[asker] = <<>> /\ asker \notin lost
  /\ asker \in Clients => cpc[asker] # "start"

\* No READY is in a queue.
NoReady(q) == \A i \in 1..Len(q) : q[i].text # "READY"

\* A client that nobody told the length is still waiting for it.
Waits(c) ==
  /\ c # asker => cpc[c] \in {"start", "ready", "failed"} /\ NoReady(toClient[c])
  /\ cpc[c] \in {"start", "ready", "create"} => Unread(c)
  /\ c = asker /\ cpc[c] \in {"ready", "create"} =>
       /\ ~Served(c)
       /\ toClient[c] = <<>> \/ (toClient[c] = <<Ready>> /\ cpc[c] = "ready")
       /\ toClient[c] # <<>> \/ cpc[c] = "create" => c \notin lost
  /\ c = asker /\ cpc[c] \notin {"ready", "failed"} => spc \notin {"open", "ready"}

WaitingOK == \A c \in Clients : Waits(c)

\* One that was told is served after its OK was read, and not before.
Accepts(c) ==
  /\ c \notin garbage => writeBytes[c] \in 0..Chunk
  /\ cpc[c] \in Accepted \union {"create"} => fileSize[c] = Signed(flen)
  /\ cpc[c] \in Accepted =>
       /\ cpc[c] \in {"bye", "done"} => totalReadBytes[c] >= fileSize[c]
       /\ ~Served(c) => cpc[c] # "done" /\ toClient[c] = <<>> /\ Unread(c)
       /\ fileSize[c] <= 0 => local[c] = <<>> /\ totalReadBytes[c] = 0

AcceptedOK == \A c \in Clients : Accepts(c)

\* The clients of which the rest is said.
Clean(c) ==
  cpc[c] \in Accepted /\ Served(c) /\ c \notin garbage /\ flen < IntHalf

\* The first datagram that is written is the first of the file.
First(c) ==
  Clean(c) /\ c \notin lost /\ flen > 0 =>
    IF writeBytes[c] = 0
    THEN /\ totalReadBytes[c] = 0 /\ local[c] = <<>>
         /\ IF toClient[c] = <<>> THEN offset = 0
            ELSE Head(toClient[c]) = Data(0, Smaller(Chunk, flen))
    ELSE /\ writeBytes[c] = Smaller(Chunk, flen)
         /\ local[c] = FirstUnits(Smaller(Chunk, flen))
         /\ Smaller(Chunk, flen) = flen => totalReadBytes[c] = flen

FirstOK == \A c \in Clients : First(c)

\* What a client has counted, before its int wraps and after.
Took(c) ==
  IF totalReadBytes[c] < 0 THEN totalReadBytes[c] + 2 * IntHalf
  ELSE totalReadBytes[c]

\* A client is never counted more than the datagrams sent, a full buffer for
\* each, and one less when it lost any.
Credit(c) ==
  Took(c) + Chunk * Len(toClient[c]) + (IF c \in lost THEN Chunk ELSE 0)

Credited(c) ==
  Clean(c) =>
    /\ spc \in {"send", "spin"} /\ offset < flen => Credit(c) <= offset
    /\ spc \in {"send", "spin"} /\ offset = flen => Credit(c) < flen + Chunk
    /\ spc = "bye" => Credit(c) < flen + Chunk
    /\ spc = "ended" => Credit(c) < flen + Chunk + Chunk
    /\ cpc[c] = "done" => c \notin lost

CreditOK == \A c \in Clients : Credited(c)

FileInv ==
  /\ MessagesOK /\ CountsOK /\ AskerOK /\ WaitingOK /\ AcceptedOK
  /\ FirstOK /\ CreditOK

-----------------------------------------------------------------------------
(***************************************************************************)
(* What queues and lengths become.                                         *)
(***************************************************************************)

\* A sum of two ints that are not negative wraps once, if it does.
LEMMA SignedWrap ==
  ASSUME NEW n \in Int, -IntHalf <= n, n < 2 * IntHalf
  PROVE  Signed(n) = IF n < IntHalf THEN n ELSE n - 2 * IntHalf
<1> DEFINE m == n + IntHalf
           w == 2 * IntHalf
           q == m \div w
<1>1. m \in Nat /\ w \in Nat /\ 0 < w /\ m < w + w /\ (m < w <=> n < IntHalf)
  BY Sizes
<1>2. Signed(n) = (m % w) - IntHalf
  BY DEF Signed
<1>3. m - IntHalf = n /\ (m - w) - IntHalf = n - 2 * IntHalf
  BY Sizes
<1> HIDE DEF m, w
<1>4. q \in Nat /\ m % w \in 0..(w - 1) /\ m = w * q + (m % w)
  BY <1>1
<1> HIDE DEF q
<1>5. CASE m < w
  <2>1. q >= 1 => w * q >= w
    BY <1>1, <1>4
  <2>2. q = 0
    BY <1>1, <1>4, <1>5, <2>1
  <2>3. w * q = 0
    BY <1>1, <2>2
  <2>4. m % w = m
    BY <1>1, <1>4, <2>3
  <2> QED
    BY <1>1, <1>2, <1>3, <1>5, <2>4
<1>6. CASE ~(m < w)
  <2>1. q = 0 => w * q = 0
    BY <1>1, <1>4
  <2>2. q >= 2 => w * q >= w + w
    BY <1>1, <1>4
  <2>3. q = 1
    BY <1>1, <1>4, <1>6, <2>1, <2>2
  <2>4. w * q = w
    BY <1>1, <2>3
  <2>5. m % w = m - w
    BY <1>1, <1>4, <2>4
  <2> QED
    BY <1>1, <1>2, <1>3, <1>6, <2>5
<1> QED
  BY <1>5, <1>6

\* A length that is an int stays what it is.
LEMMA SignedSame ==
  ASSUME NEW n \in Nat, n < IntHalf
  PROVE  Signed(n) = n
<1>1. n \in Int /\ -IntHalf <= n /\ n < 2 * IntHalf
  BY Sizes
<1> QED
  BY <1>1, SignedWrap

\* A queue with one element more.
LEMMA AppendFacts ==
  ASSUME NEW S, NEW q \in Seq(S), NEW d \in S
  PROVE  /\ Append(q, d) # <<>> /\ Len(q) \in Nat
         /\ Len(Append(q, d)) = Len(q) + 1
         /\ \A i \in 1..Len(q) : Append(q, d)[i] = q[i]
         /\ Append(q, d)[Len(q) + 1] = d
         /\ Head(Append(q, d)) = IF q = <<>> THEN d ELSE Head(q)
         /\ q = <<>> => Append(q, d) = <<d>> /\ Len(q) = 0
<1>1. /\ Append(q, d) \in Seq(S) /\ Append(q, d) # <<>> /\ Len(q) \in Nat
      /\ Len(Append(q, d)) = Len(q) + 1
      /\ \A i \in 1..Len(q) : Append(q, d)[i] = q[i]
      /\ Append(q, d)[Len(q) + 1] = d
  BY AppendProperties, LenProperties
<1>2. Head(Append(q, d)) = Append(q, d)[1]
  BY <1>1, HeadTailProperties
<1>3. CASE q = <<>>
  <2>1. Len(q) = 0 /\ Append(q, d) = <<d>>
    BY <1>3
  <2> QED
    BY <1>1, <1>2, <1>3, <2>1
<1>4. CASE q # <<>>
  <2>1. Head(q) = q[1] /\ 1 \in 1..Len(q)
    BY <1>4, EmptySeq, HeadTailProperties
  <2> QED
    BY <1>1, <1>2, <1>4, <2>1
<1> QED
  BY <1>3, <1>4

\* A queue without its head.
LEMMA TailFacts ==
  ASSUME NEW S, NEW q \in Seq(S), q # <<>>
  PROVE  /\ Len(q) \in Nat /\ Len(q) > 0 /\ Len(Tail(q)) = Len(q) - 1
         /\ \A i \in 1..Len(Tail(q)) : i + 1 \in 1..Len(q) /\ Tail(q)[i] = q[i + 1]
         /\ 1 \in 1..Len(q) /\ Head(q) = q[1] /\ Head(q) \in S
<1>1. /\ Len(q) \in Nat /\ Len(q) > 0 /\ Len(Tail(q)) = Len(q) - 1
      /\ Head(q) = q[1] /\ Head(q) \in S
  BY EmptySeq, HeadTailProperties, LenProperties
<1>2. \A i \in 1..Len(Tail(q)) : Tail(q)[i] = q[i + 1]
  BY HeadTailProperties
<1> QED
  BY <1>1, <1>2

\* One more text, from a client that had none on the way.
LEMMA SendersGrow ==
  ASSUME NEW q \in Seq(Requests), NEW m \in Requests
  PROVE  /\ Senders(Append(q, m)) = Senders(q) \union {m.from}
         /\ Distinct(q) /\ m.from \notin Senders(q) => Distinct(Append(q, m))
<1> DEFINE p == Append(q, m)
           n == Len(q)
<1>1. /\ n \in Nat /\ Len(p) = n + 1 /\ p[n + 1] = m
      /\ \A i \in 1..n : p[i] = q[i]
  BY AppendFacts
<1> HIDE DEF p
<1>2. \A i \in 1..Len(p) : i \in 1..n \/ i = n + 1
  BY <1>1
<1>3. Senders(p) = Senders(q) \union {m.from}
  <2>1. ASSUME NEW b \in Senders(p) PROVE b \in Senders(q) \union {m.from}
    BY <1>1, <1>2, <2>1 DEF Senders
  <2>2. ASSUME NEW b \in Senders(q) PROVE b \in Senders(p)
    <3>1. PICK i \in 1..n : b = q[i].from
      BY <2>2 DEF Senders
    <3>2. i \in 1..Len(p) /\ p[i] = q[i]
      BY <1>1, <3>1
    <3> QED
      BY <3>1, <3>2 DEF Senders
  <2>3. n + 1 \in 1..Len(p)
    BY <1>1
  <2>4. m.from \in Senders(p)
    BY <1>1, <2>3 DEF Senders
  <2> QED
    BY <2>1, <2>2, <2>4
<1>4. ASSUME Distinct(q), m.from \notin Senders(q)
      PROVE  Distinct(p)
  <2>1. \A i \in 1..n : p[i].from # m.from
    BY <1>1, <1>4 DEF Senders
  <2>2. \A i, j \in 1..n : p[i].from = p[j].from => i = j
    BY <1>1, <1>4 DEF Distinct
  <2> QED
    BY <1>1, <1>2, <2>1, <2>2 DEF Distinct
<1> QED
  BY <1>3, <1>4 DEF p

\* One text less.
LEMMA SendersShrink ==
  ASSUME NEW q \in Seq(Requests), q # <<>>, Distinct(q)
  PROVE  /\ Head(q).from \in Senders(q)
         /\ Senders(Tail(q)) = Senders(q) \ {Head(q).from}
         /\ Distinct(Tail(q))
<1> DEFINE p == Tail(q)
<1>1. /\ Len(q) \in Nat /\ Len(p) = Len(q) - 1 /\ 1 \in 1..Len(q)
      /\ Head(q) = q[1]
  BY TailFacts
<1>2. \A i \in 1..Len(p) : i + 1 \in 1..Len(q) /\ p[i] = q[i + 1]
  BY TailFacts
<1> HIDE DEF p
<1>3. \A j \in 1..Len(q) : j = 1 \/ (j - 1 \in 1..Len(p) /\ (j - 1) + 1 = j)
  BY <1>1
<1>4. Senders(p) = Senders(q) \ {Head(q).from}
  <2>1. ASSUME NEW b \in Senders(p) PROVE b \in Senders(q) \ {Head(q).from}
    <3>1. PICK i \in 1..Len(p) : b = p[i].from
      BY <2>1 DEF Senders
    <3>2. i + 1 \in 1..Len(q) /\ b = q[i + 1].from /\ i + 1 # 1
      BY <1>2, <3>1
    <3>3. q[i + 1].from # q[1].from
      BY <1>1, <3>2 DEF Distinct
    <3> QED
      BY <1>1, <3>2, <3>3 DEF Senders
  <2>2. ASSUME NEW b \in Senders(q), b # Head(q).from PROVE b \in Senders(p)
    <3>1. PICK j \in 1..Len(q) : b = q[j].from
      BY <2>2 DEF Senders
    <3>2. j # 1
      BY <1>1, <2>2, <3>1
    <3>3. j - 1 \in 1..Len(p) /\ p[j - 1] = q[j]
      BY <1>2, <1>3, <3>1, <3>2
    <3> QED
      BY <3>1, <3>3 DEF Senders
  <2> QED
    BY <2>1, <2>2
<1>5. Distinct(p)
  <2> SUFFICES ASSUME NEW i \in 1..Len(p), NEW j \in 1..Len(p),
                      p[i].from = p[j].from
               PROVE  i = j
    BY DEF Distinct
  <2>1. i + 1 = j + 1
    BY <1>2 DEF Distinct
  <2> QED
    BY <2>1
<1>6. Head(q).from \in Senders(q)
  BY <1>1 DEF Senders
<1> QED
  BY <1>4, <1>5, <1>6 DEF p

\* What a sendto() to a client does, to it and to the others.
LEMMA SendToCases ==
  ASSUME TypeInv, NEW c \in Clients, NEW d \in Datagrams, SendTo(c, d)
  PROVE  /\ \A b \in Clients : b # c =>
              toClient'[b] = toClient[b] /\ (b \in lost' <=> b \in lost)
         /\ \/ /\ cpc[c] \in Ended
               /\ toClient'[c] = toClient[c] /\ (c \in lost' <=> c \in lost)
            \/ /\ cpc[c] \notin Ended
               /\ toClient'[c] = Append(toClient[c], d)
               /\ (c \in lost' <=> c \in lost)
            \/ /\ cpc[c] \notin Ended /\ toClient'[c] = toClient[c] /\ c \in lost'
<1>1. toClient \in [Clients -> Seq(Datagrams)]
  BY DEF TypeInv, TypeOK, QueueTypes
<1> QED
  BY <1>1 DEF SendTo

\* What a sendto() to the server does.
LEMMA SendToServerCases ==
  ASSUME TypeInv, NEW c \in Clients, NEW text \in {"OK", "other"},
         SendToServer(c, text)
  PROVE  /\ \A b \in Clients : b # c => (b \in lost' <=> b \in lost)
         /\ \/ toServer' = toServer
            \/ /\ toServer' = Append(toServer, [from |-> c, text |-> text])
               /\ lost' = lost
  BY DEF SendToServer

-----------------------------------------------------------------------------
(***************************************************************************)
(* What becomes of the file: the first state and each step.                *)
(***************************************************************************)

\* What the proofs use of the types, and of the proof above, in every step.
Known == TypeInv /\ AskerIsFirst /\ FileInv

LEMMA KnownTypes ==
  ASSUME Known
  PROVE  /\ toServer \in Seq(Requests) /\ toClient \in [Clients -> Seq(Datagrams)]
         /\ cpc \in [Clients -> CStates] /\ name \in [Clients -> {"OK", "other"}]
         /\ fileSize \in [Clients -> Int] /\ totalReadBytes \in [Clients -> (-IntHalf)..(IntHalf - 1)]
         /\ writeBytes \in [Clients -> Int] /\ local \in [Clients -> Seq(Units)]
         /\ flen \in Nat /\ offset \in Nat /\ offset <= flen
         /\ totalSendBytes \in Int
         /\ spc \in {"open", "ready", "answer", "send", "bye"} => udpClient \in Clients
         /\ spc \in {"bind", "deaf", "request"} => asker \notin Clients
         /\ lost \subseteq Clients
<1>1. (-IntHalf)..MaxLen \subseteq Int
      /\ (-Leftover)..(Chunk + Leftover) \subseteq Int
  BY Sizes
<1> QED
  BY <1>1, Sizes, ClientsAssumption, SMTT(30)
     DEF Known, TypeInv, TypeOK, ServerTypes, QueueTypes, ClientTypes,
         SenderKnown, AskerIsFirst, Requests, Units

LEMMA FileInit == Init => FileInv
<1> SUFFICES ASSUME Init PROVE FileInv
  OBVIOUS
<1>1. TypeInv
  BY TypeInit
<1>2. MessagesOK
  <2>1. Len(toServer) = 0
    BY DEF Init
  <2> QED
    BY <2>1, ClientsAssumption DEF Init, MessagesOK, Distinct, Senders
<1>3. CountsOK
  BY DEF Init, CountsOK
<1>4. AskerOK
  BY ClientsAssumption DEF Init, AskerOK
<1>5. WaitingOK
  <2>1. NoReady(<<>>)
    BY DEF NoReady
  <2>2. \A c \in Clients : /\ toClient[c] = <<>> /\ cpc[c] = "start" /\ local[c] = <<>>
                           /\ totalReadBytes[c] = 0 /\ c # asker
                           /\ c \notin garbage => writeBytes[c] = 0
    BY ClientsAssumption DEF Init
  <2> SUFFICES ASSUME NEW c \in Clients
               PROVE  c # asker /\ cpc[c] = "start" /\ NoReady(toClient[c]) /\ Unread(c)
    BY DEF WaitingOK, Waits
  <2>3. NoReady(toClient[c])
    BY <2>1, <2>2
  <2> QED
    BY <2>2, <2>3 DEF Unread
<1>6. AcceptedOK
  <2>1. \A c \in Clients : cpc[c] = "start" /\ (c \notin garbage => writeBytes[c] = 0)
    BY DEF Init
  <2>2. 0 \in 0..Chunk
    BY Sizes
  <2> QED
    BY <2>1, <2>2 DEF AcceptedOK, Accepts, Accepted
<1>7. FirstOK /\ CreditOK
  BY DEF Init, FirstOK, First, CreditOK, Credited, Clean, Accepted
<1> QED
  BY <1>2, <1>3, <1>4, <1>5, <1>6, <1>7 DEF FileInv

LEMMA SendersAreClients == Known => Senders(toServer) \subseteq Clients
<1> SUFFICES ASSUME Known, NEW i \in 1..Len(toServer)
             PROVE  toServer[i].from \in Clients
  BY DEF Senders
<1>1. toServer \in Seq(Requests)
  BY KnownTypes
<1>2. toServer[i] \in Requests
  BY <1>1, ElementOfSeq
<1> QED
  BY <1>2 DEF Requests

\* The server took a text from its queue.
LEMMA MessagesTaken ==
  ASSUME Known, toServer # <<>>, toServer' = Tail(toServer)
  PROVE  /\ Head(toServer).from \in Senders(toServer)
         /\ Head(toServer).from \in Clients
         /\ Senders(toServer') = Senders(toServer) \ {Head(toServer).from}
         /\ Distinct(toServer')
<1>1. toServer \in Seq(Requests) /\ Distinct(toServer)
  BY KnownTypes DEF Known, FileInv, MessagesOK
<1>2. Head(toServer) \in Requests
  BY <1>1, TailFacts
<1> QED
  BY <1>1, <1>2, SendersShrink DEF Requests

\* A client sent a text to the server.
LEMMA MessagesSent ==
  ASSUME Known, NEW c \in Clients, NEW text \in {"OK", "other"},
         SendToServer(c, text), c \notin Senders(toServer)
  PROVE  Distinct(toServer') /\ Senders(toServer') \subseteq Senders(toServer) \union {c}
         /\ (c \in Senders(toServer') /\ c \in lost' => c \in lost)
<1>1. toServer \in Seq(Requests) /\ Distinct(toServer) /\ TypeInv
  BY KnownTypes DEF Known, FileInv, MessagesOK
<1> DEFINE m == [from |-> c, text |-> text]
<1>2. m \in Requests /\ m.from = c
  BY DEF Requests
<1>3. \/ toServer' = toServer
      \/ toServer' = Append(toServer, m) /\ lost' = lost
  BY <1>1, SendToServerCases
<1> HIDE DEF m
<1> QED
  BY <1>1, <1>2, <1>3, SendersGrow

\* Who may be sent something, and what is known of it then.
LEMMA SentTo ==
  ASSUME Known, SendReady \/ SendBye \/ \E f \in 0..MaxFaults : SendData(f)
  PROVE  /\ udpClient \in Clients /\ UNCHANGED <<cpc, toServer, udpClient, asker>>
         /\ \E d \in Datagrams : SendTo(udpClient, d)
         /\ udpClient \notin Senders(toServer)
            \/ (cpc[udpClient] = "failed" /\ spc = "ready")
         /\ cpc[udpClient] # "start"
<1>1. udpClient \in Clients
  BY KnownTypes DEF SendReady, SendBye, SendData
<1>2. \E d \in Datagrams : SendTo(udpClient, d)
  <2>1. CASE \E f \in 0..MaxFaults : SendData(f)
    <3>1. PICK f \in 0..MaxFaults : SendData(f)
      BY <2>1
    <3>2. Datagram(Portion, f) \in Datagrams
      BY Sizes, DatagramType DEF Known, TypeInv, TypeOK
    <3> QED
      BY <3>1, <3>2 DEF SendData
  <2> QED
    BY <2>1, ReadyIsDatagram, ByeIsDatagram DEF SendReady, SendBye
<1>3. UNCHANGED <<cpc, toServer, udpClient, asker>>
  BY DEF SendReady, SendBye, SendData, clientVars
<1>4. cpc[udpClient] # "start"
  BY <1>1 DEF Known, FileInv, MessagesOK
<1>5. udpClient \notin Senders(toServer)
      \/ (cpc[udpClient] = "failed" /\ spc = "ready")
  <2>1. CASE spc = "ready"
    <3>1. udpClient = asker
      BY <2>1 DEF Known, FileInv, AskerOK
    <3>2. cpc[asker] \in {"ready", "failed"}
      BY <1>1, <2>1, <3>1 DEF Known, FileInv, WaitingOK, Waits
    <3> QED
      BY <2>1, <3>1, <3>2 DEF Known, FileInv, MessagesOK, Accepted
  <2>2. CASE spc \in {"send", "bye"}
    BY <2>2 DEF Known, FileInv, MessagesOK, Served
  <2> QED
    BY <2>1, <2>2 DEF SendReady, SendBye, SendData
<1> QED
  BY <1>1, <1>2, <1>3, <1>4, <1>5

LEMMA MessagesServer == Known /\ ServerTurn => MessagesOK'
<1> SUFFICES ASSUME Known, ServerTurn PROVE MessagesOK'
  OBVIOUS
<1>1. MessagesOK
  BY DEF Known, FileInv
<1>2. CASE Bind \/ OpenFile \/ LoopEnds \/ ReadFails
  BY <1>1, <1>2 DEF Bind, OpenFile, LoopEnds, ReadFails, clientVars, MessagesOK, Served
<1>3. CASE ReceiveRequest
  <2>1. /\ Head(toServer).from \in Senders(toServer)
        /\ Head(toServer).from \in Clients
        /\ Senders(toServer') = Senders(toServer) \ {Head(toServer).from}
        /\ Distinct(toServer')
    BY <1>3, MessagesTaken DEF ReceiveRequest
  <2> QED
    BY <1>1, <1>3, <2>1 DEF ReceiveRequest, clientVars, MessagesOK, Served
<1>4. CASE ReceiveAnswer
  <2>1. /\ Head(toServer).from \in Senders(toServer)
        /\ Head(toServer).from \in Clients
        /\ Senders(toServer') = Senders(toServer) \ {Head(toServer).from}
        /\ Distinct(toServer')
    BY <1>4, MessagesTaken DEF ReceiveAnswer
  <2> QED
    BY <1>1, <1>4, <2>1 DEF ReceiveAnswer, clientVars, MessagesOK, Served
<1>5. CASE SendReady \/ SendBye \/ \E f \in 0..MaxFaults : SendData(f)
  <2>1. /\ udpClient \in Clients /\ UNCHANGED <<cpc, toServer, udpClient, asker>>
        /\ \E d \in Datagrams : SendTo(udpClient, d)
        /\ udpClient \notin Senders(toServer)
           \/ (cpc[udpClient] = "failed" /\ spc = "ready")
        /\ cpc[udpClient] # "start"
    BY <1>5, SentTo
  <2>2. /\ \A b \in Clients : b # udpClient => (b \in lost' <=> b \in lost)
        /\ cpc[udpClient] = "failed" => (udpClient \in lost' <=> udpClient \in lost)
    BY <2>1, SendToCases DEF Known, Ended
  <2>3. \A c : Served(c)' => Served(c) \/ (spc = "bye" /\ c = udpClient)
    BY <1>5, <2>1 DEF SendReady, SendBye, SendData, Served
  <2>4. Senders(toServer) \subseteq Clients
    BY SendersAreClients
  <2>5. \A c \in Senders(toServer) : ~Served(c)'
    BY <1>1, <2>1, <2>3 DEF MessagesOK, Served
  <2> QED
    BY <1>1, <2>1, <2>2, <2>4, <2>5 DEF MessagesOK
<1> QED
  BY <1>2, <1>3, <1>4, <1>5 DEF ServerTurn, ServerStep

\* What every step of a client leaves alone.
LEMMA ClientFrame ==
  ASSUME Known, NEW c \in Clients, ClientStep(c) \/ Interrupt(c)
  PROVE  /\ UNCHANGED <<spc, udpClient, flen, offset, totalSendBytes, asker, name>>
         /\ \A b \in Clients : b # c =>
              /\ cpc'[b] = cpc[b] /\ toClient'[b] = toClient[b]
              /\ fileSize'[b] = fileSize[b] /\ writeBytes'[b] = writeBytes[b]
              /\ totalReadBytes'[b] = totalReadBytes[b] /\ local'[b] = local[b]
              /\ (b \in lost' <=> b \in lost) /\ (b \in garbage' <=> b \in garbage)
         /\ garbage \subseteq garbage'
         /\ cpc'[c] # "start" /\ cpc[c] \notin Ended
<1>1. /\ toClient \in [Clients -> Seq(Datagrams)] /\ cpc \in [Clients -> CStates]
      /\ fileSize \in [Clients -> Int] /\ totalReadBytes \in [Clients -> (-IntHalf)..(IntHalf - 1)]
      /\ writeBytes \in [Clients -> Int] /\ local \in [Clients -> Seq(Units)]
  BY KnownTypes
<1>2. CASE SendRequest(c) \/ CreateFile(c)
  BY <1>1, <1>2 DEF SendRequest, CreateFile, SendToServer, serverVars, Ended
<1>3. CASE \E f \in 0..MaxFaults : ReceiveData(c, f)
  <2>1. PICK f \in 0..MaxFaults : ReceiveData(c, f)
    BY <1>3
  <2>2. /\ UNCHANGED <<serverVars, toServer, cpc, name, fileSize, lost>>
        /\ cpc[c] = "data" /\ garbage' \in {garbage, garbage \union {c}}
        /\ toClient' = [toClient EXCEPT ![c] = Tail(@)]
    BY <2>1 DEF ReceiveData
  <2>3. \A b \in Clients : b # c => totalReadBytes'[b] = totalReadBytes[b]
    BY <1>1, <2>1 DEF ReceiveData
  <2>4. \A b \in Clients : b # c =>
          local'[b] = local[b] /\ writeBytes'[b] = writeBytes[b]
    <3>1. CASE UNCHANGED <<local, writeBytes>>
      BY <3>1
    <3>2. CASE \E l, n : /\ local' = [local EXCEPT ![c] = l]
                         /\ writeBytes' = [writeBytes EXCEPT ![c] = n]
      BY <1>1, <3>2
    <3> QED
      BY <2>1, <3>1, <3>2 DEF ReceiveData
  <2> QED
    BY <1>1, <2>2, <2>3, <2>4 DEF serverVars, Ended
<1>4. CASE ReceiveReady(c) \/ DataEnds(c) \/ ReceiveBye(c) \/ Interrupt(c)
  BY <1>1, <1>4 DEF ReceiveReady, DataEnds, ReceiveBye, Interrupt, serverVars, Ended
<1> QED
  BY <1>2, <1>3, <1>4 DEF ClientStep

\* A client that has yet to say OK has no text on the way that the server
\* could take for it.
LEMMA NotOnTheWay ==
  ASSUME Known, NEW c \in Clients, cpc[c] \in {"start", "create"}
  PROVE  /\ c \notin Senders(toServer)
         /\ cpc[c] = "create" => c = asker /\ ~Served(c) /\ c \notin lost
         /\ cpc[c] = "start" => c # asker /\ ~Served(c) /\ c \notin lost
<1>1. /\ cpc[c] = "create" => c = asker /\ ~Served(c) /\ c \notin lost
      /\ cpc[c] = "start" => c # asker /\ c # udpClient /\ c \notin lost
  BY DEF Known, FileInv, WaitingOK, Waits, AskerOK, MessagesOK
<1> QED
  BY <1>1 DEF Known, FileInv, MessagesOK, Accepted, Served

LEMMA MessagesClient ==
  ASSUME Known, NEW c \in Clients, ClientStep(c) \/ Interrupt(c)
  PROVE  MessagesOK'
<1>1. MessagesOK
  BY DEF Known, FileInv
<1>2. /\ UNCHANGED <<spc, udpClient, asker>>
      /\ \A b \in Clients : b # c =>
           cpc'[b] = cpc[b] /\ (b \in lost' <=> b \in lost)
      /\ cpc'[c] # "start" /\ cpc[c] \notin Ended
  BY ClientFrame
<1>3. Senders(toServer) \subseteq Clients
  BY SendersAreClients
<1>4. \A b \in Clients : Served(b)' <=> Served(b)
  BY <1>2 DEF Served
<1>5. CASE SendRequest(c) \/ (CreateFile(c) /\ SendToServer(c, "OK") /\ cpc'[c] = "data")
  <2>1. cpc[c] \in {"start", "create"}
    BY <1>5 DEF SendRequest, CreateFile
  <2>2. /\ c \notin Senders(toServer) /\ ~Served(c) /\ c \notin lost
        /\ c = asker => cpc[c] = "create"
    BY <2>1, NotOnTheWay
  <2>3. \E text \in {"OK", "other"} : SendToServer(c, text)
    BY <1>5, KnownTypes DEF SendRequest
  <2>4. /\ Distinct(toServer')
        /\ Senders(toServer') \subseteq Senders(toServer) \union {c}
        /\ c \in Senders(toServer') => c \notin lost'
    BY <2>2, <2>3, MessagesSent
  <2>5. c = asker => cpc'[c] \in Accepted
    BY <1>5, <2>2 DEF SendRequest, Accepted
  <2> QED
    BY <1>1, <1>2, <1>3, <1>4, <2>2, <2>4, <2>5 DEF MessagesOK
<1>6. CASE toServer' = toServer
  <2>1. c \in Senders(toServer) => c \notin lost'
    <3>1. CASE SendRequest(c) \/ CreateFile(c)
      BY <3>1, NotOnTheWay DEF SendRequest, CreateFile
    <3>2. CASE lost' = lost
      BY <1>1, <3>2 DEF MessagesOK
    <3> QED
      BY <3>1, <3>2 DEF ClientStep, ReceiveReady, ReceiveData, DataEnds,
                        ReceiveBye, Interrupt
  <2>2. c \in Senders(toServer) /\ c = asker => cpc'[c] \in Accepted \union {"failed"}
    <3>1. ASSUME c \in Senders(toServer), c = asker
          PROVE  cpc[c] \in Accepted \union {"failed"}
      BY <1>1, <3>1 DEF MessagesOK
    <3>2. cpc[c] \in Accepted => cpc'[c] \in Accepted \union {"failed"}
      BY KnownTypes DEF ClientStep, SendRequest, ReceiveReady, CreateFile,
         ReceiveData, DataEnds, ReceiveBye, Interrupt, Accepted
    <3> QED
      BY <1>2, <3>1, <3>2 DEF Ended
  <2> QED
    BY <1>1, <1>2, <1>3, <1>4, <1>6, <2>1, <2>2 DEF MessagesOK
<1> QED
  <2>1. CASE CreateFile(c)
    BY <1>5, <1>6, <2>1, KnownTypes DEF CreateFile
  <2>2. CASE ~CreateFile(c) /\ ~SendRequest(c)
    BY <1>6, <2>2 DEF ClientStep, ReceiveReady, ReceiveData, DataEnds,
                      ReceiveBye, Interrupt
  <2> QED
    BY <1>5, <2>1, <2>2

\* What the server read and what it counted.
LEMMA CountsStep == Known /\ [Next]_vars => CountsOK'
<1> SUFFICES ASSUME Known, [Next]_vars PROVE CountsOK'
  OBVIOUS
<1>1. CountsOK
  BY DEF Known, FileInv
<1>2. CASE UNCHANGED serverVars /\ garbage \subseteq garbage'
  BY <1>1, <1>2 DEF CountsOK, serverVars
<1>3. CASE Bind \/ ReceiveRequest \/ OpenFile \/ SendReady \/ ReceiveAnswer
  <2>1. UNCHANGED <<flen, offset, totalSendBytes, garbage>>
    BY <1>3 DEF Bind, ReceiveRequest, OpenFile, SendReady, ReceiveAnswer, clientVars
  <2>2. spc \notin {"send", "spin", "bye", "ended", "failed"} /\ spc' \notin {"bye", "ended"}
    BY <1>3 DEF Bind, ReceiveRequest, OpenFile, SendReady, ReceiveAnswer
  <2> QED
    BY <1>1, <2>1, <2>2 DEF CountsOK
<1>4. ASSUME NEW f \in 0..MaxFaults, SendData(f)
      PROVE  CountsOK'
  <2>1. /\ spc' = "send" /\ flen' = flen /\ garbage \subseteq garbage'
        /\ offset' = offset + Portion
        /\ totalSendBytes' = Signed(totalSendBytes + Portion)
    BY <1>4 DEF SendData, Counted
  <2>2. /\ Portion \in Nat /\ offset + Portion <= flen
    BY PortionRange DEF Known, TypeInv, TypeOK
  <2>3. ASSUME flen < IntHalf, totalSendBytes = offset
        PROVE  totalSendBytes' = offset'
    <3>1. offset + Portion \in Nat /\ offset + Portion < IntHalf
      BY <2>2, <2>3, KnownTypes, Sizes
    <3> QED
      BY <2>1, <2>3, <3>1, SignedSame
  <2> QED
    BY <1>1, <1>4, <2>1, <2>3 DEF CountsOK, SendData
<1>8. CASE ReadFails
  BY <1>1, <1>8 DEF ReadFails, CountsOK
<1>5. CASE LoopEnds
  <2>1. UNCHANGED <<flen, offset, totalSendBytes, garbage>> /\ spc' = "bye"
        /\ totalSendBytes >= flen /\ spc = "send"
    BY <1>5 DEF LoopEnds
  <2>2. totalSendBytes = offset => offset = flen
    BY <2>1, KnownTypes
  <2> QED
    BY <1>1, <2>1, <2>2 DEF CountsOK
<1>6. CASE SendBye
  <2>1. UNCHANGED <<flen, offset, totalSendBytes, garbage>> /\ spc' = "ended"
        /\ spc = "bye"
    BY <1>6 DEF SendBye
  <2> QED
    BY <1>1, <2>1 DEF CountsOK
<1>7. ASSUME NEW c \in Clients, ClientStep(c) \/ Interrupt(c)
      PROVE  CountsOK'
  <2>1. UNCHANGED serverVars /\ garbage \subseteq garbage'
    BY <1>7, ClientFrame DEF serverVars
  <2> QED
    BY <1>2, <2>1
<1> QED
  BY <1>2, <1>3, <1>4, <1>5, <1>6, <1>7, <1>8 DEF Next, ServerTurn, ServerStep, vars, serverVars

\* The request, and that READY comes first.
LEMMA AskerServer == Known /\ ServerTurn => AskerOK'
<1> SUFFICES ASSUME Known, ServerTurn PROVE AskerOK'
  OBVIOUS
<1>1. AskerOK
  BY DEF Known, FileInv
<1>2. CASE Bind \/ OpenFile \/ LoopEnds \/ ReadFails \/ ReceiveAnswer
  BY <1>1, <1>2 DEF Bind, OpenFile, LoopEnds, ReadFails, ReceiveAnswer, clientVars, AskerOK
<1>3. CASE ReceiveRequest
  <2>1. Head(toServer).from \in Senders(toServer) /\ Head(toServer).from \in Clients
    BY <1>3, MessagesTaken DEF ReceiveRequest
  <2>2. /\ spc = "request" /\ spc' = "open" /\ UNCHANGED <<cpc, toClient, lost>>
        /\ asker' = Head(toServer).from /\ udpClient' = Head(toServer).from
    BY <1>3 DEF ReceiveRequest, clientVars
  <2>3. /\ cpc[Head(toServer).from] # "start" /\ Head(toServer).from \notin lost
    BY <2>1 DEF Known, FileInv, MessagesOK
  <2> QED
    BY <1>1, <2>1, <2>2, <2>3 DEF AskerOK
<1>4. CASE SendReady \/ SendBye \/ \E f \in 0..MaxFaults : SendData(f)
  <2>1. UNCHANGED <<cpc, asker>>
    BY <1>4 DEF SendReady, SendBye, SendData, clientVars
  <2>2. spc' \in {"answer", "ended", "send"}
    BY <1>4 DEF SendReady, SendBye, SendData
  <2> QED
    BY <1>1, <2>1, <2>2 DEF AskerOK
<1> QED
  BY <1>2, <1>3, <1>4 DEF ServerTurn, ServerStep

LEMMA AskerClient ==
  ASSUME Known, NEW c \in Clients, ClientStep(c) \/ Interrupt(c)
  PROVE  AskerOK'
<1>1. AskerOK
  BY DEF Known, FileInv
<1>2. /\ UNCHANGED <<spc, udpClient, asker>>
      /\ \A b \in Clients : b # c =>
           /\ cpc'[b] = cpc[b] /\ toClient'[b] = toClient[b]
           /\ (b \in lost' <=> b \in lost)
      /\ cpc'[c] # "start"
  BY ClientFrame
<1>3. toClient[c] = <<>> => toClient'[c] = <<>>
  BY KnownTypes DEF ClientStep, SendRequest, ReceiveReady, CreateFile,
     ReceiveData, DataEnds, ReceiveBye, Interrupt
<1>4. spc \in {"open", "ready"} /\ c = asker => (c \in lost' => c \in lost)
  <2> SUFFICES ASSUME spc \in {"open", "ready"}, c = asker
               PROVE  c \in lost' => c \in lost
    OBVIOUS
  <2>1. cpc[c] \in {"ready", "failed"}
    BY DEF Known, FileInv, WaitingOK, Waits
  <2> QED
    BY <2>1 DEF ClientStep, SendRequest, ReceiveReady, CreateFile,
       ReceiveData, DataEnds, ReceiveBye, Interrupt
<1> QED
  BY <1>1, <1>2, <1>3, <1>4 DEF AskerOK

\* Queues in which no READY is.
LEMMA NoReadyKept ==
  ASSUME NEW q \in Seq(Datagrams), NoReady(q)
  PROVE  /\ q # <<>> => NoReady(Tail(q)) /\ Head(q).text # "READY"
         /\ \A d \in Datagrams : d.text # "READY" => NoReady(Append(q, d))
<1>1. ASSUME q # <<>> PROVE NoReady(Tail(q)) /\ Head(q).text # "READY"
  BY <1>1, TailFacts DEF NoReady
<1>2. ASSUME NEW d \in Datagrams, d.text # "READY" PROVE NoReady(Append(q, d))
  <2>1. /\ Len(q) \in Nat /\ Len(Append(q, d)) = Len(q) + 1
        /\ \A i \in 1..Len(q) : Append(q, d)[i] = q[i]
        /\ Append(q, d)[Len(q) + 1] = d
    BY AppendFacts
  <2>2. \A i \in 1..Len(Append(q, d)) : i \in 1..Len(q) \/ i = Len(q) + 1
    BY <2>1
  <2> QED
    BY <1>2, <2>1, <2>2 DEF NoReady
<1> QED
  BY <1>1, <1>2

\* The datagrams, and who they are sent to.
LEMMA SentWhat ==
  ASSUME Known, SendReady \/ SendBye \/ \E f \in 0..MaxFaults : SendData(f)
  PROVE  \/ /\ spc = "ready" /\ SendReady /\ SendTo(udpClient, Ready)
            /\ udpClient = asker /\ garbage' = garbage /\ offset' = offset
         \/ /\ spc = "send" /\ \E d \in Datagrams : SendTo(udpClient, d) /\ d.text = "data"
            /\ Served(udpClient) /\ garbage' \subseteq garbage \union {udpClient}
            /\ garbage \subseteq garbage'
         \/ /\ spc = "bye" /\ SendBye /\ SendTo(udpClient, Bye)
            /\ Served(udpClient) /\ garbage' = garbage /\ offset' = offset
<1>1. CASE SendReady
  BY <1>1 DEF SendReady, Known, FileInv, AskerOK
<1>2. CASE SendBye
  BY <1>2 DEF SendBye, Served
<1>3. ASSUME NEW f \in 0..MaxFaults, SendData(f)
      PROVE  /\ spc = "send" /\ \E d \in Datagrams : SendTo(udpClient, d) /\ d.text = "data"
             /\ Served(udpClient) /\ garbage' \subseteq garbage \union {udpClient}
             /\ garbage \subseteq garbage'
  <2>1. Datagram(Portion, f) \in Datagrams
    BY Sizes, DatagramType DEF Known, TypeInv, TypeOK
  <2>2. Datagram(Portion, f).text = "data"
    BY DEF Datagram, Data
  <2> QED
    BY <1>3, <2>1, <2>2 DEF SendData, Served
<1> QED
  BY <1>1, <1>2, <1>3

LEMMA WaitingServer == Known /\ ServerTurn => WaitingOK'
<1> SUFFICES ASSUME Known, ServerTurn, NEW c \in Clients PROVE Waits(c)'
  BY DEF WaitingOK, Waits
<1>1. Waits(c)
  BY DEF Known, FileInv, WaitingOK, Waits
<1>2. UNCHANGED clientVars /\ garbage \subseteq garbage'
  BY DEF ServerTurn, ServerStep, ReadFails, Bind, ReceiveRequest, OpenFile, SendReady, ReceiveAnswer,
     SendData, LoopEnds, SendBye
<1>3. cpc'[c] \in {"start", "ready", "create"} => Unread(c)'
  BY <1>1, <1>2 DEF clientVars, Waits, Unread
<1>4. CASE Bind \/ OpenFile \/ LoopEnds \/ ReadFails
  <2>1. UNCHANGED <<asker, toClient, lost>> /\ (Served(c)' => Served(c))
        /\ (spc' \in {"open", "ready"} => spc = "open")
    BY <1>4 DEF Bind, OpenFile, LoopEnds, ReadFails, Served
  <2> QED
    BY <1>1, <1>2, <1>3, <2>1 DEF clientVars, Waits
<1>5. CASE ReceiveRequest
  <2>1. Head(toServer).from \in Senders(toServer) /\ Head(toServer).from \in Clients
    BY <1>5, MessagesTaken DEF ReceiveRequest
  <2>2. /\ spc = "request" /\ spc' = "open" /\ UNCHANGED <<cpc, toClient, lost>>
        /\ asker' = Head(toServer).from /\ c # asker
    BY <1>5, KnownTypes DEF ReceiveRequest, clientVars
  <2>3. cpc[Head(toServer).from] # "start"
    BY <2>1 DEF Known, FileInv, MessagesOK
  <2>4. toClient[c] = <<>>
    BY <2>2 DEF Known, FileInv, AskerOK
  <2>5. ~Served(c)'
    BY <2>2 DEF Served
  <2> QED
    BY <1>1, <1>3, <2>1, <2>2, <2>3, <2>4, <2>5 DEF Waits
<1>6. CASE ReceiveAnswer
  <2>1. Head(toServer).from \in Senders(toServer)
    BY <1>6, MessagesTaken DEF ReceiveAnswer
  <2>2. /\ spc' \in {"send", "failed"} /\ UNCHANGED <<cpc, toClient, lost, asker>>
        /\ udpClient' = Head(toServer).from
    BY <1>6 DEF ReceiveAnswer, clientVars
  <2>3. c = Head(toServer).from /\ c = asker => cpc[c] \in Accepted \union {"failed"}
    BY <2>1 DEF Known, FileInv, MessagesOK
  <2>4. c = asker /\ cpc[c] \in {"ready", "create"} => ~Served(c)'
    BY <2>2, <2>3 DEF Served, Accepted
  <2> QED
    BY <1>1, <1>3, <2>2, <2>4 DEF Waits
<1>7. CASE SendReady \/ SendBye \/ \E f \in 0..MaxFaults : SendData(f)
  <2>1. /\ udpClient \in Clients /\ UNCHANGED <<cpc, toServer, udpClient, asker>>
        /\ spc' \in {"answer", "ended", "send"} /\ toClient[c] \in Seq(Datagrams)
    BY <1>7, SentTo, KnownTypes DEF SendReady, SendBye, SendData
  <2>2. CASE spc = "ready"
    <3>1. SendTo(udpClient, Ready) /\ udpClient = asker /\ TypeInv /\ spc' = "answer"
      BY <1>7, <2>2, SentWhat DEF Known, SendReady
    <3>2. toClient[asker] = <<>> /\ asker \notin lost /\ cpc[asker] \in {"ready", "failed"}
      BY <2>1, <2>2, <3>1 DEF Known, FileInv, AskerOK, WaitingOK, Waits
    <3>3. ~Served(c)'
      BY <3>1 DEF Served
    <3>4. c # asker => toClient'[c] = toClient[c]
      BY <2>1, <3>1, ReadyIsDatagram, SendToCases
    <3>5. c = asker => \/ toClient'[c] = <<>>
                       \/ toClient'[c] = <<Ready>> /\ c \notin lost'
      BY <2>1, <3>1, <3>2, ReadyIsDatagram, SendToCases, AppendFacts
    <3> QED
      BY <1>1, <1>3, <2>1, <3>1, <3>2, <3>3, <3>4, <3>5 DEF Waits
  <2>3. CASE spc # "ready"
    <3>1. PICK d \in Datagrams : SendTo(udpClient, d) /\ d.text # "READY"
      BY <1>7, <2>3, SentWhat, ByeIsDatagram DEF Bye
    <3>2. Served(udpClient) /\ (Served(c)' => Served(c))
      BY <1>7, <2>1, <2>3, SentWhat DEF Served
    <3>3. c # udpClient => toClient'[c] = toClient[c] /\ (c \in lost' <=> c \in lost)
      BY <2>1, <3>1, SendToCases DEF Known
    <3>4. NoReady(toClient[c]) => NoReady(toClient'[c])
      <4>1. \/ toClient'[c] = toClient[c]
            \/ toClient'[c] = Append(toClient[c], d)
        BY <2>1, <3>1, SendToCases DEF Known
      <4> QED
        BY <2>1, <3>1, <4>1, NoReadyKept
    <3>5. c = asker /\ cpc[c] \in {"ready", "create"} => c # udpClient
      BY <1>1, <3>2 DEF Waits
    <3> QED
      BY <1>1, <1>3, <2>1, <3>2, <3>3, <3>4, <3>5 DEF Waits
  <2> QED
    BY <2>2, <2>3
<1> QED
  BY <1>4, <1>5, <1>6, <1>7 DEF ServerTurn, ServerStep

LEMMA WaitingClient ==
  ASSUME Known, NEW c \in Clients, ClientStep(c) \/ Interrupt(c)
  PROVE  WaitingOK'
<1> SUFFICES ASSUME NEW b \in Clients PROVE Waits(b)'
  BY DEF WaitingOK, Waits
<1>1. Waits(b)
  BY DEF Known, FileInv, WaitingOK, Waits
<1>2. /\ UNCHANGED <<spc, udpClient, asker>>
      /\ cpc'[c] # "start" /\ cpc[c] \notin Ended
  BY ClientFrame
<1>3. Served(b)' <=> Served(b)
  BY <1>2 DEF Served
<1>4. CASE b # c
  <2>1. /\ cpc'[b] = cpc[b] /\ toClient'[b] = toClient[b]
        /\ writeBytes'[b] = writeBytes[b]
        /\ totalReadBytes'[b] = totalReadBytes[b] /\ local'[b] = local[b]
        /\ (b \in lost' <=> b \in lost) /\ (b \in garbage' <=> b \in garbage)
    BY <1>4, ClientFrame
  <2> QED
    BY <1>1, <1>2, <1>3, <2>1 DEF Waits, Unread
<1>5. CASE b = c
  <2>1. /\ toClient[c] \in Seq(Datagrams) /\ cpc \in [Clients -> CStates]
        /\ toClient \in [Clients -> Seq(Datagrams)]
    BY KnownTypes
  <2>2. CASE SendRequest(c)
    <3>1. c # asker /\ cpc'[c] = "ready" /\ toClient' = toClient
          /\ UNCHANGED <<totalReadBytes, local, writeBytes, garbage>> /\ cpc[c] = "start"
      BY <2>1, <2>2, NotOnTheWay DEF SendRequest
    <3> QED
      BY <1>1, <1>2, <1>5, <3>1 DEF Waits, Unread
  <2>3. CASE ReceiveReady(c)
    <3>1. /\ cpc[c] = "ready" /\ toClient[c] # <<>> /\ toClient'[c] = Tail(toClient[c])
          /\ UNCHANGED <<totalReadBytes, local, writeBytes, garbage, lost>>
          /\ cpc'[c] = IF Head(toClient[c]).text = "READY" THEN "create" ELSE "failed"
      BY <2>1, <2>3 DEF ReceiveReady
    <3>2. CASE c = asker
      <4>1. toClient[c] = <<Ready>> /\ c \notin lost
        BY <1>1, <1>5, <3>1, <3>2 DEF Waits
      <4>2. toClient'[c] = <<>>
        BY <3>1, <4>1
      <4>3. spc \notin {"open", "ready"}
        BY <3>1, <3>2 DEF Known, FileInv, AskerOK
      <4> QED
        BY <1>1, <1>2, <1>3, <1>5, <3>1, <3>2, <4>1, <4>2, <4>3 DEF Waits, Unread
    <3>3. CASE c # asker
      <4>1. NoReady(toClient[c])
        BY <1>1, <1>5, <3>3 DEF Waits
      <4>2. NoReady(Tail(toClient[c])) /\ Head(toClient[c]).text # "READY"
        BY <2>1, <3>1, <4>1, NoReadyKept
      <4>3. cpc'[c] = "failed" /\ NoReady(toClient'[c])
        BY <3>1, <4>2
      <4> QED
        BY <1>2, <1>5, <3>3, <4>3 DEF Waits
    <3> QED
      BY <3>2, <3>3
  <2>4. CASE CreateFile(c)
    <3>1. cpc'[c] \in {"data", "failed"} /\ c = asker /\ cpc[c] = "create"
      BY <2>1, <2>4, NotOnTheWay DEF CreateFile
    <3> QED
      BY <1>1, <1>2, <1>5, <3>1 DEF Waits
  <2>5. CASE DataEnds(c) \/ ReceiveBye(c) \/ \E f \in 0..MaxFaults : ReceiveData(c, f)
    <3>1. cpc[c] \in {"data", "bye"} /\ cpc'[c] \in {"data", "bye", "done"}
      BY <2>1, <2>5 DEF DataEnds, ReceiveBye, ReceiveData
    <3> QED
      BY <1>1, <1>2, <1>5, <3>1 DEF Waits
  <2>6. CASE Interrupt(c)
    <3>1. cpc'[c] = "failed" /\ toClient'[c] = <<>>
      BY <2>1, <2>6 DEF Interrupt
    <3>2. NoReady(toClient'[c])
      BY <3>1 DEF NoReady
    <3> QED
      BY <1>2, <1>5, <3>1, <3>2 DEF Waits
  <2> QED
    BY <2>2, <2>3, <2>4, <2>5, <2>6 DEF ClientStep
<1> QED
  BY <1>4, <1>5

\* What a turn of the client's loop does to its counts and to its file.
LEMMA ReadTurn ==
  ASSUME Known, NEW c \in Clients, NEW f \in 0..MaxFaults, ReceiveData(c, f)
  PROVE  /\ cpc[c] = "data" /\ cpc'[c] = "data" /\ totalReadBytes[c] < fileSize[c]
         /\ fileSize'[c] = fileSize[c] /\ (c \in lost' <=> c \in lost)
         /\ toClient[c] # <<>> /\ toClient'[c] = Tail(toClient[c])
         /\ c \notin garbage' => c \notin garbage /\ f = 0
         /\ Head(toClient[c]).units \in Seq(Units)
         /\ Len(Head(toClient[c]).units) \in 0..Chunk
         /\ writeBytes'[c] = IF writeBytes[c] < Len(Head(toClient[c]).units)
                             THEN Len(Head(toClient[c]).units) ELSE writeBytes[c]
         /\ totalReadBytes'[c] = Signed(totalReadBytes[c] + writeBytes'[c])
         /\ ~(writeBytes[c] < Len(Head(toClient[c]).units)) => local'[c] = local[c]
         /\ f = 0 /\ writeBytes[c] = 0 /\ 0 < Len(Head(toClient[c]).units) =>
              local'[c] = local[c] \o Head(toClient[c]).units
<1> DEFINE units == Head(toClient[c]).units
           w == writeBytes[c] - f
           written == [i \in 1..(Len(units) - w) |->
                         IF w + i > 0 THEN units[w + i] ELSE 0]
<1>1. /\ toClient \in [Clients -> Seq(Datagrams)] /\ writeBytes \in [Clients -> Int]
      /\ totalReadBytes \in [Clients -> (-IntHalf)..(IntHalf - 1)] /\ local \in [Clients -> Seq(Units)]
      /\ cpc \in [Clients -> CStates] /\ TypeInv
  BY KnownTypes DEF Known
<1>2. Head(toClient[c]) \in Datagrams
  BY FromClientQueue DEF ReceiveData, Known, TypeInv, TypeOK
<1>3. units \in Seq(Units) /\ Len(units) \in 0..Chunk
  BY <1>2, LenProperties, Sizes DEF Datagrams, Units
<1>4. /\ cpc[c] = "data" /\ cpc' = cpc /\ totalReadBytes[c] < fileSize[c]
      /\ fileSize' = fileSize /\ lost' = lost
      /\ toClient[c] # <<>> /\ toClient'[c] = Tail(toClient[c])
      /\ c \notin garbage' => c \notin garbage /\ f = 0
  BY <1>1 DEF ReceiveData
<1>5. totalReadBytes'[c] = Signed(totalReadBytes[c] + writeBytes'[c])
  BY <1>1 DEF ReceiveData
<1>6. CASE writeBytes[c] < Len(units)
  <2>1. /\ local' = [local EXCEPT ![c] = @ \o written]
        /\ writeBytes' = [writeBytes EXCEPT ![c] = Len(units)]
    BY <1>6 DEF ReceiveData
  <2>2. ASSUME f = 0, writeBytes[c] = 0
        PROVE  written = units
    <3>1. w = 0
      BY <2>2
    <3> HIDE DEF w, units
    <3>2. written = [i \in 1..Len(units) |-> units[i]]
      BY <1>3, <3>1
    <3>3. units = [i \in 1..Len(units) |-> units[i]]
      BY <1>3, LenProperties
    <3> QED
      BY <3>2, <3>3
  <2> HIDE DEF written
  <2> QED
    BY <1>1, <1>3, <1>4, <1>5, <1>6, <2>1, <2>2
<1>7. CASE ~(writeBytes[c] < Len(units))
  <2>1. UNCHANGED <<local, writeBytes>>
    BY <1>7 DEF ReceiveData
  <2> QED
    BY <1>1, <1>3, <1>4, <1>5, <1>7, <2>1
<1> QED
  BY <1>6, <1>7

LEMMA AcceptedServer == Known /\ ServerTurn => AcceptedOK'
<1> SUFFICES ASSUME Known, ServerTurn, NEW c \in Clients PROVE Accepts(c)'
  BY DEF AcceptedOK, Accepts
<1>1. Accepts(c)
  BY DEF Known, FileInv, AcceptedOK, Accepts
<1>2. /\ UNCHANGED <<clientVars, flen>> /\ garbage \subseteq garbage'
  BY DEF ServerTurn, ServerStep, ReadFails, Bind, ReceiveRequest, OpenFile, SendReady, ReceiveAnswer,
     SendData, LoopEnds, SendBye
<1>3. ASSUME cpc[c] \in Accepted, ~Served(c)'
      PROVE  ~Served(c) /\ toClient'[c] = toClient[c]
  <2>1. CASE \/ Bind \/ ReceiveRequest \/ OpenFile \/ ReceiveAnswer
            \/ LoopEnds \/ ReadFails
    BY <1>3, <2>1 DEF Bind, ReceiveRequest, OpenFile, ReceiveAnswer,
                         LoopEnds, ReadFails, Served
  <2>2. CASE SendReady \/ SendBye \/ \E f \in 0..MaxFaults : SendData(f)
    <3>1. /\ udpClient \in Clients /\ UNCHANGED <<cpc, toServer, udpClient, asker>>
          /\ \E d \in Datagrams : SendTo(udpClient, d)
          /\ spc' \in {"answer", "ended", "send"}
      BY <2>2, SentTo DEF SendReady, SendBye, SendData
    <3>2. c # udpClient
      <4>1. CASE spc = "ready"
        <5>1. udpClient = asker /\ cpc[asker] \in {"ready", "failed"}
          BY <3>1, <4>1 DEF Known, FileInv, AskerOK, WaitingOK, Waits
        <5> QED
          BY <1>3, <5>1 DEF Accepted
      <4>2. CASE spc # "ready"
        BY <1>3, <2>2, <4>2 DEF SendReady, SendBye, SendData, Served
      <4> QED
        BY <4>1, <4>2
    <3>3. toClient'[c] = toClient[c]
      BY <3>1, <3>2, SendToCases DEF Known
    <3> QED
      BY <3>1, <3>2, <3>3 DEF Served
  <2> QED
    BY <2>1, <2>2 DEF ServerTurn, ServerStep
<1> QED
  BY <1>1, <1>2, <1>3 DEF clientVars, Accepts, Unread

LEMMA AcceptedClient ==
  ASSUME Known, NEW c \in Clients, ClientStep(c) \/ Interrupt(c)
  PROVE  AcceptedOK'
<1> SUFFICES ASSUME NEW b \in Clients PROVE Accepts(b)'
  BY DEF AcceptedOK, Accepts
<1>1. Accepts(b)
  BY DEF Known, FileInv, AcceptedOK, Accepts
<1>2. UNCHANGED <<spc, udpClient, flen>> /\ garbage \subseteq garbage'
  BY ClientFrame
<1>3. (Served(b)' <=> Served(b)) /\ Signed(flen') = Signed(flen)
  BY <1>2 DEF Served
<1>4. CASE b # c
  <2>1. /\ cpc'[b] = cpc[b] /\ toClient'[b] = toClient[b]
        /\ fileSize'[b] = fileSize[b] /\ writeBytes'[b] = writeBytes[b]
        /\ totalReadBytes'[b] = totalReadBytes[b] /\ local'[b] = local[b]
        /\ (b \in garbage' <=> b \in garbage)
    BY <1>4, ClientFrame
  <2> QED
    BY <1>1, <1>2, <1>3, <2>1 DEF Accepts, Unread
<1>5. CASE b = c
  <2>1. /\ cpc \in [Clients -> CStates] /\ toClient \in [Clients -> Seq(Datagrams)]
        /\ fileSize \in [Clients -> Int] /\ totalReadBytes \in [Clients -> (-IntHalf)..(IntHalf - 1)]
    BY KnownTypes
  <2>2. CASE SendRequest(c) \/ ReceiveReady(c) \/ Interrupt(c)
    <3>1. /\ cpc'[c] \in {"ready", "create", "failed"} /\ writeBytes' = writeBytes
          /\ cpc'[c] = "create" => fileSize'[c] = Signed(flen)
      BY <2>1, <2>2 DEF SendRequest, ReceiveReady, Interrupt
    <3> QED
      BY <1>1, <1>2, <1>3, <1>5, <3>1 DEF Accepts, Accepted
  <2>3. CASE CreateFile(c)
    <3>1. /\ cpc[c] = "create" /\ cpc'[c] \in {"data", "failed"}
          /\ UNCHANGED <<writeBytes, fileSize, toClient, totalReadBytes, local, garbage>>
      BY <2>1, <2>3 DEF CreateFile
    <3>2. Unread(c) /\ toClient[c] = <<>>
      <4>1. c = asker
        BY <3>1, NotOnTheWay
      <4> QED
        BY <3>1, <4>1 DEF Known, FileInv, WaitingOK, Waits
    <3> QED
      BY <1>1, <1>2, <1>3, <1>5, <3>1, <3>2 DEF Accepts, Accepted, Unread
  <2>4. ASSUME NEW f \in 0..MaxFaults, ReceiveData(c, f)
        PROVE  Accepts(c)'
    <3> DEFINE n == Len(Head(toClient[c]).units)
    <3>1. /\ cpc[c] = "data" /\ cpc'[c] = "data" /\ totalReadBytes[c] < fileSize[c]
          /\ fileSize'[c] = fileSize[c] /\ toClient[c] # <<>>
          /\ c \notin garbage' => c \notin garbage
          /\ n \in 0..Chunk
          /\ writeBytes'[c] = IF writeBytes[c] < n THEN n ELSE writeBytes[c]
      BY <2>4, ReadTurn
    <3> HIDE DEF n
    <3>2. Served(c)
      BY <1>1, <1>5, <3>1 DEF Accepts, Accepted
    <3>3. fileSize[c] > 0 /\ fileSize[c] \in Int
      <4>1. fileSize[c] <= 0 => totalReadBytes[c] = 0
        BY <1>1, <1>5, <3>1 DEF Accepts, Accepted
      <4> QED
        BY <2>1, <3>1, <4>1
    <3>4. c \notin garbage' => writeBytes'[c] \in 0..Chunk
      BY <1>1, <1>5, <3>1 DEF Accepts
    <3>5. fileSize'[c] = Signed(flen')
      BY <1>1, <1>3, <1>5, <3>1 DEF Accepts, Accepted
    <3>6. Served(c)' /\ ~(fileSize'[c] <= 0)
      BY <1>3, <1>5, <3>1, <3>2, <3>3
    <3> QED
      BY <3>1, <3>4, <3>5, <3>6 DEF Accepts
  <2>5. CASE DataEnds(c)
    <3>1. /\ cpc[c] = "data" /\ cpc'[c] = "bye" /\ totalReadBytes[c] >= fileSize[c]
          /\ UNCHANGED <<writeBytes, fileSize, toClient, totalReadBytes, local, garbage>>
      BY <2>1, <2>5 DEF DataEnds
    <3> QED
      BY <1>1, <1>2, <1>3, <1>5, <3>1 DEF Accepts, Accepted, Unread
  <2>6. CASE ReceiveBye(c)
    <3>1. /\ cpc[c] = "bye" /\ cpc'[c] = "done" /\ toClient[c] # <<>>
          /\ UNCHANGED <<writeBytes, fileSize, totalReadBytes, local, garbage>>
      BY <2>1, <2>6 DEF ReceiveBye
    <3> QED
      BY <1>1, <1>2, <1>3, <1>5, <3>1 DEF Accepts, Accepted
  <2> QED
    BY <1>5, <2>2, <2>3, <2>4, <2>5, <2>6 DEF ClientStep
<1> QED
  BY <1>4, <1>5

\* The state in which the server starts to serve a client.
Fresh(c) ==
  /\ spc = "send" /\ offset = 0 /\ toClient[c] = <<>> /\ c \notin lost
  /\ cpc[c] # "done" /\ totalReadBytes[c] = 0 /\ local[c] = <<>>
  /\ writeBytes[c] = 0

\* A client is served because it was already, or because its OK was just read.
LEMMA CleanServer ==
  ASSUME Known, ServerTurn, NEW c \in Clients, Clean(c)'
  PROVE  /\ UNCHANGED <<clientVars, flen>> /\ flen < IntHalf
         /\ c \notin garbage' /\ c \notin garbage /\ cpc[c] \in Accepted
         /\ \/ Clean(c) /\ udpClient = c
            \/ Fresh(c)'
<1>1. UNCHANGED <<clientVars, flen>> /\ garbage \subseteq garbage'
  BY DEF ServerTurn, ServerStep, ReadFails, Bind, ReceiveRequest, OpenFile, SendReady, ReceiveAnswer,
     SendData, LoopEnds, SendBye
<1>2. /\ flen < IntHalf /\ c \notin garbage' /\ c \notin garbage /\ cpc[c] \in Accepted
      /\ cpc' = cpc
  BY <1>1 DEF Clean, clientVars
<1>3. CASE Served(c)
  BY <1>1, <1>2, <1>3 DEF Clean, Served
<1>4. CASE ~Served(c)
  <2>1. ReceiveAnswer
    BY <1>4 DEF ServerTurn, ServerStep, ReadFails, Bind, ReceiveRequest, OpenFile, SendReady,
       ReceiveAnswer, SendData, LoopEnds, SendBye, Clean, Served
  <2>2. c \in Senders(toServer)
    BY <2>1, MessagesTaken DEF ReceiveAnswer, Clean, Served
  <2>3. c \notin lost
    BY <2>2 DEF Known, FileInv, MessagesOK
  <2>4. spc' = "send" /\ UNCHANGED <<offset, toClient, lost>> /\ spc = "answer"
    BY <2>1 DEF ReceiveAnswer, Clean, Served
  <2>5. offset = 0
    BY <2>4 DEF Known, FileInv, CountsOK
  <2>6. cpc[c] # "done" /\ toClient[c] = <<>> /\ Unread(c)
    BY <1>2, <1>4 DEF Known, FileInv, AcceptedOK, Accepts
  <2> QED
    BY <1>1, <1>2, <2>3, <2>4, <2>5, <2>6 DEF Fresh, Unread, clientVars
<1> QED
  BY <1>1, <1>2, <1>3, <1>4

\* What a client that is served is sent: what read() returned, or BYE.
LEMMA CleanSent ==
  ASSUME Known, ServerTurn, NEW c \in Clients, Clean(c), Clean(c)', udpClient = c
  PROVE  \/ /\ spc = "send" /\ spc' = "send" /\ offset < flen
            /\ SendTo(c, Data(offset, Portion)) /\ offset' = offset + Portion
            /\ Data(offset, Portion) \in Datagrams
         \/ /\ spc = "send" /\ spc' = "spin" /\ UNCHANGED <<offset, toClient, lost>>
         \/ /\ spc = "send" /\ spc' = "bye" /\ UNCHANGED <<offset, toClient, lost>>
            /\ offset = flen
         \/ /\ spc = "bye" /\ spc' = "ended" /\ offset' = offset
            /\ SendTo(c, Bye) /\ offset = flen
<1>1. Served(c) /\ c \notin garbage /\ c \notin garbage' /\ flen < IntHalf
  BY DEF Clean
<1>2. CASE \E f \in 0..MaxFaults : SendData(f)
  <2>1. PICK f \in 0..MaxFaults : SendData(f)
    BY <1>2
  <2>2. f = 0
    BY <1>1, <2>1 DEF SendData
  <2>3. Datagram(Portion, f) \in Datagrams
    BY Sizes, DatagramType DEF Known, TypeInv, TypeOK
  <2>4. Datagram(Portion, f) = Data(offset, Portion)
    BY <2>2 DEF Datagram
  <2> QED
    BY <2>1, <2>3, <2>4 DEF SendData
<1>3. CASE LoopEnds
  <2>1. spc = "send" /\ spc' = "bye" /\ UNCHANGED <<offset, toClient, lost>>
        /\ totalSendBytes >= flen
    BY <1>3 DEF LoopEnds
  <2>2. totalSendBytes = offset
    BY <1>1 DEF Known, FileInv, CountsOK
  <2>3. offset = flen
    BY <2>1, <2>2, KnownTypes
  <2> QED
    BY <2>1, <2>3
<1>4. CASE SendBye
  <2>1. offset = flen
    BY <1>1, <1>4 DEF SendBye, Known, FileInv, CountsOK
  <2> QED
    BY <1>4, <2>1 DEF SendBye
<1>6. CASE ReadFails
  BY <1>6 DEF ReadFails
<1>5. CASE Bind \/ ReceiveRequest \/ OpenFile \/ SendReady \/ ReceiveAnswer
  BY <1>1, <1>5 DEF Bind, ReceiveRequest, OpenFile, SendReady, ReceiveAnswer, Served
<1> QED
  BY <1>2, <1>3, <1>4, <1>5, <1>6 DEF ServerTurn, ServerStep

LEMMA FirstServer == Known /\ ServerTurn => FirstOK'
<1> SUFFICES ASSUME Known, ServerTurn, NEW c \in Clients,
                    Clean(c)', c \notin lost', flen' > 0
             PROVE  First(c)'
  BY DEF FirstOK, First
<1>1. First(c)
  BY DEF Known, FileInv, FirstOK, First
<1>2. /\ UNCHANGED <<clientVars, flen>>
      /\ \/ Clean(c) /\ udpClient = c
         \/ Fresh(c)'
  BY CleanServer
<1>3. CASE Fresh(c)'
  BY <1>3 DEF Fresh, First
<1>4. CASE Clean(c) /\ udpClient = c
  <2>1. TypeInv /\ toClient[c] \in Seq(Datagrams) /\ flen \in Nat
        /\ totalReadBytes[c] \in Int
    BY KnownTypes, Sizes DEF Known
  <2>2. CASE toClient'[c] = toClient[c] /\ (c \in lost' <=> c \in lost)
             /\ (writeBytes[c] = 0 => offset' = offset)
    BY <1>1, <1>2, <1>4, <2>2 DEF First, clientVars
  <2>3. cpc[c] \in Ended => writeBytes[c] # 0 \/ c \in lost
    <3> SUFFICES ASSUME cpc[c] \in Ended, writeBytes[c] = 0, c \notin lost PROVE FALSE
      OBVIOUS
    <3>1. cpc[c] = "done" /\ flen < IntHalf /\ flen > 0
      BY <1>2, <1>4 DEF Clean, Accepted, Ended
    <3>2. totalReadBytes[c] >= fileSize[c] /\ fileSize[c] = Signed(flen)
      BY <3>1 DEF Known, FileInv, AcceptedOK, Accepts, Accepted
    <3>3. totalReadBytes[c] = 0
      BY <1>1, <1>4, <3>1 DEF First
    <3> QED
      BY <2>1, <3>1, <3>2, <3>3, SignedSame
  <2>4. ASSUME NEW d \in Datagrams, SendTo(c, d),
               toClient[c] = <<>> /\ offset = 0 => d = Data(0, Smaller(Chunk, flen)),
               cpc[c] \notin Ended
        PROVE  First(c)'
    <3>1. /\ toClient'[c] = Append(toClient[c], d)
          /\ (c \in lost' <=> c \in lost)
      BY <2>1, <2>4, SendToCases
    <3>2. /\ toClient'[c] # <<>>
          /\ Head(toClient'[c]) = IF toClient[c] = <<>> THEN d ELSE Head(toClient[c])
      BY <2>1, <3>1, AppendFacts
    <3> QED
      BY <1>1, <1>2, <1>4, <2>4, <3>1, <3>2 DEF First, clientVars
  <2>5. ASSUME NEW d \in Datagrams, SendTo(c, d), cpc[c] \in Ended
        PROVE  First(c)'
    <3>1. toClient'[c] = toClient[c] /\ (c \in lost' <=> c \in lost)
      BY <2>1, <2>5, SendToCases
    <3> QED
      BY <1>1, <1>2, <1>4, <2>3, <2>5, <3>1 DEF First, clientVars
  <2>6. CASE /\ spc = "send" /\ spc' = "send" /\ offset < flen
             /\ SendTo(c, Data(offset, Portion)) /\ offset' = offset + Portion
             /\ Data(offset, Portion) \in Datagrams
    <3>1. offset = 0 => Data(offset, Portion) = Data(0, Smaller(Chunk, flen))
      BY <2>1 DEF Portion
    <3> QED
      BY <2>4, <2>5, <2>6, <3>1
  <2>7. CASE spc = "send" /\ UNCHANGED <<offset, toClient, lost>>
    BY <2>2, <2>7
  <2>8. CASE /\ spc = "bye" /\ spc' = "ended" /\ offset' = offset
             /\ SendTo(c, Bye) /\ offset = flen
    <3>1. offset # 0
      BY <1>2, <2>1, <2>8
    <3> QED
      BY <2>4, <2>5, <2>8, <3>1, ByeIsDatagram
  <2> QED
    BY <1>4, <2>6, <2>7, <2>8, CleanSent
<1> QED
  BY <1>2, <1>3, <1>4

\* A client that is served was served before the step of a client.
LEMMA CleanClient ==
  ASSUME Known, NEW c \in Clients, ClientStep(c) \/ Interrupt(c),
         NEW b \in Clients, Clean(b)'
  PROVE  /\ Clean(b) /\ UNCHANGED <<spc, udpClient, flen, offset>>
         /\ b = c => \/ DataEnds(c) \/ ReceiveBye(c)
                     \/ \E f \in 0..MaxFaults : ReceiveData(c, f)
<1>1. /\ UNCHANGED <<spc, udpClient, flen, offset>> /\ garbage \subseteq garbage'
      /\ b # c => cpc'[b] = cpc[b]
  BY ClientFrame
<1>2. Served(b) /\ flen < IntHalf /\ b \notin garbage /\ cpc'[b] \in Accepted
  BY <1>1 DEF Clean, Served
<1>3. CASE b # c
  BY <1>1, <1>2, <1>3 DEF Clean
<1>4. CASE b = c
  <2>1. cpc[c] # "create"
    BY <1>2, <1>4, NotOnTheWay
  <2>2. \/ DataEnds(c) \/ ReceiveBye(c)
        \/ \E f \in 0..MaxFaults : ReceiveData(c, f)
    BY <1>2, <1>4, <2>1, KnownTypes
       DEF ClientStep, SendRequest, ReceiveReady, CreateFile, Interrupt, Accepted
  <2>3. cpc[c] \in Accepted
    BY <2>2 DEF DataEnds, ReceiveBye, ReceiveData, Accepted
  <2> QED
    BY <1>1, <1>2, <1>4, <2>2, <2>3 DEF Clean
<1> QED
  BY <1>3, <1>4

LEMMA FirstUnitsData ==
  ASSUME NEW n \in Nat
  PROVE  Data(0, n).units = FirstUnits(n) /\ Len(FirstUnits(n)) = n
<1>1. [j \in 1..n |-> 0 + j] = [j \in 1..n |-> j]
  OBVIOUS
<1> QED
  BY <1>1 DEF Data, FirstUnits

LEMMA FirstClient ==
  ASSUME Known, NEW c \in Clients, ClientStep(c) \/ Interrupt(c)
  PROVE  FirstOK'
<1> SUFFICES ASSUME NEW b \in Clients, Clean(b)', b \notin lost', flen' > 0
             PROVE  First(b)'
  BY DEF FirstOK, First
<1>1. First(b)
  BY DEF Known, FileInv, FirstOK, First
<1>2. /\ Clean(b) /\ UNCHANGED <<spc, udpClient, flen, offset>>
      /\ b = c => \/ DataEnds(c) \/ ReceiveBye(c)
                  \/ \E f \in 0..MaxFaults : ReceiveData(c, f)
  BY CleanClient
<1>3. CASE b # c
  <2>1. /\ toClient'[b] = toClient[b] /\ writeBytes'[b] = writeBytes[b]
        /\ totalReadBytes'[b] = totalReadBytes[b] /\ local'[b] = local[b]
        /\ (b \in lost' <=> b \in lost)
    BY <1>3, ClientFrame
  <2> QED
    BY <1>1, <1>2, <2>1 DEF First
<1>4. CASE b = c
  <2>1. /\ flen \in Nat /\ flen < IntHalf /\ Chunk \in Nat /\ 0 < Chunk /\ flen > 0
        /\ totalReadBytes[c] \in Int /\ writeBytes[c] \in Int
        /\ toClient \in [Clients -> Seq(Datagrams)] /\ local[c] \in Seq(Units)
    BY <1>2, KnownTypes, Sizes DEF Clean
  <2>2. fileSize[c] = flen
    <3>1. fileSize[c] = Signed(flen)
      BY <1>2, <1>4 DEF Known, FileInv, AcceptedOK, Accepts, Clean
    <3> QED
      BY <2>1, <3>1, SignedSame
  <2>3. CASE DataEnds(c)
    <3>1. UNCHANGED <<toClient, writeBytes, totalReadBytes, local, lost>>
      BY <2>3 DEF DataEnds
    <3> QED
      BY <1>1, <1>2, <1>4, <3>1 DEF First
  <2>4. CASE ReceiveBye(c)
    <3>1. UNCHANGED <<writeBytes, totalReadBytes, local, lost>> /\ cpc[c] = "bye"
      BY <2>4 DEF ReceiveBye
    <3>2. totalReadBytes[c] >= flen
      BY <2>2, <3>1 DEF Known, FileInv, AcceptedOK, Accepts, Accepted
    <3>3. totalReadBytes[c] # 0
      BY <2>1, <3>2
    <3> QED
      BY <1>1, <1>2, <1>4, <3>1, <3>3 DEF First
  <2>5. ASSUME NEW f \in 0..MaxFaults, ReceiveData(c, f)
        PROVE  First(c)'
    <3> DEFINE units == Head(toClient[c]).units
               n == Len(units)
               k == Smaller(Chunk, flen)
    <3>1. /\ totalReadBytes[c] < fileSize[c] /\ (c \in lost' <=> c \in lost)
          /\ toClient[c] # <<>> /\ c \notin garbage' => f = 0
          /\ units \in Seq(Units) /\ n \in 0..Chunk
          /\ writeBytes'[c] = IF writeBytes[c] < n THEN n ELSE writeBytes[c]
          /\ totalReadBytes'[c] = Signed(totalReadBytes[c] + writeBytes'[c])
          /\ ~(writeBytes[c] < n) => local'[c] = local[c]
          /\ f = 0 /\ writeBytes[c] = 0 /\ 0 < n => local'[c] = local[c] \o units
      BY <2>5, ReadTurn
    <3>2. f = 0 /\ c \notin lost
      BY <1>4, <2>5, <3>1, ReadTurn DEF Clean
    <3>3. k \in Nat /\ 0 < k /\ k <= flen /\ (k = Chunk \/ k = flen)
      BY <2>1 DEF Smaller
    <3>4. CASE writeBytes[c] = 0
      <4>1. /\ totalReadBytes[c] = 0 /\ local[c] = <<>>
            /\ Head(toClient[c]) = Data(0, k)
        BY <1>1, <1>2, <1>4, <2>1, <2>5, <3>2, <3>4, ReadTurn DEF First
      <4>2. units = FirstUnits(k) /\ n = k
        BY <3>3, <4>1, FirstUnitsData
      <4> HIDE DEF k, units, n
      <4>3. writeBytes'[c] = k /\ totalReadBytes'[c] = k
        <5>1. k < IntHalf /\ 0 + k = k
          BY <2>1, <3>3, Sizes
        <5>2. writeBytes'[c] = k
          BY <3>1, <3>3, <3>4, <4>2
        <5> QED
          BY <3>1, <3>3, <4>1, <5>1, <5>2, SignedSame
      <4>4. local'[c] = FirstUnits(k)
        <5>1. local'[c] = <<>> \o units
          BY <3>1, <3>2, <3>3, <3>4, <4>1, <4>2
        <5> QED
          BY <3>1, <4>2, <5>1
      <4> QED
        BY <1>2, <3>3, <4>3, <4>4 DEF First, k
    <3>5. CASE writeBytes[c] # 0
      <4>1. /\ writeBytes[c] = k /\ local[c] = FirstUnits(k)
            /\ k = flen => totalReadBytes[c] = flen
        BY <1>1, <1>2, <1>4, <2>1, <3>2, <3>5 DEF First
      <4> HIDE DEF k, units, n
      <4>2. k # flen
        BY <2>1, <2>2, <3>1, <3>3, <4>1
      <4>3. ~(writeBytes[c] < n)
        BY <2>1, <3>1, <3>3, <4>1, <4>2
      <4>4. writeBytes'[c] = k /\ local'[c] = FirstUnits(k)
        BY <3>1, <4>1, <4>3
      <4>5. k # 0
        BY <3>3
      <4> QED
        BY <1>2, <4>2, <4>4, <4>5 DEF First, k
    <3> QED
      BY <3>4, <3>5
  <2> QED
    BY <1>2, <1>4, <2>3, <2>4, <2>5
<1> QED
  BY <1>3, <1>4

\* What it has counted is not below 0, and grows by what is added or less.
LEMMA TookRange ==
  ASSUME Known, NEW c \in Clients
  PROVE  Took(c) \in Nat /\ Took(c) >= totalReadBytes[c]
<1> DEFINE t == totalReadBytes[c]
<1>1. t \in (-IntHalf)..(IntHalf - 1)
  BY KnownTypes
<1>2. Took(c) = IF t < 0 THEN t + 2 * IntHalf ELSE t
  BY DEF Took
<1> HIDE DEF t
<1>3. Took(c) \in Nat /\ Took(c) >= t
  BY <1>1, <1>2, Sizes
<1> QED
  BY <1>3 DEF t

LEMMA TookGrows ==
  ASSUME Known, NEW c \in Clients, NEW n \in 0..Chunk,
         totalReadBytes'[c] = Signed(totalReadBytes[c] + n)
  PROVE  Took(c)' \in Nat /\ Took(c)' <= Took(c) + Chunk
<1> DEFINE t == totalReadBytes[c]
           u == totalReadBytes'[c]
<1>1. t \in (-IntHalf)..(IntHalf - 1)
  BY KnownTypes
<1>2. /\ Took(c) = IF t < 0 THEN t + 2 * IntHalf ELSE t
      /\ Took(c)' = IF u < 0 THEN u + 2 * IntHalf ELSE u
  BY DEF Took
<1>3. u = Signed(t + n)
  OBVIOUS
<1> HIDE DEF t, u
<1>4. t + n \in Int /\ -IntHalf <= t + n /\ t + n < 2 * IntHalf
  BY <1>1, Sizes
<1>5. u = IF t + n < IntHalf THEN t + n ELSE (t + n) - 2 * IntHalf
  BY <1>3, <1>4, SignedWrap
<1> QED
  BY <1>1, <1>2, <1>5, Sizes

\* A datagram takes no more of it than a full buffer, a lost one too.
LEMMA CreditSent ==
  ASSUME Known, NEW c \in Clients, NEW d \in Datagrams, SendTo(c, d),
         UNCHANGED <<cpc, totalReadBytes>>
  PROVE  /\ Credit(c) \in Nat /\ Credit(c)' \in Nat
         /\ Credit(c)' <= Credit(c) + Chunk
         /\ cpc[c] = "done" /\ c \notin lost => c \notin lost'
<1>1. /\ Took(c) \in Nat /\ Took(c)' = Took(c)
      /\ toClient[c] \in Seq(Datagrams) /\ Chunk \in Nat
  BY TookRange, KnownTypes, Sizes DEF Took
<1>2. Len(toClient[c]) \in Nat
  BY <1>1, LenProperties
<1> DEFINE r == Took(c)
           n == Len(toClient[c])
           l == IF c \in lost THEN Chunk ELSE 0
           m == Len(toClient'[c])
           k == IF c \in lost' THEN Chunk ELSE 0
<1>3. Credit(c) = r + Chunk * n + l /\ Credit(c)' = r + Chunk * m + k
  BY <1>1 DEF Credit
<1>4. /\ r \in Nat /\ n \in Nat /\ l \in Nat /\ k \in Nat
      /\ l <= Chunk /\ k <= Chunk
  BY <1>1, <1>2
<1>5. \/ m = n /\ l = k
      \/ m = n + 1 /\ l = k
      \/ m = n /\ k = Chunk
  <2>1. Len(Append(toClient[c], d)) = n + 1
    BY <1>1, AppendFacts
  <2> QED
    BY <2>1, SendToCases DEF Known
<1>6. cpc[c] = "done" /\ c \notin lost => c \notin lost'
  BY SendToCases DEF Known, Ended
<1> HIDE DEF r, n, l, m, k
<1>7. m \in Nat /\ Chunk * n \in Nat /\ Chunk * m \in Nat
      /\ (m = n + 1 => Chunk * m = Chunk * n + Chunk)
  BY <1>1, <1>4, <1>5
<1> DEFINE x == Chunk * n
           y == Chunk * m
<1>8. /\ x \in Nat /\ y \in Nat
      /\ \/ y = x /\ l = k
         \/ y = x + Chunk /\ l = k
         \/ y = x /\ k = Chunk
  BY <1>5, <1>7
<1> HIDE DEF x, y
<1>9. r + x + l \in Nat /\ r + y + k \in Nat /\ r + y + k <= r + x + l + Chunk
  BY <1>1, <1>4, <1>8
<1> QED
  BY <1>3, <1>6, <1>9 DEF x, y

LEMMA CreditServer == Known /\ ServerTurn => CreditOK'
<1> SUFFICES ASSUME Known, ServerTurn, NEW c \in Clients, Clean(c)'
             PROVE  Credited(c)'
  BY DEF CreditOK, Credited
<1>1. Credited(c)
  BY DEF Known, FileInv, CreditOK, Credited
<1>2. /\ UNCHANGED <<clientVars, flen>>
      /\ \/ Clean(c) /\ udpClient = c
         \/ Fresh(c)'
  BY CleanServer
<1>3. /\ flen \in Nat /\ offset \in Nat /\ offset <= flen /\ Chunk \in Nat /\ 0 < Chunk
      /\ UNCHANGED <<cpc, totalReadBytes>>
  BY <1>2, KnownTypes, Sizes DEF clientVars
<1>4. CASE Fresh(c)'
  <2>1. /\ spc' = "send" /\ offset' = 0 /\ toClient'[c] = <<>> /\ c \notin lost'
        /\ cpc'[c] # "done" /\ totalReadBytes'[c] = 0
    BY <1>4 DEF Fresh
  <2>2. Credit(c)' = 0 + Chunk * 0 + 0
    BY <2>1 DEF Credit, Took
  <2>3. Credit(c)' = 0
    BY <1>3, <2>2
  <2> QED
    BY <1>2, <1>3, <2>1, <2>3 DEF Credited
<1>5. CASE Clean(c) /\ udpClient = c
  <2>1. CASE /\ spc = "send" /\ spc' = "send" /\ offset < flen
             /\ SendTo(c, Data(offset, Portion)) /\ offset' = offset + Portion
             /\ Data(offset, Portion) \in Datagrams
    <3>1. /\ Credit(c) \in Nat /\ Credit(c)' \in Nat
          /\ Credit(c)' <= Credit(c) + Chunk
          /\ cpc[c] = "done" /\ c \notin lost => c \notin lost'
      BY <1>3, <2>1, CreditSent
    <3>2. Credit(c) <= offset
      BY <1>1, <1>5, <2>1 DEF Credited
    <3>3. offset' < flen => offset' = offset + Chunk
      BY <1>3, <2>1 DEF Portion, Smaller
    <3>4. Credit(c)' <= offset + Chunk /\ Credit(c)' < flen + Chunk
      BY <1>3, <2>1, <3>1, <3>2
    <3> QED
      BY <1>1, <1>2, <1>3, <1>5, <2>1, <3>1, <3>3, <3>4 DEF Credited
  <2>4. CASE spc = "send" /\ spc' = "spin" /\ UNCHANGED <<offset, toClient, lost>>
    <3>1. Credit(c)' = Credit(c)
      BY <1>3, <2>4 DEF Credit, Took
    <3> QED
      BY <1>1, <1>2, <1>3, <1>5, <2>4, <3>1 DEF Credited
  <2>2. CASE /\ spc = "send" /\ spc' = "bye" /\ UNCHANGED <<offset, toClient, lost>>
             /\ offset = flen
    <3>1. Credit(c)' = Credit(c)
      BY <1>3, <2>2 DEF Credit, Took
    <3> QED
      BY <1>1, <1>2, <1>3, <1>5, <2>2, <3>1 DEF Credited
  <2>3. CASE /\ spc = "bye" /\ spc' = "ended" /\ offset' = offset
             /\ SendTo(c, Bye) /\ offset = flen
    <3>1. /\ Credit(c) \in Nat /\ Credit(c)' \in Nat
          /\ Credit(c)' <= Credit(c) + Chunk
          /\ cpc[c] = "done" /\ c \notin lost => c \notin lost'
      BY <1>3, <2>3, ByeIsDatagram, CreditSent
    <3>2. Credit(c) < flen + Chunk
      BY <1>1, <1>5, <2>3 DEF Credited
    <3>3. Credit(c)' < flen + Chunk + Chunk
      BY <1>3, <3>1, <3>2
    <3> QED
      BY <1>1, <1>2, <1>3, <1>5, <2>3, <3>1, <3>3 DEF Credited
  <2> QED
    BY <1>5, <2>1, <2>2, <2>3, <2>4, CleanSent
<1> QED
  BY <1>2, <1>4, <1>5

LEMMA CreditClient ==
  ASSUME Known, NEW c \in Clients, ClientStep(c) \/ Interrupt(c)
  PROVE  CreditOK'
<1> SUFFICES ASSUME NEW b \in Clients, Clean(b)' PROVE Credited(b)'
  BY DEF CreditOK, Credited
<1>1. Credited(b)
  BY DEF Known, FileInv, CreditOK, Credited
<1>2. /\ Clean(b) /\ UNCHANGED <<spc, udpClient, flen, offset>>
      /\ b = c => \/ DataEnds(c) \/ ReceiveBye(c)
                  \/ \E f \in 0..MaxFaults : ReceiveData(c, f)
  BY CleanClient
<1>3. CASE b # c
  <2>1. /\ toClient'[b] = toClient[b] /\ totalReadBytes'[b] = totalReadBytes[b]
        /\ cpc'[b] = cpc[b] /\ (b \in lost' <=> b \in lost)
    BY <1>3, ClientFrame
  <2>2. Credit(b)' = Credit(b)
    BY <2>1 DEF Credit, Took
  <2> QED
    BY <1>1, <1>2, <2>1, <2>2 DEF Credited
<1>4. CASE b = c
  <2> DEFINE r == Took(c)
             n == Len(toClient[c])
             l == IF c \in lost THEN Chunk ELSE 0
  <2>1. /\ flen \in Nat /\ offset \in Nat /\ offset <= flen
        /\ Chunk \in Nat /\ 0 < Chunk /\ r \in Nat /\ l \in Nat
        /\ toClient \in [Clients -> Seq(Datagrams)] /\ toClient[c] \in Seq(Datagrams)
        /\ cpc \in [Clients -> CStates]
    BY KnownTypes, TookRange, Sizes
  <2>2. n \in Nat /\ Credit(c) = r + Chunk * n + l
    BY <2>1, LenProperties DEF Credit
  <2>3. CASE DataEnds(c)
    <3>1. UNCHANGED <<toClient, totalReadBytes, lost>> /\ cpc'[c] = "bye"
      BY <2>1, <2>3 DEF DataEnds
    <3>2. Credit(c)' = Credit(c)
      BY <3>1 DEF Credit, Took
    <3> QED
      BY <1>1, <1>2, <1>4, <3>1, <3>2 DEF Credited
  <2>4. ASSUME toClient[c] # <<>>, toClient'[c] = Tail(toClient[c]),
               c \in lost' <=> c \in lost,
               Took(c)' \in Nat, Took(c)' <= r + Chunk
        PROVE  /\ Credit(c) \in Nat /\ Credit(c)' \in Nat /\ Credit(c)' <= Credit(c)
               /\ Credit(c) >= r + Chunk + l
    <3>1. n > 0 /\ Len(toClient'[c]) = n - 1
      BY <2>1, <2>4, TailFacts
    <3> DEFINE s == Took(c)'
               m == n - 1
    <3>2. Credit(c)' = s + Chunk * m + l
      BY <2>4, <3>1 DEF Credit
    <3> HIDE DEF r, n, l, s
    <3>3. /\ m \in Nat /\ Chunk * m \in Nat
          /\ Chunk * n = Chunk * m + Chunk /\ s \in Nat /\ s <= r + Chunk
      BY <2>1, <2>2, <2>4, <3>1 DEF s
    <3> DEFINE x == Chunk * m
    <3>4. x \in Nat /\ Credit(c) = r + (x + Chunk) + l /\ Credit(c)' = s + x + l
      BY <2>2, <3>2, <3>3
    <3> HIDE DEF x, m
    <3> QED
      BY <2>1, <3>3, <3>4
  <2>5. CASE ReceiveBye(c)
    <3>1. /\ cpc[c] = "bye" /\ cpc'[c] = "done" /\ toClient[c] # <<>>
          /\ toClient'[c] = Tail(toClient[c])
          /\ UNCHANGED <<totalReadBytes, lost>>
      BY <2>1, <2>5 DEF ReceiveBye
    <3>2. Took(c)' \in Nat /\ Took(c)' <= r + Chunk
      BY <2>1, <3>1 DEF Took
    <3>3. /\ Credit(c) \in Nat /\ Credit(c)' \in Nat /\ Credit(c)' <= Credit(c)
          /\ Credit(c) >= r + Chunk + l
      BY <2>4, <3>1, <3>2
    <3>4. r >= flen
      <4>1. totalReadBytes[c] >= fileSize[c] /\ fileSize[c] = Signed(flen)
        BY <3>1 DEF Known, FileInv, AcceptedOK, Accepts, Accepted
      <4>2. Took(c) >= totalReadBytes[c] /\ totalReadBytes[c] \in Int
        BY TookRange, KnownTypes, Sizes
      <4>3. fileSize[c] = flen
        BY <1>2, <2>1, <4>1, SignedSame DEF Clean
      <4> QED
        BY <2>1, <4>1, <4>2, <4>3
    <3>5. spc \in {"send", "spin", "bye", "ended"}
      BY <1>2 DEF Clean, Served
    <3>6. Credit(c) < flen + Chunk + Chunk
      <4> HIDE DEF r, l
      <4>1. CASE spc \in {"send", "spin"} /\ offset < flen
        <5>1. Credit(c) <= offset
          BY <1>1, <1>2, <1>4, <4>1 DEF Credited
        <5> QED
          BY <2>1, <3>3, <4>1, <5>1
      <4>2. CASE spc \in {"send", "spin"} /\ offset = flen
        <5>1. Credit(c) < flen + Chunk
          BY <1>1, <1>2, <1>4, <4>2 DEF Credited
        <5> QED
          BY <2>1, <3>3, <5>1
      <4>3. CASE spc = "bye"
        <5>1. Credit(c) < flen + Chunk
          BY <1>1, <1>2, <1>4, <4>3 DEF Credited
        <5> QED
          BY <2>1, <3>3, <5>1
      <4>4. CASE spc = "ended"
        BY <1>1, <1>2, <1>4, <4>4 DEF Credited
      <4>5. offset < flen \/ offset = flen
        BY <2>1
      <4> QED
        BY <3>5, <4>1, <4>2, <4>3, <4>4, <4>5
    <3>7. l # Chunk
      <4> HIDE DEF r, l
      <4> QED
        BY <2>1, <3>3, <3>4, <3>6
    <3>8. c \notin lost'
      BY <3>1, <3>7
    <3> QED
      BY <1>1, <1>2, <1>4, <2>1, <3>3, <3>8 DEF Credited
  <2>6. ASSUME NEW f \in 0..MaxFaults, ReceiveData(c, f)
        PROVE  Credited(c)'
    <3>1. /\ toClient[c] # <<>> /\ toClient'[c] = Tail(toClient[c])
          /\ (c \in lost' <=> c \in lost) /\ cpc'[c] = "data"
          /\ totalReadBytes'[c] = Signed(totalReadBytes[c] + writeBytes'[c])
          /\ Len(Head(toClient[c]).units) \in 0..Chunk
          /\ writeBytes'[c] = IF writeBytes[c] < Len(Head(toClient[c]).units)
                              THEN Len(Head(toClient[c]).units) ELSE writeBytes[c]
      BY <2>6, ReadTurn
    <3>2. writeBytes[c] \in 0..Chunk
      BY <1>2, <1>4 DEF Known, FileInv, AcceptedOK, Accepts, Clean
    <3>3. writeBytes'[c] \in 0..Chunk
      BY <3>1, <3>2
    <3>4. Took(c)' \in Nat /\ Took(c)' <= r + Chunk
      <4>1. PICK v \in 0..Chunk : totalReadBytes'[c] = Signed(totalReadBytes[c] + v)
        BY <3>1, <3>3
      <4> QED
        BY <4>1, TookGrows
    <3>5. Credit(c) \in Nat /\ Credit(c)' \in Nat /\ Credit(c)' <= Credit(c)
      BY <2>4, <3>1, <3>4
    <3> QED
      BY <1>1, <1>2, <1>4, <2>1, <3>1, <3>5 DEF Credited
  <2> QED
    BY <1>2, <1>4, <2>3, <2>5, <2>6
<1> QED
  BY <1>3, <1>4

-----------------------------------------------------------------------------
(***************************************************************************)
(* What a client has that ends well.                                       *)
(***************************************************************************)

LEMMA FileInvariant == Spec => []FileInv
<1>1. Init => FileInv /\ AskerIsFirst
  BY FileInit, ReachInit DEF ReachInv
<1>2. TypeInv /\ AskerIsFirst /\ FileInv /\ [Next]_vars => FileInv' /\ AskerIsFirst'
  <2> SUFFICES ASSUME Known, [Next]_vars PROVE FileInv' /\ AskerIsFirst'
    BY DEF Known
  <2>1. CountsOK'
    BY CountsStep
  <2>2. AskerIsFirst'
    <3>1. AskerIsFirst
      BY DEF Known
    <3>2. CASE ServerTurn
      BY <3>1, <3>2 DEF ServerTurn, ServerStep, ReadFails, Bind,
         ReceiveRequest, OpenFile, SendReady, ReceiveAnswer, SendData, LoopEnds,
         SendBye, AskerIsFirst
    <3>3. ASSUME NEW c \in Clients, ClientStep(c) \/ Interrupt(c)
          PROVE  AskerIsFirst'
      BY <3>1, <3>3, ClientFrame DEF AskerIsFirst
    <3> QED
      BY <3>1, <3>2, <3>3 DEF Next, ServerTurn, vars, AskerIsFirst
  <2>3. CASE ServerTurn
    BY <2>1, <2>2, <2>3, MessagesServer, AskerServer, WaitingServer,
       AcceptedServer, FirstServer, CreditServer DEF FileInv
  <2>4. ASSUME NEW c \in Clients, ClientStep(c) \/ Interrupt(c)
        PROVE  FileInv' /\ AskerIsFirst'
    BY <2>1, <2>2, <2>4, MessagesClient, AskerClient, WaitingClient,
       AcceptedClient, FirstClient, CreditClient DEF FileInv
  <2>5. CASE UNCHANGED vars
    <3>1. FileInv
      BY DEF Known
    <3> QED
      BY <2>2, <2>5, <3>1 DEF vars, FileInv, MessagesOK, CountsOK, AskerOK,
         WaitingOK, Waits, AcceptedOK, Accepts, FirstOK, First, CreditOK, Credited, Credit,
         Took, Clean, Served, Unread
  <2> QED
    BY <2>3, <2>4, <2>5 DEF Next, ServerTurn
<1> QED
  BY <1>1, <1>2, TypeInvariant, PTL DEF Spec

\* What is known of a client that ended well, started from an int that was 0
\* and had no call that failed.
LEMMA DoneIsClean ==
  ASSUME TypeInv, FileInv, NEW c \in Clients, cpc[c] = "done", c \notin garbage,
         flen < IntHalf
  PROVE  Clean(c) /\ c \notin lost
<1>1. Clean(c)
  BY DEF FileInv, AcceptedOK, Accepts, Accepted, Clean
<1> QED
  BY <1>1 DEF FileInv, CreditOK, Credited

\* What a client that ends well has is the first datagram of the file, with any
\* number of clients, of losses and of failures of the others' calls: what is
\* first in its queue while it has written nothing is the first datagram, and
\* what it wrote once, writeBytes not set back to 0, keeps it from writing
\* more (client.c and server.c of UDP_FileTransfer).
THEOREM FirstDatagramIsKept == Spec => []FirstDatagramArrives
<1>1. TypeInv /\ FileInv => FirstDatagramArrives
  <2> SUFFICES ASSUME TypeInv, FileInv, NEW c \in Clients, cpc[c] = "done",
                      c \notin garbage
               PROVE  IF Signed(flen) <= 0 THEN local[c] = <<>>
                      ELSE flen < IntHalf =>
                             local[c] = FirstUnits(Smaller(flen, Chunk))
    BY DEF FirstDatagramArrives
  <2>1. /\ fileSize[c] = Signed(flen) /\ totalReadBytes[c] >= fileSize[c]
        /\ fileSize[c] <= 0 => local[c] = <<>>
    BY DEF FileInv, AcceptedOK, Accepts, Accepted
  <2>2. CASE Signed(flen) <= 0
    BY <2>1, <2>2
  <2>3. CASE ~(Signed(flen) <= 0) /\ flen < IntHalf
    <3>1. flen \in Nat /\ Chunk \in Nat /\ totalReadBytes[c] \in Int
      <4>1. flen \in 0..MaxLen
            /\ totalReadBytes[c] \in (-IntHalf)..(IntHalf - 1)
        BY DEF TypeInv, TypeOK, ServerTypes, ClientTypes
      <4> QED
        BY <4>1, Sizes
    <3>2. Signed(flen) = flen /\ flen > 0
      BY <2>3, <3>1, SignedSame
    <3>3. Clean(c) /\ c \notin lost
      BY <2>3, DoneIsClean
    <3>4. writeBytes[c] # 0
      BY <2>1, <3>1, <3>2, <3>3 DEF FileInv, FirstOK, First
    <3>5. local[c] = FirstUnits(Smaller(Chunk, flen))
      BY <3>2, <3>3, <3>4 DEF FileInv, FirstOK, First
    <3>6. Smaller(Chunk, flen) = Smaller(flen, Chunk)
      BY <3>1 DEF Smaller
    <3> QED
      BY <2>3, <3>5, <3>6
  <2> QED
    BY <2>2, <2>3
<1> QED
  BY <1>1, TypeInvariant, FileInvariant, PTL

\* A client that lost a datagram never ends well, however full the queues:
\* what it has counted and what is on its way are together less than it
\* waits for (server.c:86-95).
THEOREM LossKeepsWaiting == Spec => []LossIsNoticed
<1>1. TypeInv /\ FileInv => LossIsNoticed
  BY DoneIsClean DEF LossIsNoticed
<1> QED
  BY <1>1, TypeInvariant, FileInvariant, PTL

=============================================================================
