--------------------------- MODULE TcpPingProofs ---------------------------
(***************************************************************************)
(* Proofs about TcpPing, for any clients, number of pings, length of the   *)
(* message, buffers and queue: the types of its variables, that the echo   *)
(* is intact, what a wrong ping takes, and what client and server may wait *)
(* for each other over.                                                    *)
(***************************************************************************)
EXTENDS TcpPing, SequenceTheorems, TLAPS

Units == 1..NUL

LEMMA Sizes ==
  /\ Pings \in Nat /\ NUL \in Nat /\ 2 <= NUL /\ Chunk \in Nat /\ 0 < Chunk
  /\ Capacity \in Nat /\ 0 < Capacity /\ Backlog \in Nat /\ 0 < Backlog
  BY SizesAssumption

(***************************************************************************)
(* Sequences of units.                                                     *)
(***************************************************************************)

\* A function on 1..n into S is a sequence of n values of S.
LEMMA SeqOfLength ==
  ASSUME NEW n \in Nat, NEW S, NEW p \in [1..n -> S]
  PROVE  p \in Seq(S) /\ Len(p) = n
<1>1. p \in Seq(S)
  BY SeqDef, Zenon
<1> QED
  BY <1>1, LenProperties

\* The part of a sequence from one place to another.
LEMMA PartType ==
  ASSUME NEW S, NEW s \in Seq(S), NEW m \in Nat, NEW n \in Nat,
         1 <= m, n <= Len(s)
  PROVE  /\ SubSeq(s, m, n) \in Seq(S)
         /\ Len(SubSeq(s, m, n)) = IF m <= n THEN n - m + 1 ELSE 0
         /\ \A i \in 1..(n - m + 1) : SubSeq(s, m, n)[i] = s[m + i - 1]
<1>1. Len(s) \in Nat
  BY LenProperties
<1>2. \A i \in m..n : s[i] \in S
  BY <1>1, ElementOfSeq
<1> QED
  BY <1>2, SubSeqProperties

LEMMA Associative ==
  ASSUME NEW S, NEW s \in Seq(S), NEW t \in Seq(S), NEW u \in Seq(S)
  PROVE  (s \o t) \o u = s \o (t \o u)
  OBVIOUS

\* The first k of a sequence, and what comes after them.
Front(t, k) == SubSeq(t, 1, k)
Rest(t, k) == SubSeq(t, k + 1, Len(t))

\* The first k of t move to the end of s.
LEMMA Moved ==
  ASSUME NEW S, NEW s \in Seq(S), NEW t \in Seq(S), NEW k \in Nat, k <= Len(t)
  PROVE  /\ Front(t, k) \in Seq(S) /\ Len(Front(t, k)) = k
         /\ Rest(t, k) \in Seq(S)
         /\ s \o Front(t, k) \in Seq(S)
         /\ Len(s \o Front(t, k)) = Len(s) + Len(Front(t, k))
         /\ Front(t, k) \o Rest(t, k) = t
<1>1. Len(t) \in Nat
  BY LenProperties
<1>2. Front(t, k) \in Seq(S) /\ Len(Front(t, k)) = k /\ Rest(t, k) \in Seq(S)
  BY <1>1, PartType DEF Front, Rest
<1>3. Front(t, k) \o Rest(t, k) = t
  <2>1. 1 \in 1..(Len(t) + 1) /\ k \in (1 - 1)..Len(t) /\ Len(t) \in k..Len(t)
    BY <1>1
  <2>2. SubSeq(t, 1, k) \o SubSeq(t, k + 1, Len(t)) = SubSeq(t, 1, Len(t))
    BY <1>1, <2>1, ConcatAdjacentSubSeq
  <2> QED
    BY <2>2, SubSeqFull DEF Front, Rest
<1>4. s \o Front(t, k) \in Seq(S) /\ Len(s \o Front(t, k)) = Len(s) + Len(Front(t, k))
  BY <1>2, ConcatProperties
<1> QED
  BY <1>2, <1>3, <1>4

LEMMA MovedJoin ==
  ASSUME NEW s \in Seq(Units), NEW t \in Seq(Units), NEW k \in Nat, k <= Len(t)
  PROVE  (s \o Front(t, k)) \o Rest(t, k) = s \o t
<1> DEFINE first == Front(t, k)
           rest == Rest(t, k)
<1>1. first \in Seq(Units) /\ rest \in Seq(Units)
  BY Moved, Zenon
<1>2. first \o rest = t
  BY Moved, Zenon
<1> HIDE DEF first, rest
<1>3. (s \o first) \o rest = s \o (first \o rest)
  BY <1>1, Associative, SMTT(30)
<1> QED
  BY <1>2, <1>3 DEF first, rest

LEMMA FirstUnitsType ==
  ASSUME NEW n \in 0..NUL
  PROVE  FirstUnits(n) \in Seq(Units) /\ Len(FirstUnits(n)) = n
<1>1. n \in Nat /\ FirstUnits(n) \in [1..n -> Units]
  BY Sizes DEF FirstUnits, Units
<1> QED
  BY <1>1, SeqOfLength

\* The two parts of the first n units.
LEMMA Parts ==
  ASSUME NEW n \in 0..NUL, NEW s \in Seq(Units), NEW t \in Seq(Units),
         s \o t = FirstUnits(n)
  PROVE  /\ Len(s) \in Nat /\ Len(t) \in Nat /\ Len(s) + Len(t) = n
         /\ \A i \in 1..Len(t) : t[i] = Len(s) + i
         /\ s = FirstUnits(Len(s))
<1>1. Len(s) \in Nat /\ Len(t) \in Nat
  BY LenProperties
<1>2. /\ Len(s \o t) = Len(s) + Len(t)
      /\ \A i \in 1..(Len(s) + Len(t)) :
           (s \o t)[i] = IF i <= Len(s) THEN s[i] ELSE t[i - Len(s)]
  BY ConcatProperties
<1>3. Len(s) + Len(t) = n
  BY <1>2, FirstUnitsType
<1>4. ASSUME NEW i \in 1..Len(t)
      PROVE  t[i] = Len(s) + i
  <2>1. Len(s) + i \in 1..n /\ ~(Len(s) + i <= Len(s)) /\ (Len(s) + i) - Len(s) = i
    BY <1>1, <1>3
  <2>2. FirstUnits(n)[Len(s) + i] = Len(s) + i
    BY <2>1 DEF FirstUnits
  <2> QED
    BY <1>2, <1>3, <2>1, <2>2
<1>5. s = FirstUnits(Len(s))
  <2>1. Len(s) \in 0..NUL
    BY <1>1, <1>3, Sizes
  <2>2. FirstUnits(Len(s)) \in Seq(Units) /\ Len(FirstUnits(Len(s))) = Len(s)
    BY <2>1, FirstUnitsType
  <2>3. ASSUME NEW i \in 1..Len(s)
        PROVE  s[i] = FirstUnits(Len(s))[i]
    <3>1. i \in 1..n /\ i <= Len(s)
      BY <1>1, <1>3
    <3>2. FirstUnits(n)[i] = i /\ FirstUnits(Len(s))[i] = i
      BY <3>1 DEF FirstUnits
    <3> QED
      BY <1>2, <1>3, <3>1, <3>2
  <2> QED
    BY <2>2, <2>3, SeqEqual
<1> QED
  BY <1>1, <1>3, <1>4, <1>5

\* The next k units of the message.
NextUnits(n, k) == [i \in 1..k |-> n + i]

LEMMA NextUnitsType ==
  ASSUME NEW n \in Nat, NEW k \in Nat, n + k <= NUL
  PROVE  NextUnits(n, k) \in Seq(Units) /\ Len(NextUnits(n, k)) = k
<1>1. NextUnits(n, k) \in [1..k -> Units]
  BY Sizes DEF NextUnits, Units
<1> QED
  BY <1>1, SeqOfLength

LEMMA UnitsJoin ==
  ASSUME NEW n \in Nat, NEW k \in Nat, n + k <= NUL
  PROVE  FirstUnits(n) \o NextUnits(n, k) = FirstUnits(n + k)
<1> DEFINE s == FirstUnits(n)
           t == NextUnits(n, k)
           u == FirstUnits(n + k)
<1>1. n \in 0..NUL /\ n + k \in 0..NUL
  BY Sizes
<1>2. /\ s \in Seq(Units) /\ Len(s) = n /\ t \in Seq(Units) /\ Len(t) = k
      /\ u \in Seq(Units) /\ Len(u) = n + k
  BY <1>1, FirstUnitsType, NextUnitsType
<1>3. /\ s \o t \in Seq(Units) /\ Len(s \o t) = n + k
      /\ \A i \in 1..(n + k) : (s \o t)[i] = IF i <= n THEN s[i] ELSE t[i - n]
  BY <1>2, ConcatProperties
<1>4. ASSUME NEW i \in 1..(n + k)
      PROVE  (s \o t)[i] = u[i]
  <2>1. u[i] = i
    BY DEF FirstUnits
  <2>2. CASE i <= n
    BY <1>3, <2>1, <2>2 DEF FirstUnits
  <2>3. CASE ~(i <= n)
    <3>1. i - n \in 1..k /\ n + (i - n) = i
      BY <2>3
    <3>2. t[i - n] = n + (i - n)
      BY <3>1 DEF NextUnits
    <3> QED
      BY <1>3, <2>1, <2>3, <3>1, <3>2
  <2> QED
    BY <2>2, <2>3
<1> HIDE DEF s, t, u
<1>5. s \o t = u
  BY <1>2, <1>3, <1>4, SeqEqual
<1> QED
  BY <1>5 DEF s, t, u

-----------------------------------------------------------------------------
(***************************************************************************)
(* Types.                                                                  *)
(***************************************************************************)

\* A client in the course of a ping has one left to do.
LeftOK ==
  \A c \in Clients : cpc[c] \in {"ready", "send", "recv", "close"} => left[c] >= 1

TypeInv == TypeOK /\ LeftOK

LEMMA Empty == ASSUME NEW S PROVE <<>> \in Seq(S) /\ Len(<<>>) = 0
  OBVIOUS

LEMMA TypeInit == Init => TypeInv
<1> SUFFICES ASSUME Init PROVE TypeInv
  OBVIOUS
<1>1. ServerTypes
  BY Empty, Sizes DEF Init, ServerTypes, SStates
<1>2. ClientTypes
  BY Empty, Sizes DEF Init, ClientTypes, CStates
<1>3. NetworkTypes
  BY Empty DEF Init, NetworkTypes
<1>4. LeftOK
  BY Sizes DEF Init, LeftOK
<1>5. /\ hungup \subseteq Clients /\ nulLost \subseteq Clients
      /\ wrong \subseteq Clients /\ trouble \in BOOLEAN
  BY DEF Init
<1> QED
  BY <1>1, <1>2, <1>3, <1>4, <1>5 DEF TypeInv, TypeOK

\* The steps of the server leave the variables of the clients alone.
LEMMA ServerStepTypes ==
  TypeInv /\ (ServerStep \/ AcceptFails) => TypeInv'
<1> SUFFICES ASSUME TypeInv, ServerStep \/ AcceptFails
             PROVE  TypeInv'
  OBVIOUS
<1> DEFINE Others == /\ UNCHANGED <<clientVars, nulLost, wrong>>
                     /\ hungup' \subseteq Clients /\ trouble' \in BOOLEAN
<1>1. ServerTypes /\ NetworkTypes /\ ClientTypes /\ LeftOK
  BY DEF TypeInv, TypeOK
<1>2. ServerTypes' /\ NetworkTypes' /\ Others => TypeInv'
  BY <1>1 DEF TypeInv, TypeOK, ClientTypes, LeftOK, clientVars
<1>3. Others
  BY DEF ServerStep, WaitConnection, AcceptFails, ReadPing, ReadEndOfStream,
         WriteBack, BrokenPipe, CloseConnection, Die, TypeInv, TypeOK,
         ServerTypes, clientVars
<1>4. CASE WaitConnection
  <2>1. /\ Head(backlog) \in Clients /\ Tail(backlog) \in Seq(Clients)
        /\ Len(Tail(backlog)) <= Backlog
    BY <1>1, <1>4, Sizes, HeadTailProperties DEF WaitConnection, ServerTypes
  <2>2. ServerTypes'
    BY <1>4, <2>1, Empty, Sizes DEF WaitConnection, ServerTypes, SStates
  <2>3. NetworkTypes'
    BY <1>1, <1>4 DEF WaitConnection, NetworkTypes
  <2> QED
    BY <1>2, <1>3, <2>2, <2>3
<1>5. CASE AcceptFails \/ BrokenPipe
  <2>1. ServerTypes'
    <3>1. Die
      BY <1>5 DEF AcceptFails, BrokenPipe
    <3>2. backlog' \in Seq(Clients) /\ Len(backlog') <= Backlog
      BY <3>1, Empty, Sizes DEF Die
    <3> QED
      BY <1>1, <3>1, <3>2 DEF Die, ServerTypes, SStates
  <2>2. NetworkTypes'
    BY <1>1, <1>5 DEF AcceptFails, BrokenPipe, NetworkTypes
  <2> QED
    BY <1>2, <1>3, <2>1, <2>2
<1>6. ASSUME NEW k \in 1..Chunk, ReadPing(k)
      PROVE  TypeInv'
  <2>1. /\ conn \in Clients /\ k \in Nat /\ k <= Len(c2s[conn])
        /\ readData \in Seq(Units) /\ c2s[conn] \in Seq(Units)
        /\ totalSent \in 0..Len(readData)
    BY <1>1, <1>6, Sizes DEF ReadPing, ServerTypes, NetworkTypes, Units
  <2> DEFINE old == readData
             first == Front(c2s[conn], k)
             rest == Rest(c2s[conn], k)
             new == old \o first
  <2>2. /\ new \in Seq(Units)
        /\ Len(new) = Len(old) + Len(first) /\ Len(first) = k
        /\ rest \in Seq(Units)
    BY <2>1, Moved
  <2>3. readData' = new /\ c2s' = [c2s EXCEPT ![conn] = rest]
    BY <1>6 DEF ReadPing, Front, Rest
  <2>4. Len(old) \in Nat
    BY <2>1, LenProperties
  <2> HIDE DEF new, rest
  <2>5. totalSent \in 0..Len(new)
    BY <2>1, <2>2, <2>4
  <2>6. ServerTypes'
    BY <1>1, <1>6, <2>1, <2>2, <2>3, <2>5 DEF ReadPing, ServerTypes, SStates, Units
  <2>7. NetworkTypes'
    BY <1>1, <1>6, <2>2, <2>3 DEF ReadPing, NetworkTypes, Units
  <2> QED
    BY <1>2, <1>3, <2>6, <2>7
<1>7. CASE ReadEndOfStream
  <2>1. ServerTypes' /\ NetworkTypes'
    BY <1>1, <1>7 DEF ReadEndOfStream, ServerTypes, NetworkTypes, SStates
  <2> QED
    BY <1>2, <1>3, <2>1
<1>8. ASSUME NEW k \in 1..Capacity, WriteBack(k)
      PROVE  TypeInv'
  <2>1. /\ conn \in Clients /\ k \in Nat /\ totalSent \in Nat
        /\ readData \in Seq(1..NUL) /\ s2c[conn] \in Seq(1..NUL)
        /\ Len(readData) \in Nat
    BY <1>1, <1>8, Sizes, LenProperties DEF WriteBack, ServerTypes, NetworkTypes
  <2>2. totalSent + k <= Len(readData)
    BY <1>8, <2>1 DEF WriteBack
  <2> DEFINE part == SubSeq(readData, totalSent + 1, totalSent + k)
  <2>3. part \in Seq(1..NUL)
    <3>1. totalSent + 1 \in Nat /\ totalSent + k \in Nat /\ 1 <= totalSent + 1
      BY <2>1
    <3> QED
      BY <2>1, <2>2, <3>1, PartType
  <2>4. s2c' = s2c \/ s2c' = [s2c EXCEPT ![conn] = s2c[conn] \o part]
    BY <1>8 DEF WriteBack
  <2>5. c2s' = c2s
    BY <1>8 DEF WriteBack
  <2> HIDE DEF part
  <2>6. s2c[conn] \o part \in Seq(1..NUL)
    BY <2>1, <2>3, ConcatProperties
  <2>7. NetworkTypes'
    BY <1>1, <2>1, <2>4, <2>5, <2>6 DEF NetworkTypes
  <2>8. totalSent' \in 0..Len(readData)
    BY <1>8, <2>1, <2>2 DEF WriteBack
  <2>9. ServerTypes'
    BY <1>1, <1>8, <2>8 DEF WriteBack, ServerTypes, SStates
  <2> QED
    BY <1>2, <1>3, <2>7, <2>9
<1>9. CASE CloseConnection
  <2>1. ServerTypes' /\ NetworkTypes'
    BY <1>1, <1>9 DEF CloseConnection, ServerTypes, NetworkTypes, SStates
  <2> QED
    BY <1>2, <1>3, <2>1
<1> QED
  BY <1>4, <1>5, <1>6, <1>7, <1>8, <1>9 DEF ServerStep

LEMMA ClientStepTypes ==
  ASSUME TypeInv, NEW c \in Clients,
         ClientStep(c) \/ ConnectFails(c) \/ ShortWrite(c) \/ Interrupt(c)
  PROVE  TypeInv'
<1>1. ServerTypes /\ NetworkTypes /\ ClientTypes /\ LeftOK
  BY DEF TypeInv, TypeOK
<1>2. /\ hungup' \subseteq Clients /\ nulLost' \subseteq Clients
      /\ wrong' \subseteq Clients /\ trouble' \in BOOLEAN
  BY DEF ClientStep, ConnectFails, ShortWrite, Interrupt, Connect, SendPing,
         SendFails, RecvEcho, RecvEnds, CloseClient, Verdict, TypeInv, TypeOK,
         serverVars
<1>3. cpc' \in [Clients -> CStates]
  BY <1>1
  DEF ClientStep, ConnectFails, ShortWrite, Interrupt, Connect, SendPing,
      SendFails, RecvEcho, RecvEnds, CloseClient, ClientTypes, CStates
<1>4. LeftOK'
  BY <1>1, Sizes
  DEF ClientStep, ConnectFails, ShortWrite, Interrupt, Connect, SendPing,
      SendFails, RecvEcho, RecvEnds, CloseClient, ClientTypes, LeftOK
<1>5. ServerTypes' /\ ClientTypes' /\ NetworkTypes' => TypeInv'
  BY <1>2, <1>4 DEF TypeInv, TypeOK
<1>6. UNCHANGED serverVars => ServerTypes'
  BY <1>1 DEF serverVars, ServerTypes
<1>7. CASE Connect(c)
  <2>1. Append(backlog, c) \in Seq(Clients) /\ Len(Append(backlog, c)) <= Backlog
    BY <1>1, <1>7, Sizes, AppendProperties, LenProperties DEF Connect, ServerTypes
  <2>2. ServerTypes'
    BY <1>1, <1>7, <2>1 DEF Connect, ServerTypes
  <2>3. ClientTypes'
    BY <1>1, <1>3, <1>7, Empty, Sizes DEF Connect, ClientTypes
  <2>4. NetworkTypes'
    BY <1>1, <1>7, Empty DEF Connect, NetworkTypes
  <2> QED
    BY <1>5, <2>2, <2>3, <2>4
<1>8. CASE \/ ConnectFails(c) \/ Interrupt(c) \/ ShortWrite(c) \/ SendFails(c)
           \/ RecvEnds(c) \/ CloseClient(c)
  <2>1. UNCHANGED <<serverVars, totalBytes, bufferRecv, c2s, s2c>>
    BY <1>8 DEF ConnectFails, Interrupt, ShortWrite, SendFails, RecvEnds, CloseClient
  <2>2. left' \in [Clients -> 0..Pings]
    <3>1. CASE CloseClient(c)
      <4>1. left[c] \in 0..Pings /\ left[c] >= 1 /\ left' = [left EXCEPT ![c] = left[c] - 1]
        BY <1>1, <3>1 DEF CloseClient, ClientTypes, LeftOK
      <4>2. left[c] - 1 \in 0..Pings
        BY <4>1, Sizes
      <4> QED
        BY <1>1, <4>1, <4>2 DEF ClientTypes
    <3>2. CASE ~CloseClient(c)
      BY <1>1, <1>8, <3>2
      DEF ConnectFails, Interrupt, ShortWrite, SendFails, RecvEnds, ClientTypes
    <3> QED
      BY <3>1, <3>2
  <2>3. ClientTypes'
    BY <1>1, <1>3, <2>1, <2>2 DEF ClientTypes
  <2>4. NetworkTypes'
    BY <1>1, <2>1 DEF NetworkTypes
  <2> QED
    BY <1>5, <1>6, <2>1, <2>3, <2>4
<1>9. ASSUME NEW k \in 1..Capacity, SendPing(c, k)
      PROVE  TypeInv'
  <2>1. /\ k \in Nat /\ totalBytes[c] \in Nat /\ totalBytes[c] + k <= NUL
        /\ c2s[c] \in Seq(1..NUL)
    BY <1>1, <1>9, Sizes DEF SendPing, ClientTypes, NetworkTypes
  <2> DEFINE next == NextUnits(totalBytes[c], k)
  <2>2. next \in Seq(1..NUL)
    BY <2>1, NextUnitsType DEF Units
  <2>3. c2s' = [c2s EXCEPT ![c] = c2s[c] \o next] /\ s2c' = s2c
    BY <1>9 DEF SendPing, NextUnits
  <2> HIDE DEF next
  <2>4. c2s[c] \o next \in Seq(1..NUL)
    BY <2>1, <2>2, ConcatProperties
  <2>5. NetworkTypes'
    BY <1>1, <2>3, <2>4 DEF NetworkTypes
  <2>6. totalBytes' \in [Clients -> 0..NUL]
    BY <1>1, <1>9, <2>1, Sizes DEF SendPing, ClientTypes
  <2>7. ClientTypes' /\ UNCHANGED serverVars
    BY <1>1, <1>3, <1>9, <2>6 DEF SendPing, ClientTypes
  <2> QED
    BY <1>5, <1>6, <2>5, <2>7
<1>10. ASSUME NEW k \in 1..NUL, RecvEcho(c, k)
       PROVE  TypeInv'
  <2>1. /\ k \in Nat /\ k <= Len(s2c[c])
        /\ s2c[c] \in Seq(Units) /\ bufferRecv[c] \in Seq(Units)
    BY <1>1, <1>10, Sizes DEF RecvEcho, ClientTypes, NetworkTypes, Units
  <2> DEFINE old == bufferRecv[c]
             first == Front(s2c[c], k)
             rest == Rest(s2c[c], k)
             new == old \o first
  <2>2. new \in Seq(Units) /\ rest \in Seq(Units)
    BY <2>1, Moved
  <2>3. /\ bufferRecv' = [bufferRecv EXCEPT ![c] = new]
        /\ s2c' = [s2c EXCEPT ![c] = rest] /\ c2s' = c2s
    BY <1>10 DEF RecvEcho, Front, Rest
  <2> HIDE DEF new, rest
  <2>4. NetworkTypes'
    BY <1>1, <2>2, <2>3 DEF NetworkTypes, Units
  <2>5. ClientTypes' /\ UNCHANGED serverVars
    BY <1>1, <1>3, <1>10, <2>2, <2>3 DEF RecvEcho, ClientTypes, Units
  <2> QED
    BY <1>5, <1>6, <2>4, <2>5
<1> QED
  BY <1>7, <1>8, <1>9, <1>10 DEF ClientStep

LEMMA TypeNext == TypeInv /\ [Next]_vars => TypeInv'
<1> SUFFICES ASSUME TypeInv, [Next]_vars PROVE TypeInv'
  OBVIOUS
<1>1. CASE UNCHANGED vars
  BY <1>1 DEF vars, TypeInv, TypeOK, LeftOK, ServerTypes, ClientTypes,
              NetworkTypes
<1> QED
  BY <1>1, ServerStepTypes, ClientStepTypes DEF Next

\* Every variable has its type.
THEOREM TypeCorrect == Spec => []TypeOK
<1>1. TypeInv => TypeOK
  BY DEF TypeInv
<1> QED
  BY <1>1, TypeInit, TypeNext, PTL DEF Spec

-----------------------------------------------------------------------------
(***************************************************************************)
(* The echo.                                                               *)
(***************************************************************************)

Talking(c) == cpc[c] \in {"send", "recv"}

\* A client that waits to be accepted waits once, and on an open connection.
QueueOK ==
  /\ \A i, j \in 1..Len(backlog) : backlog[i] = backlog[j] => i = j
  /\ \A c \in Clients :
       Queued(c) => c \notin hungup /\ cpc[c] \in {"send", "recv", "gone"}

\* While the server reads or writes, the connection of its client is open, at
\* both ends unless the client was interrupted; it reads up to the NUL before
\* it writes, and writes all of it before it closes.
ServiceOK ==
  /\ spc = "dead" => backlog = <<>>
  /\ spc \in {"accept", "dead"} => conn = NoClient
  /\ spc \in {"read", "write"} =>
       ~Queued(conn) /\ conn \notin hungup /\ cpc[conn] \in {"send", "recv", "gone"}
  /\ spc = "read" => totalSent = 0 /\ (Talking(conn) => Len(readData) < NUL)
  /\ spc = "write" => totalSent < Len(readData)
  /\ spc = "close" => totalSent = Len(readData)
  /\ spc \in {"write", "close"} /\ ~Queued(conn) /\ Talking(conn) =>
       readData = FirstUnits(NUL) /\ conn \notin hungup

\* What has arrived of the message of c, and how much of it was echoed.
Arrived(c) == IF Served(c) THEN readData ELSE <<>>
Echoed(c) == IF Served(c) THEN SubSeq(readData, 1, totalSent) ELSE <<>>

EchoOf(c) ==
  Talking(c) /\ spc # "dead" =>
    IF c \in hungup THEN bufferRecv[c] \o s2c[c] = FirstUnits(NUL)
    ELSE /\ Arrived(c) \o c2s[c] = FirstUnits(totalBytes[c])
         /\ bufferRecv[c] \o s2c[c] = Echoed(c)

\* A client waits for the echo when it has sent everything, or believes it.
ReceiveOK ==
  \A c \in Clients :
    cpc[c] = "recv" =>
      totalBytes[c] = NUL \/ c \in nulLost \/ c \in hungup \/ spc = "dead"

GoneOK == \A c \in Clients : cpc[c] = "gone" => trouble

EchoInv ==
  /\ TypeInv /\ QueueOK /\ ServiceOK
  /\ \A c \in Clients : EchoOf(c)
  /\ ReceiveOK /\ GoneOK /\ WrongOnlyAfterTrouble

\* The units that are moved to the end of the first units continue them.
LEMMA Continued ==
  ASSUME NEW n \in 0..NUL, NEW s \in Seq(Units), NEW t \in Seq(Units),
         s \o t = FirstUnits(n), NEW k \in 1..Len(t)
  PROVE  /\ Len(s) + k <= n
         /\ t[k] = Len(s) + k
         /\ s \o Front(t, k) = FirstUnits(Len(s) + k)
<1>1. /\ Len(s) \in Nat /\ Len(t) \in Nat /\ Len(s) + Len(t) = n
      /\ t[k] = Len(s) + k
  <2>1. Len(s) \in Nat /\ Len(t) \in Nat /\ Len(s) + Len(t) = n
    BY Parts, Zenon
  <2>2. \A i \in 1..Len(t) : t[i] = Len(s) + i
    BY Parts, ZenonT(40)
  <2> QED
    BY <2>1, <2>2
<1>2. k \in Nat /\ k <= Len(t) /\ Len(s) + k <= n
  BY <1>1
<1> DEFINE first == Front(t, k)
           new == s \o first
           rest == Rest(t, k)
<1>3. /\ new \in Seq(Units) /\ rest \in Seq(Units)
      /\ Len(new) = Len(s) + Len(first) /\ Len(first) = k
  BY <1>2, Moved
<1>4. new \o rest = s \o t
  BY <1>2, MovedJoin, Zenon
<1> HIDE DEF first, new, rest
<1>5. new = FirstUnits(Len(new))
  BY <1>3, <1>4, Parts
<1> QED
  BY <1>1, <1>2, <1>3, <1>5 DEF first, new

\* The first k of the first units.
LEMMA FirstPart ==
  ASSUME NEW n \in 0..NUL, NEW k \in 0..n
  PROVE  SubSeq(FirstUnits(n), 1, k) = FirstUnits(k)
<1> DEFINE t == FirstUnits(n)
           first == Front(t, k)
           rest == Rest(t, k)
<1>1. t \in Seq(Units) /\ Len(t) = n /\ k \in Nat /\ k <= Len(t)
  BY FirstUnitsType
<1> HIDE DEF t
<1>2. /\ first \in Seq(Units) /\ Len(first) = k /\ rest \in Seq(Units)
      /\ first \o rest = t
  BY <1>1, Moved, Zenon
<1> HIDE DEF first, rest
<1>3. first = FirstUnits(Len(first))
  BY <1>2, Parts DEF t
<1> QED
  BY <1>2, <1>3 DEF first, t, Front

\* What a client that talks has sent and received, in the types of Seq.
LEMMA StreamTypes ==
  ASSUME TypeInv, NEW c \in Clients
  PROVE  /\ bufferRecv[c] \in Seq(Units) /\ s2c[c] \in Seq(Units)
         /\ c2s[c] \in Seq(Units) /\ readData \in Seq(Units)
         /\ Arrived(c) \in Seq(Units)
         /\ totalBytes[c] \in 0..NUL /\ totalSent \in Nat
         /\ totalSent <= Len(readData) /\ Len(readData) \in Nat
<1>1. readData \in Seq(Units) /\ totalSent \in 0..Len(readData)
  BY DEF TypeInv, TypeOK, ServerTypes, Units
<1>2. Len(readData) \in Nat
  BY <1>1, LenProperties
<1>3. Arrived(c) \in Seq(Units)
  BY <1>1, Empty DEF Arrived
<1> QED
  BY <1>1, <1>2, <1>3 DEF TypeInv, TypeOK, ClientTypes, NetworkTypes, Units

\* What has arrived of the client in service is the beginning of its message.
LEMMA ServedData ==
  ASSUME TypeInv, NEW c \in Clients, EchoOf(c), Talking(c), spc # "dead",
         c \notin hungup, Served(c)
  PROVE  /\ readData = FirstUnits(Len(readData)) /\ Len(readData) <= NUL
         /\ readData \o c2s[c] = FirstUnits(totalBytes[c])
         /\ bufferRecv[c] \o s2c[c] = FirstUnits(totalSent)
<1>1. /\ readData \in Seq(Units) /\ c2s[c] \in Seq(Units)
      /\ totalBytes[c] \in 0..NUL /\ totalSent \in Nat
      /\ totalSent <= Len(readData) /\ Len(readData) \in Nat
  BY StreamTypes
<1>2. /\ readData \o c2s[c] = FirstUnits(totalBytes[c])
      /\ bufferRecv[c] \o s2c[c] = SubSeq(readData, 1, totalSent)
  BY DEF EchoOf, Arrived, Echoed
<1>3. /\ readData = FirstUnits(Len(readData))
      /\ Len(readData) + Len(c2s[c]) = totalBytes[c] /\ Len(c2s[c]) \in Nat
  BY <1>1, <1>2, Parts
<1>4. Len(readData) <= NUL
  BY <1>1, <1>3, Sizes
<1>5. SubSeq(readData, 1, totalSent) = FirstUnits(totalSent)
  <2>1. Len(readData) \in 0..NUL /\ totalSent \in 0..Len(readData)
    BY <1>1, <1>4, Sizes
  <2> QED
    BY <1>3, <2>1, FirstPart
<1> QED
  BY <1>2, <1>3, <1>4, <1>5

\* The NUL comes back at the end of the whole message, and not before the
\* server has written all of it.
LEMMA EchoReceived ==
  ASSUME EchoInv, NEW c \in Clients, NEW k \in 1..NUL, RecvEcho(c, k), spc # "dead"
  PROVE  /\ (bufferRecv[c] \o s2c[c])
              = bufferRecv'[c] \o s2c'[c]
         /\ s2c[c][k] = NUL =>
              /\ bufferRecv'[c] = FirstUnits(NUL)
              /\ c \in hungup \/ (spc = "close" /\ Served(c))
<1>1. /\ TypeInv /\ ServiceOK /\ EchoOf(c) /\ Talking(c)
  BY DEF EchoInv, RecvEcho, Talking
<1> DEFINE s == bufferRecv[c]
           t == s2c[c]
           rest == Rest(t, k)
           new == s \o Front(t, k)
<1>2. /\ s \in Seq(Units) /\ t \in Seq(Units) /\ Len(t) \in Nat
      /\ k \in 1..Len(t) /\ totalSent \in Nat
      /\ totalSent <= Len(readData) /\ Len(readData) \in Nat
  BY <1>1, StreamTypes, LenProperties, Sizes DEF RecvEcho
<1>3. bufferRecv'[c] = new /\ s2c'[c] = rest
  BY <1>1 DEF RecvEcho, TypeInv, TypeOK, ClientTypes, NetworkTypes, Front, Rest
<1>4. new \o rest = s \o t
  <2>1. k \in Nat /\ k <= Len(t)
    BY <1>2
  <2> QED
    BY <1>2, <2>1, MovedJoin, Zenon
<1>5. ASSUME NEW n \in 0..NUL, s \o t = FirstUnits(n), t[k] = NUL
      PROVE  n = NUL /\ new = FirstUnits(NUL)
  <2>1. Len(s) + k <= n /\ t[k] = Len(s) + k /\ new = FirstUnits(Len(s) + k)
    <3>1. k \in 1..Len(t) /\ s \in Seq(Units) /\ t \in Seq(Units)
      BY <1>2
    <3> HIDE DEF s, t
    <3>2. s \o Front(t, k) = FirstUnits(Len(s) + k)
      BY <1>5, <3>1, Continued, Zenon
    <3>3. Len(s) + k <= n /\ t[k] = Len(s) + k
      BY <1>5, <3>1, Continued, Zenon
    <3> QED
      BY <3>2, <3>3
  <2> QED
    BY <1>5, <2>1, Sizes
<1>6. CASE c \in hungup
  <2>1. s \o t = FirstUnits(NUL)
    BY <1>1, <1>6 DEF EchoOf
  <2>2. NUL \in 0..NUL
    BY Sizes
  <2>3. t[k] = NUL => new = FirstUnits(NUL)
    BY <1>5, <2>1, <2>2
  <2> QED
    BY <1>3, <1>4, <1>6, <2>3
<1>7. CASE c \notin hungup
  <2>1. ~Served(c) => s \o t = <<>>
    BY <1>1, <1>7 DEF EchoOf, Echoed
  <2>2. Served(c)
    <3>1. Len(s \o t) = Len(s) + Len(t) /\ Len(s) \in Nat
      BY <1>2, ConcatProperties, LenProperties
    <3>2. s \o t # <<>>
      BY <1>2, <3>1, Empty
    <3> QED
      BY <2>1, <3>2
  <2>3. /\ s \o t = FirstUnits(totalSent) /\ Len(readData) <= NUL
    BY <1>1, <1>7, <2>2, ServedData
  <2>4. ASSUME t[k] = NUL
        PROVE  new = FirstUnits(NUL) /\ spc = "close"
    <3>1. totalSent \in 0..NUL
      BY <1>2, <2>3, Sizes
    <3>2. totalSent = NUL /\ new = FirstUnits(NUL)
      BY <1>5, <2>3, <2>4, <3>1
    <3>3. ~(totalSent < Len(readData)) /\ totalSent # 0
      BY <1>2, <2>3, <3>2, Sizes
    <3>4. conn = c /\ c # NoClient
      BY <2>2, ClientsAssumption DEF Served
    <3>5. spc = "close"
      BY <1>1, <3>3, <3>4 DEF ServiceOK, TypeInv, TypeOK, ServerTypes, SStates
    <3> QED
      BY <3>2, <3>5
  <2> QED
    BY <1>3, <1>4, <2>2, <2>4
<1> QED
  BY <1>6, <1>7

-----------------------------------------------------------------------------
(***************************************************************************)
(* The steps of a client.                                                  *)
(***************************************************************************)

\* All that a client does but to connect.
OwnStep(c) ==
  \/ ConnectFails(c) \/ ShortWrite(c) \/ Interrupt(c)
  \/ \E k \in 1..Capacity : SendPing(c, k)
  \/ SendFails(c)
  \/ \E k \in 1..NUL : RecvEcho(c, k)
  \/ RecvEnds(c)
  \/ CloseClient(c)

\* A step of one client leaves the others and the server alone.
LEMMA OwnStepFrame ==
  ASSUME TypeInv, NEW c \in Clients, OwnStep(c)
  PROVE  /\ UNCHANGED serverVars
         /\ \A d \in Clients \ {c} :
              /\ cpc'[d] = cpc[d] /\ totalBytes'[d] = totalBytes[d]
              /\ bufferRecv'[d] = bufferRecv[d]
              /\ c2s'[d] = c2s[d] /\ s2c'[d] = s2c[d]
         /\ nulLost \subseteq nulLost'
         /\ trouble => trouble'
<1>1. ClientTypes /\ NetworkTypes
  BY DEF TypeInv, TypeOK
<1>2. UNCHANGED serverVars /\ nulLost \subseteq nulLost' /\ (trouble => trouble')
  BY DEF OwnStep, ConnectFails, ShortWrite, Interrupt, SendPing, SendFails,
         RecvEcho, RecvEnds, CloseClient
<1>3. \A d \in Clients \ {c} : cpc'[d] = cpc[d] /\ totalBytes'[d] = totalBytes[d]
  BY <1>1 DEF OwnStep, ConnectFails, ShortWrite, Interrupt, SendPing, SendFails,
         RecvEcho, RecvEnds, CloseClient, ClientTypes
<1>4. \A d \in Clients \ {c} :
        bufferRecv'[d] = bufferRecv[d] /\ c2s'[d] = c2s[d] /\ s2c'[d] = s2c[d]
  BY <1>1 DEF OwnStep, ConnectFails, ShortWrite, Interrupt, SendPing, SendFails,
         RecvEcho, RecvEnds, CloseClient, ClientTypes, NetworkTypes
<1> QED
  BY <1>2, <1>3, <1>4

\* A client that waits to be accepted, or that the server reads from or writes
\* to, does not come to the end of its ping unless it is interrupted.
LEMMA Attended ==
  ASSUME EchoInv, NEW c \in Clients, OwnStep(c),
         Queued(c) \/ (conn = c /\ spc \in {"read", "write"})
  PROVE  cpc'[c] \in {"send", "recv", "gone"}
<1>1. TypeInv /\ QueueOK /\ ServiceOK
  BY DEF EchoInv
<1>2. cpc[c] \in {"send", "recv", "gone"} /\ c \notin hungup
  BY <1>1 DEF QueueOK, ServiceOK
<1>3. spc # "dead"
  <2>1. backlog = <<>> => ~Queued(c)
    BY Empty DEF Queued
  <2> QED
    BY <1>1, <2>1 DEF ServiceOK
<1>4. cpc \in [Clients -> CStates]
  BY <1>1 DEF TypeInv, TypeOK, ClientTypes
<1>5. ASSUME NEW k \in 1..NUL, RecvEcho(c, k)
      PROVE  cpc'[c] \in {"send", "recv", "gone"}
  <2>1. s2c[c][k] # NUL
    BY <1>2, <1>3, <1>5, EchoReceived DEF Served
  <2> QED
    BY <1>2, <1>5, <2>1 DEF RecvEcho
<1> QED
  BY <1>2, <1>3, <1>4, <1>5
  DEF OwnStep, ConnectFails, ShortWrite, Interrupt, SendPing, SendFails,
      RecvEnds, CloseClient, ServerGone

LEMMA OwnStepQueue ==
  ASSUME EchoInv, NEW c \in Clients, OwnStep(c)
  PROVE  QueueOK' /\ ServiceOK'
<1>1. TypeInv /\ QueueOK /\ ServiceOK
  BY DEF EchoInv
<1>2. /\ UNCHANGED <<spc, conn, readData, totalSent, backlog, hungup>>
      /\ \A d \in Clients \ {c} : cpc'[d] = cpc[d]
  BY <1>1, OwnStepFrame DEF serverVars
<1>3. cpc'[c] \in {"send", "recv"} => Talking(c)
  BY <1>1 DEF OwnStep, ConnectFails, ShortWrite, Interrupt, SendPing, SendFails,
              RecvEcho, RecvEnds, CloseClient, TypeInv, TypeOK, ClientTypes, Talking
<1>4. \A d \in Clients : Queued(d)' <=> Queued(d)
  BY <1>2 DEF Queued
<1>5. \A d \in Clients : Queued(d) => cpc'[d] \in {"send", "recv", "gone"}
  BY <1>1, <1>2, Attended DEF QueueOK
<1>6. QueueOK'
  BY <1>1, <1>2, <1>4, <1>5 DEF QueueOK
<1>7. spc \in {"read", "write", "close"} => conn \in Clients
  BY <1>1 DEF TypeInv, TypeOK, ServerTypes
<1>8. spc \in {"read", "write"} => cpc'[conn] \in {"send", "recv", "gone"}
  BY <1>1, <1>2, <1>7, Attended DEF ServiceOK
<1>9. spc \in {"read", "write", "close"} =>
        (Queued(conn)' <=> Queued(conn)) /\ (Talking(conn)' => Talking(conn))
  BY <1>2, <1>3, <1>4, <1>7 DEF Talking, Queued
<1>10. ServiceOK'
  <2>1. (spc = "read" => totalSent = 0 /\ (Talking(conn) => Len(readData) < NUL))'
    BY <1>1, <1>2, <1>9 DEF ServiceOK
  <2>2. (spc \in {"write", "close"} /\ ~Queued(conn) /\ Talking(conn) =>
           readData = FirstUnits(NUL) /\ conn \notin hungup)'
    BY <1>1, <1>2, <1>9 DEF ServiceOK, FirstUnits
  <2>3. (spc \in {"read", "write"} =>
           /\ ~Queued(conn) /\ conn \notin hungup
           /\ cpc[conn] \in {"send", "recv", "gone"})'
    BY <1>1, <1>2, <1>8, <1>9 DEF ServiceOK
  <2> QED
    BY <1>1, <1>2, <2>1, <2>2, <2>3 DEF ServiceOK
<1> QED
  BY <1>6, <1>10

\* What moves from one side of the connection to the other is not lost on the way.
LEMMA OwnStepEcho ==
  ASSUME EchoInv, NEW c \in Clients, OwnStep(c), NEW d \in Clients
  PROVE  EchoOf(d)'
<1> SUFFICES ASSUME Talking(d)', spc' # "dead"
             PROVE  IF d \in hungup' THEN bufferRecv'[d] \o s2c'[d] = FirstUnits(NUL)
                    ELSE /\ Arrived(d)' \o c2s'[d] = FirstUnits(totalBytes'[d])
                         /\ bufferRecv'[d] \o s2c'[d] = Echoed(d)'
  BY DEF EchoOf, FirstUnits
<1>1. TypeInv /\ EchoOf(d) /\ ClientTypes /\ NetworkTypes
  BY DEF EchoInv, TypeInv, TypeOK
<1>2. UNCHANGED <<spc, conn, readData, totalSent, backlog, hungup>>
  BY <1>1, OwnStepFrame DEF serverVars
<1>3. Arrived(d)' = Arrived(d) /\ Echoed(d)' = Echoed(d)
  BY <1>2 DEF Arrived, Echoed, Served, Queued
<1>4. Talking(d)
  <2>1. cpc'[c] \in {"send", "recv"} => Talking(c)
    BY <1>1 DEF OwnStep, ConnectFails, ShortWrite, Interrupt, SendPing, SendFails,
                RecvEcho, RecvEnds, CloseClient, ClientTypes, Talking
  <2> QED
    BY <1>1, <2>1, OwnStepFrame DEF Talking
<1>5. /\ d \in hungup => bufferRecv[d] \o s2c[d] = FirstUnits(NUL)
      /\ d \notin hungup =>
           /\ Arrived(d) \o c2s[d] = FirstUnits(totalBytes[d])
           /\ bufferRecv[d] \o s2c[d] = Echoed(d)
  BY <1>1, <1>2, <1>4 DEF EchoOf
<1>6. ASSUME /\ totalBytes'[d] = totalBytes[d] /\ c2s'[d] = c2s[d]
             /\ bufferRecv'[d] \o s2c'[d] = bufferRecv[d] \o s2c[d]
      PROVE  IF d \in hungup' THEN bufferRecv'[d] \o s2c'[d] = FirstUnits(NUL)
             ELSE /\ Arrived(d)' \o c2s'[d] = FirstUnits(totalBytes'[d])
                  /\ bufferRecv'[d] \o s2c'[d] = Echoed(d)'
  BY <1>2, <1>3, <1>5, <1>6
<1>7. CASE d # c
  BY <1>1, <1>6, <1>7, OwnStepFrame
<1>8. ASSUME d = c, NEW k \in 1..NUL, RecvEcho(c, k)
      PROVE  IF d \in hungup' THEN bufferRecv'[d] \o s2c'[d] = FirstUnits(NUL)
             ELSE /\ Arrived(d)' \o c2s'[d] = FirstUnits(totalBytes'[d])
                  /\ bufferRecv'[d] \o s2c'[d] = Echoed(d)'
  <2>1. bufferRecv'[d] \o s2c'[d] = bufferRecv[d] \o s2c[d]
    BY <1>2, <1>8, EchoReceived
  <2>2. totalBytes'[d] = totalBytes[d] /\ c2s'[d] = c2s[d]
    BY <1>8 DEF RecvEcho
  <2> QED
    BY <1>6, <2>1, <2>2
<1>9. ASSUME d = c, NEW k \in 1..Capacity, SendPing(c, k)
      PROVE  IF d \in hungup' THEN bufferRecv'[d] \o s2c'[d] = FirstUnits(NUL)
             ELSE /\ Arrived(d)' \o c2s'[d] = FirstUnits(totalBytes'[d])
                  /\ bufferRecv'[d] \o s2c'[d] = Echoed(d)'
  <2> DEFINE n == totalBytes[d]
             a == Arrived(d)
             q == c2s[d]
             next == NextUnits(n, k)
  <2>1. /\ n \in 0..NUL /\ n \in Nat /\ k \in Nat /\ n + k <= NUL
        /\ a \in Seq(Units) /\ q \in Seq(Units)
    BY <1>1, <1>9, StreamTypes, Sizes DEF SendPing
  <2>2. /\ d \notin hungup /\ d \notin hungup'
        /\ bufferRecv'[d] = bufferRecv[d] /\ s2c'[d] = s2c[d]
    BY <1>2, <1>9 DEF SendPing, ServerGone
  <2>3. c2s'[d] = q \o next /\ totalBytes'[d] = n + k
    BY <1>1, <1>9 DEF SendPing, NextUnits, ClientTypes, NetworkTypes
  <2>4. next \in Seq(Units)
    BY <2>1, NextUnitsType
  <2>5. a \o q = FirstUnits(n)
    BY <1>5, <2>2
  <2>6. FirstUnits(n) \o next = FirstUnits(n + k)
    BY <2>1, UnitsJoin
  <2> HIDE DEF n, a, q, next
  <2>7. a \o (q \o next) = (a \o q) \o next
    <3>1. a \in Seq(Units) /\ q \in Seq(Units)
      BY <2>1
    <3> QED
      BY <2>4, <3>1, Associative
  <2>8. a \o (q \o next) = FirstUnits(n + k)
    BY <2>5, <2>6, <2>7
  <2>9. Arrived(d)' \o c2s'[d] = FirstUnits(totalBytes'[d])
    BY <1>3, <2>3, <2>8 DEF a
  <2> QED
    BY <1>3, <1>5, <2>2, <2>9
<1>10. ASSUME d = c, \/ ConnectFails(c) \/ ShortWrite(c) \/ Interrupt(c)
                     \/ SendFails(c) \/ RecvEnds(c) \/ CloseClient(c)
       PROVE  IF d \in hungup' THEN bufferRecv'[d] \o s2c'[d] = FirstUnits(NUL)
              ELSE /\ Arrived(d)' \o c2s'[d] = FirstUnits(totalBytes'[d])
                   /\ bufferRecv'[d] \o s2c'[d] = Echoed(d)'
  <2>1. UNCHANGED <<totalBytes, bufferRecv, c2s, s2c>>
    BY <1>10 DEF ConnectFails, ShortWrite, Interrupt, SendFails, RecvEnds, CloseClient
  <2> QED
    BY <1>6, <2>1
<1> QED
  BY <1>7, <1>8, <1>9, <1>10 DEF OwnStep

LEMMA OwnStepVerdict ==
  ASSUME EchoInv, NEW c \in Clients, OwnStep(c)
  PROVE  ReceiveOK' /\ GoneOK' /\ WrongOnlyAfterTrouble'
<1>1. /\ TypeInv /\ ReceiveOK /\ GoneOK /\ WrongOnlyAfterTrouble /\ EchoOf(c)
      /\ ClientTypes
  BY DEF EchoInv, TypeInv, TypeOK
<1>2. /\ UNCHANGED <<spc, hungup>> /\ nulLost \subseteq nulLost'
      /\ trouble => trouble'
      /\ \A d \in Clients \ {c} : cpc'[d] = cpc[d] /\ totalBytes'[d] = totalBytes[d]
  BY <1>1, OwnStepFrame DEF serverVars
<1>3. cpc'[c] = "recv" =>
        totalBytes'[c] = NUL \/ c \in nulLost' \/ c \in hungup \/ spc = "dead"
  <2>1. ASSUME NEW k \in 1..Capacity, SendPing(c, k), cpc'[c] = "recv"
        PROVE  totalBytes'[c] = NUL
    <3>1. /\ totalBytes'[c] \in 0..NUL /\ ~(totalBytes'[c] < NUL)
      BY <1>1, <2>1, TypeNext DEF SendPing, ClientTypes, Next, ClientStep, TypeInv, TypeOK
    <3> QED
      BY <3>1, Sizes
  <2>2. ASSUME cpc[c] = "recv", UNCHANGED totalBytes
        PROVE  totalBytes'[c] = NUL \/ c \in nulLost' \/ c \in hungup \/ spc = "dead"
    BY <1>1, <1>2, <2>2 DEF ReceiveOK
  <2> QED
    BY <1>1, <2>1, <2>2
    DEF OwnStep, ConnectFails, ShortWrite, Interrupt, SendFails, RecvEcho,
        RecvEnds, CloseClient, ServerGone, ClientTypes
<1>4. ReceiveOK'
  BY <1>1, <1>2, <1>3 DEF ReceiveOK
<1>5. cpc'[c] = "gone" => cpc[c] = "gone" \/ trouble'
  BY <1>1
  DEF OwnStep, ConnectFails, ShortWrite, Interrupt, SendPing, SendFails,
      RecvEcho, RecvEnds, CloseClient, ClientTypes
<1>6. GoneOK'
  BY <1>1, <1>2, <1>5 DEF GoneOK
<1>7. spc # "dead" => wrong' = wrong
  <2>1. ASSUME NEW k \in 1..NUL, RecvEcho(c, k), spc # "dead"
        PROVE  wrong' = wrong
    BY <2>1, EchoReceived DEF RecvEcho, Verdict
  <2>2. ASSUME RecvEnds(c), spc # "dead"
        PROVE  wrong' = wrong
    <3>1. c \in hungup /\ Talking(c) /\ s2c[c] = <<>>
      BY <2>2 DEF RecvEnds, ServerGone, Talking
    <3>2. bufferRecv[c] \o <<>> = FirstUnits(NUL)
      BY <1>1, <2>2, <3>1 DEF EchoOf
    <3>3. bufferRecv[c] = FirstUnits(NUL)
      BY <1>1, <3>2, StreamTypes, ConcatEmptySeq
    <3> QED
      BY <2>2, <3>3 DEF RecvEnds, Verdict
  <2> QED
    BY <2>1, <2>2
    DEF OwnStep, ConnectFails, ShortWrite, Interrupt, SendPing, SendFails, CloseClient
<1>8. WrongOnlyAfterTrouble'
  BY <1>1, <1>2, <1>7 DEF WrongOnlyAfterTrouble
<1> QED
  BY <1>4, <1>6, <1>8

\* A client that connects is the last in the queue and has a new connection.
LEMMA ConnectInv ==
  ASSUME EchoInv, NEW c \in Clients, Connect(c)
  PROVE  EchoInv'
<1>1. /\ TypeInv /\ QueueOK /\ ServiceOK /\ ReceiveOK /\ GoneOK
      /\ WrongOnlyAfterTrouble /\ ClientTypes /\ NetworkTypes /\ ServerTypes
  BY DEF EchoInv, TypeInv, TypeOK
<1>2. TypeInv'
  BY <1>1, TypeNext DEF Next, ClientStep
<1>3. /\ cpc[c] = "ready" /\ spc # "dead"
      /\ cpc' = [cpc EXCEPT ![c] = "send"]
      /\ hungup' = hungup \ {c} /\ backlog' = Append(backlog, c)
      /\ UNCHANGED <<spc, conn, readData, totalSent, nulLost, wrong, trouble>>
  BY DEF Connect
<1>4. ~Queued(c)
  BY <1>1, <1>3 DEF QueueOK
<1>5. /\ Len(backlog') = Len(backlog) + 1 /\ Len(backlog) \in Nat
      /\ \A i \in 1..Len(backlog) : backlog'[i] = backlog[i] /\ backlog[i] # c
      /\ backlog'[Len(backlog) + 1] = c
  <2>1. backlog \in Seq(Clients) /\ Len(backlog) \in Nat
    BY <1>1, LenProperties DEF ServerTypes
  <2> QED
    BY <1>3, <1>4, <2>1, AppendProperties DEF Queued
<1>6. Queued(c)' /\ \A d \in Clients \ {c} : Queued(d)' <=> Queued(d)
  BY <1>5 DEF Queued
<1>7. QueueOK'
  <2>1. \A i, j \in 1..Len(backlog') : backlog'[i] = backlog'[j] => i = j
    <3>1. \A i \in 1..Len(backlog') :
            i \in 1..Len(backlog) \/ i = Len(backlog) + 1
      BY <1>5
    <3> QED
      BY <1>1, <1>5, <3>1 DEF QueueOK
  <2>2. \A d \in Clients : Queued(d)' =>
          d \notin hungup' /\ cpc'[d] \in {"send", "recv", "gone"}
    BY <1>1, <1>3, <1>6 DEF QueueOK, ClientTypes
  <2> QED
    BY <2>1, <2>2 DEF QueueOK
<1>8. spc \in {"read", "write", "close"} => conn \in Clients
  BY <1>1 DEF ServerTypes
<1>9. spc \in {"read", "write"} => conn # c
  BY <1>1, <1>3 DEF ServiceOK
<1>10. spc \in {"read", "write", "close"} /\ conn # c =>
         /\ (Queued(conn)' <=> Queued(conn))
         /\ (conn \in hungup' <=> conn \in hungup) /\ cpc'[conn] = cpc[conn]
         /\ (Talking(conn)' <=> Talking(conn))
  <2>1. ASSUME NEW d \in Clients \ {c}
        PROVE  cpc'[d] = cpc[d]
    BY <1>1, <1>3 DEF ClientTypes
  <2> QED
    BY <1>3, <1>6, <1>8, <2>1 DEF Talking, Queued
<1>11. ServiceOK'
  <2>1. (spc = "read" => totalSent = 0 /\ (Talking(conn) => Len(readData) < NUL))'
    BY <1>1, <1>3, <1>9, <1>10 DEF ServiceOK
  <2>2. (spc \in {"write", "close"} /\ ~Queued(conn) /\ Talking(conn) =>
           readData = FirstUnits(NUL) /\ conn \notin hungup)'
    <3>1. CASE conn = c
      BY <1>3, <1>6, <3>1 DEF Queued
    <3>2. CASE conn # c
      BY <1>1, <1>3, <1>10, <3>2 DEF ServiceOK, FirstUnits
    <3> QED
      BY <3>1, <3>2
  <2>3. (spc \in {"read", "write"} =>
           /\ ~Queued(conn) /\ conn \notin hungup
           /\ cpc[conn] \in {"send", "recv", "gone"})'
    BY <1>1, <1>3, <1>9, <1>10 DEF ServiceOK
  <2> QED
    BY <1>1, <1>3, <2>1, <2>2, <2>3 DEF ServiceOK
<1>12. EchoOf(c)'
  <2>1. Arrived(c)' = <<>> /\ Echoed(c)' = <<>>
    BY <1>6 DEF Arrived, Echoed, Served
  <2>2. /\ bufferRecv'[c] = <<>> /\ s2c'[c] = <<>> /\ c2s'[c] = <<>>
        /\ totalBytes'[c] = 0
    BY <1>1 DEF Connect, ClientTypes, NetworkTypes
  <2>3. <<>> \o <<>> = <<>> /\ FirstUnits(0) = <<>>
    BY DEF FirstUnits
  <2>4. c \notin hungup'
    BY <1>3
  <2> QED
    BY <2>1, <2>2, <2>3, <2>4 DEF EchoOf, FirstUnits
<1>13. ASSUME NEW d \in Clients \ {c}
       PROVE  EchoOf(d)'
  <2>1. /\ cpc'[d] = cpc[d] /\ totalBytes'[d] = totalBytes[d]
        /\ bufferRecv'[d] = bufferRecv[d] /\ c2s'[d] = c2s[d] /\ s2c'[d] = s2c[d]
        /\ (d \in hungup' <=> d \in hungup) /\ spc' = spc
    BY <1>1 DEF Connect, ClientTypes, NetworkTypes
  <2>2. Queued(d)' <=> Queued(d)
    BY <1>6
  <2>3. Arrived(d)' = Arrived(d) /\ Echoed(d)' = Echoed(d)
    BY <1>3, <2>2 DEF Arrived, Echoed, Served
  <2>4. EchoOf(d)
    BY DEF EchoInv
  <2> QED
    BY <2>1, <2>3, <2>4 DEF EchoOf, Talking, FirstUnits
<1>14. ReceiveOK'
  <2>1. \A d \in Clients : cpc'[d] = "recv" =>
          /\ d # c /\ cpc[d] = "recv" /\ totalBytes'[d] = totalBytes[d]
          /\ (d \in hungup => d \in hungup')
    BY <1>1, <1>3 DEF Connect, ClientTypes
  <2> QED
    BY <1>1, <1>3, <2>1 DEF ReceiveOK
<1>15. GoneOK'
  BY <1>1, <1>3 DEF GoneOK, ClientTypes
<1>16. WrongOnlyAfterTrouble'
  BY <1>1, <1>3 DEF WrongOnlyAfterTrouble
<1> QED
  BY <1>2, <1>7, <1>11, <1>12, <1>13, <1>14, <1>15, <1>16 DEF EchoInv

LEMMA ClientInv ==
  ASSUME EchoInv, NEW c \in Clients,
         ClientStep(c) \/ ConnectFails(c) \/ ShortWrite(c) \/ Interrupt(c)
  PROVE  EchoInv'
<1>1. CASE Connect(c)
  BY <1>1, ConnectInv
<1>2. CASE OwnStep(c)
  <2>1. TypeInv'
    BY TypeNext DEF Next, EchoInv
  <2>2. \A d \in Clients : EchoOf(d)'
    BY <1>2, OwnStepEcho
  <2> QED
    BY <1>2, <2>1, <2>2, OwnStepQueue, OwnStepVerdict DEF EchoInv
<1> QED
  BY <1>1, <1>2 DEF ClientStep, OwnStep

-----------------------------------------------------------------------------
(***************************************************************************)
(* The steps of the server.                                                *)
(***************************************************************************)

LEMMA ServerFrame ==
  ASSUME EchoInv, ServerStep \/ AcceptFails
  PROVE  /\ TypeInv'
         /\ UNCHANGED <<cpc, left, totalBytes, bufferRecv, nulLost, wrong>>
         /\ ReceiveOK' /\ GoneOK' /\ WrongOnlyAfterTrouble'
<1>1. /\ TypeInv /\ ServiceOK /\ ReceiveOK /\ GoneOK /\ WrongOnlyAfterTrouble
      /\ ServerTypes
  BY DEF EchoInv, TypeInv, TypeOK
<1>2. TypeInv'
  BY <1>1, TypeNext DEF Next
<1>3. UNCHANGED <<cpc, left, totalBytes, bufferRecv, nulLost, wrong>>
  BY DEF ServerStep, WaitConnection, AcceptFails, ReadPing, ReadEndOfStream,
         WriteBack, BrokenPipe, CloseConnection, clientVars
<1>4. hungup \subseteq hungup' /\ spc # "dead" /\ (trouble => trouble')
  BY DEF ServerStep, WaitConnection, AcceptFails, ReadPing, ReadEndOfStream,
         WriteBack, BrokenPipe, CloseConnection, Die
<1>5. spc' = "dead" => trouble'
  <2>1. CASE BrokenPipe
    <3>1. conn \in Clients /\ cpc[conn] = "gone"
      BY <1>1, <2>1 DEF BrokenPipe, ClientGone, ServiceOK, ServerTypes, Ended
    <3> QED
      BY <1>1, <1>4, <3>1 DEF GoneOK
  <2>2. CASE ~BrokenPipe
    BY <2>2
    DEF ServerStep, WaitConnection, AcceptFails, ReadPing, ReadEndOfStream,
        WriteBack, CloseConnection
  <2> QED
    BY <2>1, <2>2
<1>6. ReceiveOK'
  BY <1>1, <1>3, <1>4 DEF ReceiveOK
<1>7. GoneOK'
  BY <1>1, <1>3, <1>4 DEF GoneOK
<1>8. WrongOnlyAfterTrouble'
  BY <1>1, <1>3, <1>4, <1>5 DEF WrongOnlyAfterTrouble
<1> QED
  BY <1>2, <1>3, <1>6, <1>7, <1>8

LEMMA WaitConnectionInv ==
  ASSUME EchoInv, WaitConnection
  PROVE  QueueOK' /\ ServiceOK' /\ \A d \in Clients : EchoOf(d)'
<1>1. /\ TypeInv /\ QueueOK /\ ServiceOK /\ ServerTypes
  BY DEF EchoInv, TypeInv, TypeOK
<1>2. /\ backlog \in Seq(Clients) /\ backlog # <<>> /\ backlog' = Tail(backlog)
      /\ Len(backlog) \in Nat
  BY <1>1, LenProperties DEF WaitConnection, ServerTypes
<1>3. PICK c \in Clients : c = Head(backlog)
  BY <1>2, HeadTailProperties
<1>4. /\ conn = NoClient /\ conn' = c /\ spc = "accept" /\ spc' = "read"
      /\ readData' = <<>> /\ totalSent' = 0
      /\ UNCHANGED <<hungup, cpc, totalBytes, bufferRecv, c2s, s2c>>
  BY <1>3, <1>1 DEF WaitConnection, ServiceOK, clientVars
<1>5. /\ Len(backlog) >= 1 /\ Len(backlog') = Len(backlog) - 1
      /\ c = backlog[1]
      /\ \A i \in 1..Len(backlog') : backlog'[i] = backlog[i + 1]
  BY <1>3, <1>2, HeadTailProperties, EmptySeq
<1>6. \A i, j \in 1..Len(backlog) : backlog[i] = backlog[j] => i = j
  BY <1>1 DEF QueueOK
<1>7. Queued(c)
  BY <1>2, <1>5 DEF Queued
<1>8. ASSUME NEW d \in Clients
      PROVE  Queued(d)' <=> Queued(d) /\ d # c
  <2>1. ASSUME NEW i \in 1..Len(backlog'), backlog'[i] = d
        PROVE  Queued(d) /\ d # c
    <3>1. i + 1 \in 1..Len(backlog) /\ 1 \in 1..Len(backlog) /\ i + 1 # 1
      BY <1>2, <1>5
    <3> QED
      BY <1>5, <1>6, <2>1, <3>1 DEF Queued
  <2>2. ASSUME NEW i \in 1..Len(backlog), backlog[i] = d, d # c
        PROVE  Queued(d)'
    <3>1. i # 1
      BY <1>5, <2>2
    <3>2. i - 1 \in 1..Len(backlog') /\ (i - 1) + 1 = i
      BY <1>2, <1>5, <3>1
    <3>3. backlog'[i - 1] = d
      BY <1>5, <2>2, <3>2
    <3> QED
      BY <3>2, <3>3 DEF Queued
  <2> QED
    BY <2>1, <2>2 DEF Queued
<1>9. QueueOK'
  <2>1. ASSUME NEW i \in 1..Len(backlog'), NEW j \in 1..Len(backlog'),
               backlog'[i] = backlog'[j]
        PROVE  i = j
    <3>1. i + 1 \in 1..Len(backlog) /\ j + 1 \in 1..Len(backlog)
      BY <1>2, <1>5
    <3>2. i + 1 = j + 1
      BY <1>5, <1>6, <2>1, <3>1
    <3> QED
      BY <3>2
  <2>2. \A d \in Clients : Queued(d)' =>
          d \notin hungup' /\ cpc'[d] \in {"send", "recv", "gone"}
    BY <1>1, <1>4, <1>8 DEF QueueOK
  <2> QED
    BY <2>1, <2>2 DEF QueueOK
<1>10. ServiceOK'
  <2>1. ~Queued(c)' /\ c \notin hungup' /\ cpc'[c] \in {"send", "recv", "gone"}
    BY <1>1, <1>4, <1>5, <1>7, <1>8 DEF QueueOK
  <2>2. ~Queued(conn)'
    BY <1>4, <2>1 DEF Queued
  <2>3. Len(readData') < NUL
    BY <1>4, Empty, Sizes
  <2> QED
    BY <1>4, <2>1, <2>2, <2>3 DEF ServiceOK
<1>11. ASSUME NEW d \in Clients
       PROVE  EchoOf(d)'
  <2>1. Arrived(d) = <<>> /\ Echoed(d) = <<>>
    BY <1>4, ClientsAssumption DEF Arrived, Echoed, Served
  <2>2. Arrived(d)' = <<>> /\ Echoed(d)' = <<>>
    <3>1. SubSeq(readData', 1, totalSent') = <<>>
      BY <1>4, SubSeqEmpty
    <3> QED
      BY <1>4, <3>1 DEF Arrived, Echoed
  <2>3. EchoOf(d)
    BY DEF EchoInv
  <2> QED
    BY <1>4, <2>1, <2>2, <2>3 DEF EchoOf, Talking, FirstUnits
<1> QED
  BY <1>9, <1>10, <1>11

\* The client in service, while the server reads and writes.
LEMMA InService ==
  ASSUME EchoInv, spc \in {"read", "write"}
  PROVE  /\ conn \in Clients /\ Served(conn) /\ ~Queued(conn)
         /\ conn \notin hungup /\ spc # "dead"
         /\ ClientGone(conn) <=> cpc[conn] = "gone"
         /\ cpc[conn] = "gone" <=> ~Talking(conn)
<1>1. ServiceOK /\ ServerTypes
  BY DEF EchoInv, TypeInv, TypeOK
<1>2. /\ conn \in Clients /\ ~Queued(conn) /\ conn \notin hungup
      /\ cpc[conn] \in {"send", "recv", "gone"}
  BY <1>1 DEF ServiceOK, ServerTypes
<1> QED
  BY <1>2 DEF Served, ClientGone, Talking, Ended

\* A step that changes neither who waits nor who is served.
LEMMA SameService ==
  ASSUME EchoInv, UNCHANGED <<conn, backlog, hungup, cpc>>,
         spc \in {"read", "write"}
  PROVE  /\ QueueOK'
         /\ \A d \in Clients : Served(d)' <=> Served(d)
         /\ Queued(conn)' <=> Queued(conn)
         /\ Talking(conn)' <=> Talking(conn)
         /\ \A d \in Clients \ {conn} : ~Served(d)
<1>1. QueueOK
  BY DEF EchoInv
<1>2. \A d \in Clients : Queued(d)' <=> Queued(d)
  BY DEF Queued
<1>3. QueueOK'
  BY <1>1, <1>2 DEF QueueOK
<1> QED
  BY <1>2, <1>3, InService DEF Served, Queued, Talking

LEMMA ReadPingInv ==
  ASSUME EchoInv, NEW k \in 1..Chunk, ReadPing(k)
  PROVE  QueueOK' /\ ServiceOK' /\ \A d \in Clients : EchoOf(d)'
<1>1. TypeInv /\ ServiceOK /\ NetworkTypes
  BY DEF EchoInv, TypeInv, TypeOK
<1>2. /\ spc = "read" /\ k <= Len(c2s[conn])
      /\ UNCHANGED <<conn, totalSent, backlog, hungup, cpc, totalBytes,
                     bufferRecv, s2c>>
      /\ spc' = IF c2s[conn][k] = NUL THEN "write" ELSE "read"
      /\ readData' = readData \o Front(c2s[conn], k)
      /\ c2s' = [c2s EXCEPT ![conn] = Rest(c2s[conn], k)]
  BY DEF ReadPing, clientVars, Front, Rest
<1>3. /\ conn \in Clients /\ Served(conn) /\ ~Queued(conn) /\ conn \notin hungup
      /\ spc # "dead" /\ totalSent = 0
  BY <1>1, <1>2, InService DEF ServiceOK
<1>4. /\ QueueOK' /\ (\A d \in Clients : Served(d)' <=> Served(d))
      /\ (Queued(conn)' <=> Queued(conn)) /\ (Talking(conn)' <=> Talking(conn))
      /\ \A d \in Clients \ {conn} : ~Served(d)
  BY <1>2, SameService
<1> DEFINE s == readData
           t == c2s[conn]
           n == totalBytes[conn]
           new == s \o Front(t, k)
           rest == Rest(t, k)
<1>5. /\ s \in Seq(Units) /\ t \in Seq(Units) /\ n \in 0..NUL
      /\ Len(s) \in Nat /\ Len(t) \in Nat
  BY <1>1, <1>3, StreamTypes, LenProperties
<1>6. k \in Nat /\ k \in 1..Len(t) /\ k >= 1 /\ k <= Len(t)
  BY <1>2, <1>5, Sizes
<1>7. new \in Seq(Units) /\ Len(new) = Len(s) + k
  <2>1. k \in Nat /\ k <= Len(t) /\ s \in Seq(Units) /\ t \in Seq(Units)
    BY <1>5, <1>6
  <2>2. /\ new \in Seq(Units) /\ Len(new) = Len(s) + Len(Front(t, k))
        /\ Len(Front(t, k)) = k
    BY <2>1, Moved
  <2> QED
    BY <2>2
<1>8. new \o rest = s \o t
  BY <1>5, <1>6, MovedJoin, Zenon
<1>9. Talking(conn) => s \o t = FirstUnits(n)
  BY <1>1, <1>3, ServedData DEF EchoInv
<1>10. ASSUME Talking(conn)
       PROVE  /\ t[k] = NUL => new = FirstUnits(NUL)
              /\ t[k] # NUL => Len(new) < NUL
  <2>1. /\ Len(s) + k <= n /\ t[k] = Len(s) + k /\ new = FirstUnits(Len(s) + k)
    BY <1>5, <1>6, <1>9, <1>10, Continued
  <2> QED
    BY <1>5, <1>6, <1>7, <2>1, Sizes
<1>11. readData' = new /\ c2s'[conn] = rest
  BY <1>1, <1>2, <1>3 DEF NetworkTypes
<1>12. 0 < Len(new)
  BY <1>5, <1>6, <1>7
<1> HIDE DEF new, rest
<1>13. ServiceOK'
  <2>1. cpc'[conn'] \in {"send", "recv", "gone"} /\ ~Queued(conn)' /\ conn' \notin hungup'
    BY <1>1, <1>2, <1>3, <1>4 DEF ServiceOK
  <2>2. (spc = "read" => totalSent = 0 /\ (Talking(conn) => Len(readData) < NUL))'
    BY <1>2, <1>3, <1>4, <1>10, <1>11
  <2>3. (spc \in {"write", "close"} /\ ~Queued(conn) /\ Talking(conn) =>
           readData = FirstUnits(NUL) /\ conn \notin hungup)'
    BY <1>2, <1>3, <1>4, <1>10, <1>11 DEF FirstUnits
  <2>4. spc' # "close" /\ spc' # "accept" /\ spc' # "dead"
    BY <1>2
  <2>5. totalSent' < Len(readData')
    BY <1>2, <1>3, <1>11, <1>12
  <2> QED
    BY <2>1, <2>2, <2>3, <2>4, <2>5 DEF ServiceOK
<1>14. ASSUME NEW d \in Clients
       PROVE  EchoOf(d)'
  <2>1. EchoOf(d)
    BY DEF EchoInv
  <2>2. Echoed(d) = <<>> /\ Echoed(d)' = <<>>
    <3>1. SubSeq(s, 1, 0) = <<>> /\ SubSeq(new, 1, 0) = <<>>
      BY SubSeqEmpty
    <3> QED
      BY <1>2, <1>3, <1>11, <3>1 DEF Echoed
  <2>3. Talking(d)' => Arrived(d)' \o c2s'[d] = Arrived(d) \o c2s[d]
    <3>1. CASE d = conn
      BY <1>3, <1>4, <1>8, <1>11, <3>1 DEF Arrived
    <3>2. CASE d # conn
      BY <1>1, <1>2, <1>4, <3>2 DEF Arrived, NetworkTypes
    <3> QED
      BY <3>1, <3>2
  <2> QED
    BY <1>2, <1>3, <2>1, <2>2, <2>3 DEF EchoOf, Talking, FirstUnits
<1> QED
  BY <1>4, <1>13, <1>14

LEMMA ReadEndInv ==
  ASSUME EchoInv, ReadEndOfStream
  PROVE  QueueOK' /\ ServiceOK' /\ \A d \in Clients : EchoOf(d)'
<1>1. ServiceOK /\ TypeInv
  BY DEF EchoInv
<1>2. /\ spc = "read" /\ ClientGone(conn)
      /\ spc' = IF readData = <<>> THEN "close" ELSE "write"
      /\ UNCHANGED <<conn, readData, totalSent, backlog, hungup, cpc, totalBytes,
                     bufferRecv, c2s, s2c>>
  BY DEF ReadEndOfStream, clientVars
<1>3. /\ conn \in Clients /\ ~Queued(conn) /\ conn \notin hungup /\ spc # "dead"
      /\ cpc[conn] = "gone" /\ ~Talking(conn) /\ totalSent = 0
  BY <1>1, <1>2, InService DEF ServiceOK
<1>4. /\ QueueOK' /\ (\A d \in Clients : Served(d)' <=> Served(d))
      /\ (Queued(conn)' <=> Queued(conn)) /\ (Talking(conn)' <=> Talking(conn))
  BY <1>2, SameService
<1>5. /\ readData = <<>> => totalSent = Len(readData)
      /\ readData # <<>> => totalSent < Len(readData)
  BY <1>1, <1>3, StreamTypes, EmptySeq
<1>6. ServiceOK'
  <2>1. ~Queued(conn)' /\ ~Talking(conn)'
    BY <1>3, <1>4
  <2> QED
    BY <1>2, <1>3, <1>5, <2>1 DEF ServiceOK
<1>7. ASSUME NEW d \in Clients
      PROVE  EchoOf(d)'
  <2>1. EchoOf(d)
    BY DEF EchoInv
  <2>2. Arrived(d)' = Arrived(d) /\ Echoed(d)' = Echoed(d)
    BY <1>2, <1>4 DEF Arrived, Echoed
  <2> QED
    BY <1>2, <1>3, <2>1, <2>2 DEF EchoOf, Talking, FirstUnits
<1> QED
  BY <1>4, <1>6, <1>7

LEMMA WriteBackInv ==
  ASSUME EchoInv, NEW k \in 1..Capacity, WriteBack(k)
  PROVE  QueueOK' /\ ServiceOK' /\ \A d \in Clients : EchoOf(d)'
<1>1. ServiceOK /\ TypeInv /\ NetworkTypes
  BY DEF EchoInv, TypeInv, TypeOK
<1> DEFINE part == SubSeq(readData, totalSent + 1, totalSent + k)
<1>2. /\ spc = "write" /\ k <= Len(readData) - totalSent
      /\ totalSent' = totalSent + k
      /\ spc' = IF totalSent' < Len(readData) THEN "write" ELSE "close"
      /\ IF ClientGone(conn) THEN s2c' = s2c
         ELSE s2c' = [s2c EXCEPT ![conn] = s2c[conn] \o part]
      /\ UNCHANGED <<conn, readData, backlog, hungup, cpc, totalBytes,
                     bufferRecv, c2s>>
  BY DEF WriteBack, clientVars
<1>3. /\ conn \in Clients /\ Served(conn) /\ ~Queued(conn) /\ conn \notin hungup
      /\ spc # "dead" /\ (ClientGone(conn) <=> ~Talking(conn))
  BY <1>2, InService
<1>4. /\ QueueOK' /\ (\A d \in Clients : Served(d)' <=> Served(d))
      /\ (Queued(conn)' <=> Queued(conn)) /\ (Talking(conn)' <=> Talking(conn))
      /\ \A d \in Clients \ {conn} : ~Served(d)
  BY <1>2, SameService
<1>5. /\ readData \in Seq(Units) /\ Len(readData) \in Nat /\ totalSent \in Nat
      /\ bufferRecv[conn] \in Seq(Units) /\ s2c[conn] \in Seq(Units)
      /\ k \in Nat /\ totalSent <= Len(readData)
  BY <1>1, <1>3, StreamTypes, Sizes
<1>6. totalSent + k <= Len(readData) /\ totalSent + k \in Nat
  BY <1>2, <1>5
<1>7. ServiceOK'
  <2>1. ~(totalSent' < Len(readData)) => totalSent' = Len(readData)
    BY <1>2, <1>5, <1>6
  <2>2. cpc'[conn'] \in {"send", "recv", "gone"} /\ ~Queued(conn)' /\ conn' \notin hungup'
    BY <1>1, <1>2, <1>3, <1>4 DEF ServiceOK
  <2>3. (Talking(conn) => readData = FirstUnits(NUL))'
    BY <1>1, <1>2, <1>3, <1>4 DEF ServiceOK, FirstUnits
  <2> QED
    BY <1>2, <2>1, <2>2, <2>3 DEF ServiceOK
<1>8. ASSUME Talking(conn)
      PROVE  bufferRecv'[conn] \o s2c'[conn] = Echoed(conn)'
  <2> DEFINE b == bufferRecv[conn]
             q == s2c[conn]
             sent == SubSeq(readData, 1, totalSent)
  <2>1. b \o q = sent
    BY <1>3, <1>8 DEF EchoInv, EchoOf, Echoed
  <2>2. s2c'[conn] = q \o part /\ bufferRecv'[conn] = b
    BY <1>1, <1>2, <1>3, <1>8 DEF NetworkTypes
  <2>3. sent \o part = SubSeq(readData, 1, totalSent + k)
    <3>1. /\ 1 \in 1..(Len(readData) + 1) /\ totalSent \in (1 - 1)..Len(readData)
          /\ totalSent + k \in totalSent..Len(readData)
      BY <1>5, <1>6
    <3> QED
      BY <1>5, <3>1, ConcatAdjacentSubSeq
  <2>4. part \in Seq(Units)
    <3>1. totalSent + 1 \in Nat /\ 1 <= totalSent + 1
      BY <1>5
    <3> QED
      BY <1>5, <1>6, <3>1, PartType
  <2> HIDE DEF b, q, sent, part
  <2>5. b \in Seq(Units) /\ q \in Seq(Units)
    BY <1>5 DEF b, q
  <2>6. b \o (q \o part) = (b \o q) \o part
    BY <2>4, <2>5, Associative, SMTT(30)
  <2>7. b \o (q \o part) = SubSeq(readData, 1, totalSent + k)
    BY <2>1, <2>3, <2>6
  <2>8. Echoed(conn)' = SubSeq(readData, 1, totalSent + k)
    BY <1>2, <1>3, <1>4 DEF Echoed
  <2> QED
    BY <2>2, <2>7, <2>8
<1> HIDE DEF part
<1>9. ASSUME NEW d \in Clients
      PROVE  EchoOf(d)'
  <2>1. EchoOf(d)
    BY DEF EchoInv
  <2>2. Arrived(d)' = Arrived(d)
    BY <1>2, <1>4 DEF Arrived
  <2>3. CASE d = conn
    <3>1. Talking(d) => bufferRecv'[d] \o s2c'[d] = Echoed(d)'
      BY <1>2, <1>8, <2>3 DEF Echoed, Served, Queued
    <3> QED
      BY <1>2, <1>3, <2>1, <2>2, <2>3, <3>1 DEF EchoOf, Talking, FirstUnits
  <2>4. CASE d # conn
    <3>1. s2c'[d] = s2c[d] /\ Echoed(d)' = <<>> /\ Echoed(d) = <<>>
      BY <1>1, <1>2, <1>4, <2>4 DEF Echoed, NetworkTypes
    <3> QED
      BY <1>2, <1>3, <2>1, <2>2, <3>1 DEF EchoOf, Talking, FirstUnits
  <2> QED
    BY <2>3, <2>4
<1> QED
  BY <1>4, <1>7, <1>9

LEMMA CloseConnectionInv ==
  ASSUME EchoInv, CloseConnection
  PROVE  QueueOK' /\ ServiceOK' /\ \A d \in Clients : EchoOf(d)'
<1>1. /\ ServiceOK /\ TypeInv /\ QueueOK /\ ServerTypes
  BY DEF EchoInv, TypeInv, TypeOK
<1>2. /\ spc = "close" /\ spc' = "accept" /\ conn' = NoClient
      /\ hungup' = IF Queued(conn) THEN hungup ELSE hungup \union {conn}
      /\ UNCHANGED <<readData, totalSent, backlog, cpc, totalBytes, bufferRecv,
                     c2s, s2c>>
  BY DEF CloseConnection, clientVars
<1>3. conn \in Clients
  BY <1>1, <1>2 DEF ServerTypes
<1>4. \A d \in Clients : (Queued(d)' <=> Queued(d)) /\ ~Served(d)'
  BY <1>2, ClientsAssumption DEF Queued, Served
<1>5. QueueOK'
  BY <1>1, <1>2, <1>4 DEF QueueOK
<1>6. ServiceOK'
  BY <1>2 DEF ServiceOK
<1>7. ASSUME NEW d \in Clients
      PROVE  EchoOf(d)'
  <2>1. EchoOf(d) /\ spc # "dead"
    BY <1>2 DEF EchoInv
  <2>2. Arrived(d)' = <<>> /\ Echoed(d)' = <<>>
    BY <1>4 DEF Arrived, Echoed
  <2>3. CASE d = conn /\ ~Queued(d)
    <3>1. ASSUME Talking(d)
          PROVE  bufferRecv[d] \o s2c[d] = FirstUnits(NUL)
      <4>1. /\ Served(d) /\ d \notin hungup
            /\ readData = FirstUnits(NUL) /\ totalSent = Len(readData)
        BY <1>1, <1>2, <2>3, <3>1 DEF ServiceOK, Served
      <4>2. bufferRecv[d] \o s2c[d] = FirstUnits(totalSent)
        BY <1>1, <2>1, <3>1, <4>1, ServedData
      <4>3. totalSent = NUL
        <5>1. NUL \in 0..NUL
          BY Sizes
        <5> QED
          BY <4>1, <5>1, FirstUnitsType
      <4> QED
        BY <4>2, <4>3
    <3>2. d \in hungup'
      BY <1>2, <2>3
    <3> QED
      BY <1>2, <3>1, <3>2 DEF EchoOf, Talking, FirstUnits
  <2>4. CASE d # conn \/ Queued(d)
    <3>1. (d \in hungup' <=> d \in hungup) /\ ~Served(d)
      BY <1>2, <1>3, <2>4 DEF Served
    <3>2. Arrived(d) = <<>> /\ Echoed(d) = <<>>
      BY <3>1 DEF Arrived, Echoed
    <3> QED
      BY <1>2, <2>1, <2>2, <3>1, <3>2 DEF EchoOf, Talking, FirstUnits
  <2> QED
    BY <2>3, <2>4
<1> QED
  BY <1>5, <1>6, <1>7

LEMMA DieInv ==
  ASSUME EchoInv, Die
  PROVE  QueueOK' /\ ServiceOK' /\ \A d \in Clients : EchoOf(d)'
<1>1. spc' = "dead" /\ backlog' = <<>> /\ conn' = NoClient
  BY DEF Die
<1>2. QueueOK'
  BY <1>1, Empty DEF QueueOK, Queued
<1>3. ServiceOK'
  BY <1>1 DEF ServiceOK
<1> QED
  BY <1>1, <1>2, <1>3 DEF EchoOf

LEMMA ServerInv ==
  ASSUME EchoInv, ServerStep \/ AcceptFails
  PROVE  EchoInv'
<1>1. BrokenPipe \/ AcceptFails => Die
  BY DEF BrokenPipe, AcceptFails
<1>2. QueueOK' /\ ServiceOK' /\ \A d \in Clients : EchoOf(d)'
  BY <1>1, WaitConnectionInv, ReadPingInv, ReadEndInv, WriteBackInv,
     CloseConnectionInv, DieInv DEF ServerStep
<1> QED
  BY <1>2, ServerFrame DEF EchoInv

-----------------------------------------------------------------------------
(***************************************************************************)
(* The theorems.                                                           *)
(***************************************************************************)

LEMMA EchoInit == Init => EchoInv
<1> SUFFICES ASSUME Init PROVE EchoInv
  OBVIOUS
<1>1. /\ conn = NoClient /\ backlog = <<>> /\ hungup = {} /\ nulLost = {}
      /\ wrong = {} /\ trouble = (spc = "dead") /\ spc \in {"accept", "dead"}
      /\ \A c \in Clients : cpc[c] \in {"ready", "done"}
  BY DEF Init
<1>2. \A c \in Clients : ~Queued(c)
  BY <1>1, Empty DEF Queued
<1>3. QueueOK
  BY <1>1, <1>2, Empty DEF QueueOK
<1>4. ServiceOK
  BY <1>1 DEF ServiceOK
<1>5. (\A c \in Clients : EchoOf(c)) /\ ReceiveOK /\ GoneOK
  BY <1>1 DEF EchoOf, Talking, ReceiveOK, GoneOK
<1>6. WrongOnlyAfterTrouble
  BY <1>1 DEF WrongOnlyAfterTrouble
<1> QED
  BY <1>3, <1>4, <1>5, <1>6, TypeInit DEF EchoInv

LEMMA EchoNext == EchoInv /\ [Next]_vars => EchoInv'
<1> SUFFICES ASSUME EchoInv, [Next]_vars PROVE EchoInv'
  OBVIOUS
<1>1. CASE UNCHANGED vars
  <2>1. TypeInv'
    BY TypeNext DEF EchoInv
  <2>2. \A c \in Clients : (Queued(c)' <=> Queued(c)) /\ (Talking(c)' <=> Talking(c))
    BY <1>1 DEF vars, Queued, Talking
  <2>3. (Queued(conn)' <=> Queued(conn)) /\ (Talking(conn)' <=> Talking(conn))
    BY <1>1 DEF vars, Queued, Talking
  <2>4. QueueOK'
    BY <1>1, <2>2 DEF vars, EchoInv, QueueOK
  <2>5. ServiceOK'
    BY <1>1, <2>3 DEF vars, EchoInv, ServiceOK, FirstUnits
  <2>6. \A c \in Clients : EchoOf(c)'
    BY <1>1, <2>2 DEF vars, EchoInv, EchoOf, Arrived, Echoed, Served, FirstUnits
  <2>7. ReceiveOK' /\ GoneOK' /\ WrongOnlyAfterTrouble'
    BY <1>1 DEF vars, EchoInv, ReceiveOK, GoneOK, WrongOnlyAfterTrouble
  <2> QED
    BY <2>1, <2>4, <2>5, <2>6, <2>7 DEF EchoInv
<1> QED
  BY <1>1, ServerInv, ClientInv DEF Next

LEMMA Reachable == Spec => []EchoInv
  BY EchoInit, EchoNext, PTL DEF Spec

\* Whatever portions are read and written, nothing is lost, repeated or
\* reordered between a client and the server, in either direction.
THEOREM EchoComesBack == Spec => []EchoIntact
<1>1. EchoInv => EchoIntact
  BY DEF EchoInv, EchoIntact, EchoOf, Arrived, Echoed, Talking
<1> QED
  BY <1>1, Reachable, PTL

\* A wrong ping takes a dead server, and only an interrupted client or a
\* failure of accept() kills the server.
THEOREM PingsHarmless == Spec => []WrongOnlyAfterTrouble
<1>1. EchoInv => WrongOnlyAfterTrouble
  BY DEF EchoInv
<1> QED
  BY <1>1, Reachable, PTL

\* The server and its client wait for each other only over a lost NUL.
THEOREM NoMutualWait == Spec => []StuckOnlyWithoutNUL
<1>1. ASSUME EchoInv, spc = "read", c2s[conn] = <<>>, cpc[conn] = "recv"
      PROVE  conn \in nulLost
  <2>1. /\ TypeInv /\ ServiceOK /\ ReceiveOK /\ Talking(conn)
    BY <1>1 DEF EchoInv, Talking
  <2>2. /\ conn \in Clients /\ Served(conn) /\ conn \notin hungup /\ spc # "dead"
    BY <1>1, InService
  <2>3. /\ readData \o <<>> = FirstUnits(totalBytes[conn])
        /\ readData \in Seq(Units) /\ totalBytes[conn] \in 0..NUL
    BY <1>1, <2>1, <2>2, ServedData, StreamTypes DEF EchoInv
  <2>4. readData = FirstUnits(totalBytes[conn])
    BY <2>3, ConcatEmptySeq
  <2>5. Len(readData) = totalBytes[conn]
    BY <2>3, <2>4, FirstUnitsType
  <2>6. totalBytes[conn] # NUL
    BY <1>1, <2>1, <2>5, Sizes DEF ServiceOK
  <2> QED
    BY <1>1, <2>1, <2>2, <2>6 DEF ReceiveOK
<1>2. EchoInv => StuckOnlyWithoutNUL
  BY <1>1 DEF StuckOnlyWithoutNUL
<1> QED
  BY <1>2, Reachable, PTL

=============================================================================
