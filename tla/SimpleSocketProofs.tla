------------------------- MODULE SimpleSocketProofs -------------------------
(***************************************************************************)
(* Proofs about SimpleSocket, for any clients, queue, buffers and lengths: *)
(* the types of its variables, and that the echo and the greeting arrive   *)
(* intact.                                                                 *)
(***************************************************************************)
EXTENDS SimpleSocket, SequenceTheorems, TLAPS

Text == Seq(Units)

LEMMA Sizes ==
  /\ Chunk \in Nat /\ Capacity \in Nat /\ Backlog \in Nat /\ MaxLines \in Nat
  /\ 2 <= Chunk /\ Chunk <= Capacity /\ 0 < Backlog /\ NoClient \notin Clients
  BY ClientsAssumption, BoundsAssumption

(***************************************************************************)
(* Sequences of units.                                                     *)
(***************************************************************************)

LEMMA Joined ==
  ASSUME NEW s \in Text, NEW t \in Text
  PROVE  s \o t \in Text /\ Len(s) \in Nat /\ Len(t) \in Nat
         /\ Len(s \o t) = Len(s) + Len(t)
  BY ConcatProperties, LenProperties DEF Text

LEMMA Associative ==
  ASSUME NEW s \in Text, NEW t \in Text, NEW u \in Text
  PROVE  (s \o t) \o u = s \o (t \o u)
  BY ConcatAssociative DEF Text

LEMMA NothingJoined ==
  ASSUME NEW s \in Text
  PROVE  <<>> \in Text /\ s \o <<>> = s /\ <<>> \o s = s /\ Len(<<>>) = 0
  BY ConcatEmptySeq, EmptySeq DEF Text

\* A part of a text.
LEMMA PartType ==
  ASSUME NEW s \in Text, NEW m \in Nat, NEW n \in Nat, 1 <= m, n <= Len(s)
  PROVE  /\ SubSeq(s, m, n) \in Text
         /\ Len(SubSeq(s, m, n)) = IF m <= n THEN n - m + 1 ELSE 0
         /\ \A i \in 1..(n - m + 1) : SubSeq(s, m, n)[i] = s[m + i - 1]
<1>1. Len(s) \in Nat
  BY LenProperties DEF Text
<1>2. \A i \in m..n : s[i] \in Units
  BY <1>1, ElementOfSeq DEF Text
<1> QED
  BY <1>2, SubSeqProperties DEF Text

\* A text is its first k units and the rest.
LEMMA Split ==
  ASSUME NEW s \in Text, NEW k \in Nat, k <= Len(s)
  PROVE  /\ FirstOf(s, k) \in Text /\ Len(FirstOf(s, k)) = k
         /\ RestOf(s, k) \in Text /\ Len(RestOf(s, k)) = Len(s) - k
         /\ FirstOf(s, k) \o RestOf(s, k) = s
<1>1. Len(s) \in Nat
  BY LenProperties DEF Text
<1>2. FirstOf(s, k) \in Text /\ Len(FirstOf(s, k)) = k
  BY <1>1, PartType DEF FirstOf
<1>3. RestOf(s, k) \in Text /\ Len(RestOf(s, k)) = Len(s) - k
  BY <1>1, PartType DEF RestOf
<1>4. FirstOf(s, k) \o RestOf(s, k) = s
  <2>1. 1 \in 1..(Len(s) + 1) /\ k \in (1 - 1)..Len(s) /\ Len(s) \in k..Len(s)
    BY <1>1
  <2>2. SubSeq(s, 1, k) \o SubSeq(s, k + 1, Len(s)) = SubSeq(s, 1, Len(s))
    BY <1>1, <2>1, ConcatAdjacentSubSeq DEF Text
  <2> QED
    BY <2>2, SubSeqFull DEF FirstOf, RestOf, Text
<1> QED
  BY <1>2, <1>3, <1>4

\* The first units of a text stay the first when more is joined to it.
LEMMA FirstOfJoined ==
  ASSUME NEW s \in Text, NEW t \in Text, NEW k \in Nat, k <= Len(s)
  PROVE  FirstOf(s \o t, k) = FirstOf(s, k) /\ FirstOf(s \o t, Len(s)) = s
<1>1. /\ s \o t \in Text /\ Len(s) \in Nat /\ Len(t) \in Nat
      /\ Len(s \o t) = Len(s) + Len(t)
  BY Joined
<1>2. \A i \in 1..Len(s) : (s \o t)[i] = s[i]
  BY <1>1, ConcatProperties DEF Text
<1>3. ASSUME NEW n \in Nat, n <= Len(s)
      PROVE  FirstOf(s \o t, n) = FirstOf(s, n)
  <2>1. n <= Len(s \o t)
    BY <1>1, <1>3
  <2>2. /\ FirstOf(s \o t, n) \in Text /\ Len(FirstOf(s \o t, n)) = n
        /\ FirstOf(s, n) \in Text /\ Len(FirstOf(s, n)) = n
    BY <1>1, <1>3, <2>1, Split
  <2>3. \A i \in 1..(n - 1 + 1) : FirstOf(s \o t, n)[i] = (s \o t)[1 + i - 1]
    BY <1>1, <1>3, <2>1, PartType DEF FirstOf
  <2>4. \A i \in 1..(n - 1 + 1) : FirstOf(s, n)[i] = s[1 + i - 1]
    BY <1>1, <1>3, PartType DEF FirstOf
  <2>5. \A i \in 1..n : FirstOf(s \o t, n)[i] = FirstOf(s, n)[i]
    <3>1. ASSUME NEW i \in 1..n PROVE FirstOf(s \o t, n)[i] = FirstOf(s, n)[i]
      <4>1. i \in 1..(n - 1 + 1) /\ 1 + i - 1 = i /\ i \in 1..Len(s)
        BY <1>1, <1>3
      <4> QED
        BY <1>2, <2>3, <2>4, <4>1
    <3> QED
      BY <3>1
  <2> QED
    BY <2>2, <2>5, SeqEqual DEF Text
<1>4. FirstOf(s, Len(s)) = s
  BY SubSeqFull DEF FirstOf, Text
<1> QED
  BY <1>1, <1>3, <1>4

\* What is joined to the same part to the same end is the same.
LEMMA CancelLeft ==
  ASSUME NEW S, NEW s \in Seq(S), NEW t \in Seq(S), NEW u \in Seq(S),
         s \o t = s \o u
  PROVE  t = u
  BY ConcatSimplifications, Zenon

\* The rest after the first part is the second part.
LEMMA RestOfJoined ==
  ASSUME NEW s \in Text, NEW t \in Text
  PROVE  RestOf(s \o t, Len(s)) = t
<1>1. /\ s \o t \in Text /\ Len(s) \in Nat /\ Len(t) \in Nat
      /\ Len(s \o t) = Len(s) + Len(t)
  BY Joined
<1>2. Len(s) <= Len(s \o t)
  BY <1>1
<1>3. /\ RestOf(s \o t, Len(s)) \in Text
      /\ FirstOf(s \o t, Len(s)) \o RestOf(s \o t, Len(s)) = s \o t
  BY <1>1, <1>2, Split
<1>4. FirstOf(s \o t, Len(s)) = s
  BY <1>1, FirstOfJoined
<1> QED
  BY <1>3, <1>4, CancelLeft DEF Text

LEMMA QuitType ==
  Quit \in Text /\ Len(Quit) = 2 /\ Greeting \in Text /\ Len(Greeting) = 2
  BY DEF Quit, Greeting, Text, Units

(***************************************************************************)
(* The types of the variables.                                             *)
(***************************************************************************)

\* The texts, and room for them in the buffers.
TextsOK ==
  /\ c2s \in [Clients -> Text] /\ s2c \in [Clients -> Text]
  /\ sent \in [Clients -> Text] /\ recv \in [Clients -> Text]
  /\ \A c \in Clients : Len(c2s[c]) <= Capacity /\ Len(s2c[c]) <= Capacity

\* The rest of TypeOK.
PlacesOK ==
  /\ program \in {"echo", "hello"} /\ spc \in SStates
  /\ conn \in Clients \union {NoClient}
  /\ (conn = NoClient) = (spc \in {"boot", "accept", "ended"})
  /\ mensaje \in Text /\ Len(mensaje) <= Chunk
  /\ spc = "write" => mensaje # <<>>
  /\ backlog \in Seq(Clients) /\ Len(backlog) <= Backlog
  /\ cstate \in [Clients -> CStates] /\ lines \in [Clients -> 0..MaxLines]
  /\ hungup \subseteq Clients /\ unheard \subseteq Clients
  /\ cut \subseteq Clients /\ left \subseteq Clients

LEMMA TypeParts == TypeOK <=> TextsOK /\ PlacesOK
  BY DEF TypeOK, TextsOK, PlacesOK, Text

\* Another text for one client.
LEMMA TextsWith ==
  ASSUME NEW f \in [Clients -> Text], NEW c \in Clients, NEW s \in Text
  PROVE  /\ [f EXCEPT ![c] = s] \in [Clients -> Text]
         /\ [f EXCEPT ![c] = s][c] = s
         /\ \A b \in Clients : b # c => [f EXCEPT ![c] = s][b] = f[b]
  OBVIOUS

LEMMA InitType == Init => TypeOK
<1> SUFFICES ASSUME Init PROVE TextsOK /\ PlacesOK
  BY TypeParts
<1>1. <<>> \in Text /\ Len(<<>>) = 0
  BY EmptySeq DEF Text
<1>2. TextsOK
  BY <1>1, Sizes DEF Init, TextsOK
<1>3. PlacesOK
  BY <1>1, Sizes, EmptySeq DEF Init, PlacesOK, SStates, CStates
<1> QED
  BY <1>2, <1>3

\* The client whose connection the server has.
LEMMA Connected ==
  ASSUME PlacesOK, spc \in {"read", "write", "greet", "close"}
  PROVE  conn \in Clients
  BY DEF PlacesOK

\* What Read takes.
LEMMA ReadTakes ==
  ASSUME TypeOK, NEW k \in 1..Chunk, Read(k)
  PROVE  /\ conn \in Clients /\ spc = "read" /\ spc' = "write"
         /\ mensaje' \in Text /\ Len(mensaje') = k /\ mensaje' # <<>>
         /\ c2s'[conn] \in Text /\ Len(c2s'[conn]) <= Len(c2s[conn])
         /\ mensaje' \o c2s'[conn] = c2s[conn]
         /\ c2s' = [c2s EXCEPT ![conn] = c2s'[conn]]
         /\ UNCHANGED <<program, conn, backlog, hungup, clientVars, s2c, cut>>
<1>1. conn \in Clients /\ spc = "read" /\ TextsOK
  BY TypeParts, Connected DEF Read
<1>2. c2s[conn] \in Text /\ Len(c2s[conn]) \in Nat /\ k \in Nat /\ k <= Len(c2s[conn])
  BY <1>1, LenProperties, Sizes DEF TextsOK, Text, Read
<1>3. /\ mensaje' = FirstOf(c2s[conn], k)
      /\ c2s' = [c2s EXCEPT ![conn] = RestOf(c2s[conn], k)]
  BY DEF Read
<1>4. c2s'[conn] = RestOf(c2s[conn], k)
  BY <1>1, <1>3 DEF TextsOK
<1>5. /\ mensaje' \in Text /\ Len(mensaje') = k
      /\ c2s'[conn] \in Text /\ Len(c2s'[conn]) = Len(c2s[conn]) - k
      /\ mensaje' \o c2s'[conn] = c2s[conn]
  BY <1>2, <1>3, <1>4, Split, Zenon
<1>6. k > 0 /\ Len(c2s'[conn]) <= Len(c2s[conn])
  BY <1>2, <1>5, Sizes
<1>7. mensaje' # <<>>
  BY <1>5, <1>6, NothingJoined
<1> QED
  BY <1>1, <1>3, <1>4, <1>5, <1>6, <1>7 DEF Read

LEMMA PlacesStep ==
  ASSUME TypeOK, Next
  PROVE  PlacesOK'
<1> USE TypeParts DEF PlacesOK, SStates, CStates, serverVars, clientVars
<1>1. <<>> \in Text /\ Len(<<>>) = 0 /\ 0 <= Chunk /\ 0 <= Backlog /\ <<>> \in Seq(Clients)
  BY EmptySeq, Sizes DEF Text
<1>2. CASE OpenServer
  BY <1>2 DEF OpenServer
<1>3. CASE Accept
  <2>1. /\ Head(backlog) \in Clients /\ Tail(backlog) \in Seq(Clients)
        /\ Len(backlog) \in Nat /\ Len(Tail(backlog)) = Len(backlog) - 1
    BY <1>3, HeadTailProperties, LenProperties DEF Accept
  <2>2. Len(Tail(backlog)) <= Backlog
    BY <2>1, Sizes
  <2> QED
    BY <1>3, <2>1, <2>2, Sizes DEF Accept
<1>4. CASE \E k \in 1..Chunk : Read(k)
  <2>1. PICK k \in 1..Chunk : Read(k)
    BY <1>4
  <2>2. /\ conn \in Clients /\ mensaje' \in Text /\ Len(mensaje') <= Chunk
        /\ mensaje' # <<>> /\ spc' = "write"
        /\ UNCHANGED <<program, conn, backlog, hungup, clientVars, cut>>
    BY <2>1, ReadTakes, Sizes
  <2>3. unheard' \subseteq Clients
    BY <2>1, <2>2 DEF Read
  <2> QED
    BY <2>2, <2>3, Sizes
<1>5. CASE WriteBack \/ \E k \in 1..Chunk : WriteShort(k)
  BY <1>5, Sizes DEF WriteBack, WriteShort, AfterWrite
<1>6. CASE BrokenPipe \/ ServerFails
  BY <1>1, <1>6 DEF BrokenPipe, ServerFails, EndServer
<1>7. CASE \E k \in 1..Len(Greeting) : Greet(k)
  BY <1>7, Sizes DEF Greet
<1>8. CASE CloseClient
  BY <1>1, <1>8, Sizes DEF CloseClient
<1>9. CASE \E c \in Clients : Connect(c)
  <2>1. PICK c \in Clients : Connect(c)
    BY <1>9
  <2>2. /\ Append(backlog, c) \in Seq(Clients) /\ Len(backlog) \in Nat
        /\ Len(Append(backlog, c)) = Len(backlog) + 1
    BY AppendProperties, LenProperties
  <2>3. Len(Append(backlog, c)) <= Backlog
    BY <2>1, <2>2, Sizes DEF Connect
  <2> QED
    BY <2>1, <2>2, <2>3 DEF Connect
<1>10. CASE \E c \in Clients : ConnectFails(c) \/ SeeEnd(c) \/ Bye(c) \/ Hear(c)
  BY <1>10 DEF ConnectFails, SeeEnd, Bye, Hear
<1>11. CASE \E c \in Clients : Leave(c) \/ SayQuit(c)
  BY <1>11 DEF Leave, SayQuit, SendText
<1>12. CASE \E c \in Clients : \E line \in Lines : Say(c, line)
  <2>1. PICK c \in Clients, line \in Lines : Say(c, line)
    BY <1>12
  <2>2. lines[c] + 1 \in 0..MaxLines
    BY <2>1, Sizes DEF Say
  <2> QED
    BY <2>1, <2>2 DEF Say, SendText
<1>13. CASE \E c \in Clients : \E k \in 1..Len(Greeting) : ReadGreeting(c, k)
  BY <1>13 DEF ReadGreeting
<1> QED
  BY <1>2, <1>3, <1>4, <1>5, <1>6, <1>7, <1>8, <1>9, <1>10, <1>11, <1>12, <1>13
  DEF Next, ServerStep, ClientStep

\* One buffer changes, and what it holds has room in it.
LEMMA TextsInRoom ==
  ASSUME NEW f \in [Clients -> Text], \A b \in Clients : Len(f[b]) <= Capacity,
         NEW c \in Clients, NEW s \in Text, Len(s) <= Capacity
  PROVE  /\ [f EXCEPT ![c] = s] \in [Clients -> Text]
         /\ \A b \in Clients : Len([f EXCEPT ![c] = s][b]) <= Capacity
<1>1. \A b \in Clients : [f EXCEPT ![c] = s][b] = s \/ [f EXCEPT ![c] = s][b] = f[b]
  BY TextsWith
<1> QED
  BY <1>1, TextsWith

\* What SendText sends, and what arrives of it.
LEMMA SentText ==
  ASSUME TextsOK, NEW c \in Clients, NEW line \in Text, SendText(c, line)
  PROVE  /\ sent[c] \o line \in Text /\ c2s[c] \o line \in Text
         /\ Len(c2s[c] \o line) <= Capacity
         /\ sent' = [sent EXCEPT ![c] = sent[c] \o line]
         /\ c2s' = IF ServerClosed(c) THEN c2s
                   ELSE [c2s EXCEPT ![c] = c2s[c] \o line]
         /\ \/ UNCHANGED <<s2c, cut>>
            \/ s2c' = [s2c EXCEPT ![c] = <<>>] /\ cut' = cut \union {c}
  BY Joined DEF SendText, TextsOK

\* One buffer is emptied.
LEMMA Emptied ==
  ASSUME NEW f \in [Clients -> Text], \A b \in Clients : Len(f[b]) <= Capacity,
         NEW c \in Clients
  PROVE  /\ [f EXCEPT ![c] = <<>>] \in [Clients -> Text]
         /\ \A b \in Clients : Len([f EXCEPT ![c] = <<>>][b]) <= Capacity
<1>1. <<>> \in Text /\ Len(<<>>) <= Capacity
  BY NothingJoined, EmptySeq, Sizes DEF Text
<1> QED
  BY <1>1, TextsInRoom

LEMMA LinesType == \A line \in Lines : line \in Text
<1>1. <<"text">> \in Text
  BY DEF Text, Units
<1> QED
  BY <1>1, QuitType DEF Lines

LEMMA TextsStep ==
  ASSUME TypeOK, Next
  PROVE  TextsOK'
<1>1. TextsOK /\ PlacesOK /\ <<>> \in Text /\ Len(<<>>) = 0 /\ 0 <= Capacity
  BY TypeParts, NothingJoined, EmptySeq, Sizes DEF Text
<1>2. CASE UNCHANGED <<c2s, s2c, sent, recv>>
  BY <1>1, <1>2 DEF TextsOK
<1>3. CASE \E k \in 1..Chunk : Read(k)
  <2>1. PICK k \in 1..Chunk : Read(k)
    BY <1>3
  <2>2. /\ conn \in Clients /\ c2s'[conn] \in Text /\ Len(c2s'[conn]) <= Len(c2s[conn])
        /\ c2s' = [c2s EXCEPT ![conn] = c2s'[conn]]
        /\ UNCHANGED <<s2c, sent, recv>>
    BY <2>1, ReadTakes DEF clientVars
  <2>3. Len(c2s'[conn]) <= Capacity
    BY <1>1, <2>2, LenProperties, Sizes DEF TextsOK, Text
  <2>4. c2s' \in [Clients -> Text] /\ \A b \in Clients : Len(c2s'[b]) <= Capacity
    BY <1>1, <2>2, <2>3, TextsInRoom DEF TextsOK
  <2> QED
    BY <1>1, <2>2, <2>4 DEF TextsOK
<1>4. CASE WriteBack \/ \E k \in 1..Chunk : WriteShort(k)
  <2>1. /\ conn \in Clients /\ s2c[conn] \in Text /\ mensaje \in Text
        /\ UNCHANGED <<c2s, sent, recv>>
    BY <1>1, <1>4, Connected DEF WriteBack, WriteShort, TextsOK, PlacesOK, clientVars
  <2>2. \/ s2c' = s2c
        \/ \E t \in Text : /\ Len(s2c[conn]) + Len(t) <= Capacity
                           /\ s2c' = [s2c EXCEPT ![conn] = s2c[conn] \o t]
    <3>1. CASE WriteBack
      BY <2>1, <3>1 DEF WriteBack
    <3>2. CASE \E k \in 1..Chunk : WriteShort(k)
      <4>1. PICK k \in 1..Chunk : WriteShort(k)
        BY <3>2
      <4>2. k \in Nat /\ k <= Len(mensaje)
        BY <2>1, <4>1, LenProperties, Sizes DEF WriteShort, Text
      <4>3. FirstOf(mensaje, k) \in Text /\ Len(FirstOf(mensaje, k)) = k
        BY <2>1, <4>2, Split
      <4> QED
        BY <4>1, <4>3 DEF WriteShort
    <3> QED
      BY <1>4, <3>1, <3>2
  <2>3. CASE s2c' = s2c
    BY <1>1, <2>1, <2>3 DEF TextsOK
  <2>4. ASSUME NEW t \in Text, Len(s2c[conn]) + Len(t) <= Capacity,
               s2c' = [s2c EXCEPT ![conn] = s2c[conn] \o t]
        PROVE  TextsOK'
    <3>1. s2c[conn] \o t \in Text /\ Len(s2c[conn] \o t) <= Capacity
      BY <2>1, <2>4, Joined
    <3>2. s2c' \in [Clients -> Text] /\ \A b \in Clients : Len(s2c'[b]) <= Capacity
      BY <1>1, <2>1, <2>4, <3>1, TextsInRoom DEF TextsOK
    <3> QED
      BY <1>1, <2>1, <3>2 DEF TextsOK
  <2> QED
    BY <2>2, <2>3, <2>4
<1>5. CASE \E k \in 1..Len(Greeting) : Greet(k)
  <2>1. PICK k \in 1..Len(Greeting) : Greet(k)
    BY <1>5
  <2>2. FirstOf(Greeting, k) \in Text /\ Len(FirstOf(Greeting, k)) <= Capacity
    <3>1. k \in Nat /\ k <= Len(Greeting) /\ k <= Capacity
      BY QuitType, Sizes
    <3> QED
      BY <3>1, QuitType, Split
  <2>3. conn \in Clients
    BY <1>1, <2>1, Connected DEF Greet
  <2>4. s2c' \in [Clients -> Text] /\ \A b \in Clients : Len(s2c'[b]) <= Capacity
    BY <1>1, <2>1, <2>2, <2>3, TextsInRoom DEF TextsOK, Greet
  <2> QED
    BY <1>1, <2>1, <2>4 DEF TextsOK, Greet, clientVars
<1>6. CASE CloseClient
  <2>1. conn \in Clients
    BY <1>1, <1>6, Connected DEF CloseClient
  <2>2. c2s' \in [Clients -> Text] /\ \A b \in Clients : Len(c2s'[b]) <= Capacity
    <3>1. c2s' = c2s \/ c2s' = [c2s EXCEPT ![conn] = <<>>]
      BY <1>6 DEF CloseClient
    <3> QED
      <4>1. c2s \in [Clients -> Text] /\ \A b \in Clients : Len(c2s[b]) <= Capacity
        BY <1>1 DEF TextsOK
      <4> QED
        BY <2>1, <3>1, <4>1, Emptied
  <2>3. s2c' \in [Clients -> Text] /\ \A b \in Clients : Len(s2c'[b]) <= Capacity
    <3>1. s2c' = s2c \/ s2c' = [s2c EXCEPT ![conn] = <<>>]
      BY <1>6 DEF CloseClient
    <3> QED
      <4>1. s2c \in [Clients -> Text] /\ \A b \in Clients : Len(s2c[b]) <= Capacity
        BY <1>1 DEF TextsOK
      <4> QED
        BY <2>1, <3>1, <4>1, Emptied
  <2> QED
    BY <1>1, <1>6, <2>2, <2>3 DEF TextsOK, CloseClient, clientVars
<1>7. CASE \E c \in Clients : SayQuit(c) \/ \E line \in Lines : Say(c, line)
  <2>1. PICK c \in Clients, line \in Text :
             SendText(c, line) /\ UNCHANGED recv
    BY <1>7, LinesType, QuitType DEF SayQuit, Say
  <2>2. sent' \in [Clients -> Text]
    <3>1. sent[c] \o line \in Text /\ sent' = [sent EXCEPT ![c] = sent[c] \o line]
      BY <1>1, <2>1, SentText
    <3> QED
      BY <1>1, <3>1, TextsWith DEF TextsOK
  <2>3. c2s' \in [Clients -> Text] /\ \A b \in Clients : Len(c2s'[b]) <= Capacity
    <3>1. /\ c2s[c] \o line \in Text /\ Len(c2s[c] \o line) <= Capacity
          /\ c2s' = IF ServerClosed(c) THEN c2s
                    ELSE [c2s EXCEPT ![c] = c2s[c] \o line]
      BY <1>1, <2>1, SentText
    <3>2. c2s \in [Clients -> Text] /\ \A b \in Clients : Len(c2s[b]) <= Capacity
      BY <1>1 DEF TextsOK
    <3>3. CASE c2s' = c2s
      BY <3>2, <3>3
    <3>4. CASE c2s' = [c2s EXCEPT ![c] = c2s[c] \o line]
      BY <3>1, <3>2, <3>4, TextsInRoom
    <3> QED
      BY <3>1, <3>3, <3>4
  <2>4. s2c' \in [Clients -> Text] /\ \A b \in Clients : Len(s2c'[b]) <= Capacity
    <3>1. s2c \in [Clients -> Text] /\ \A b \in Clients : Len(s2c[b]) <= Capacity
      BY <1>1 DEF TextsOK
    <3>2. s2c' = s2c \/ s2c' = [s2c EXCEPT ![c] = <<>>]
      BY <1>1, <2>1, SentText
    <3>3. CASE s2c' = [s2c EXCEPT ![c] = <<>>]
      BY <3>1, <3>3, Emptied
    <3> QED
      BY <3>1, <3>2, <3>3
  <2> QED
    BY <1>1, <2>1, <2>2, <2>3, <2>4 DEF TextsOK
<1>8. CASE \E c \in Clients : Hear(c) \/ Bye(c)
  <2>1. PICK c \in Clients : Hear(c) \/ Bye(c)
    BY <1>8
  <2>2. s2c' \in [Clients -> Text] /\ \A b \in Clients : Len(s2c'[b]) <= Capacity
    <3>1. s2c' = s2c \/ s2c' = [s2c EXCEPT ![c] = <<>>]
      BY <2>1 DEF Hear, Bye
    <3> QED
      <4>1. s2c \in [Clients -> Text] /\ \A b \in Clients : Len(s2c[b]) <= Capacity
        BY <1>1 DEF TextsOK
      <4> QED
        BY <2>1, <3>1, <4>1, Emptied
  <2>3. recv[c] \o s2c[c] \in Text
    BY <1>1, Joined DEF TextsOK
  <2>4. recv' \in [Clients -> Text]
    BY <1>1, <2>1, <2>3 DEF TextsOK, Hear, Bye
  <2> QED
    BY <1>1, <2>1, <2>2, <2>4 DEF TextsOK, Hear, Bye
<1>9. CASE \E c \in Clients : \E k \in 1..Len(Greeting) : ReadGreeting(c, k)
  <2>1. PICK c \in Clients, k \in 1..Len(Greeting) : ReadGreeting(c, k)
    BY <1>9
  <2>2. PICK n \in Nat : n <= Len(s2c[c]) /\ recv' = [recv EXCEPT ![c] = FirstOf(s2c[c], n)]
    <3>1. s2c[c] \in Text /\ Len(s2c[c]) \in Nat /\ 0 \in Nat /\ k \in Nat
      BY <1>1, LenProperties, QuitType DEF TextsOK, Text
    <3>2. /\ recv' = [recv EXCEPT ![c] = FirstOf(s2c[c], IF s2c[c] = <<>> THEN 0 ELSE k)]
          /\ s2c[c] # <<>> => k <= Len(s2c[c])
      BY <2>1 DEF ReadGreeting
    <3>3. 0 <= Len(s2c[c])
      BY <3>1
    <3> QED
      BY <3>1, <3>2, <3>3
  <2>3. FirstOf(s2c[c], n) \in Text
    BY <1>1, <2>2, Split DEF TextsOK
  <2> QED
    BY <1>1, <2>1, <2>2, <2>3 DEF TextsOK, ReadGreeting
<1>10. CASE \E c \in Clients : Leave(c)
  <2>1. PICK c \in Clients : Leave(c)
    BY <1>10
  <2>2. c2s' \in [Clients -> Text] /\ \A b \in Clients : Len(c2s'[b]) <= Capacity
    <3>1. c2s' = c2s \/ c2s' = [c2s EXCEPT ![c] = <<>>]
      BY <2>1 DEF Leave
    <3> QED
      <4>1. c2s \in [Clients -> Text] /\ \A b \in Clients : Len(c2s[b]) <= Capacity
        BY <1>1 DEF TextsOK
      <4> QED
        BY <2>1, <3>1, <4>1, Emptied
  <2>3. s2c' \in [Clients -> Text] /\ \A b \in Clients : Len(s2c'[b]) <= Capacity
    <3>1. s2c' = s2c \/ s2c' = [s2c EXCEPT ![c] = <<>>]
      BY <2>1 DEF Leave
    <3> QED
      <4>1. s2c \in [Clients -> Text] /\ \A b \in Clients : Len(s2c[b]) <= Capacity
        BY <1>1 DEF TextsOK
      <4> QED
        BY <2>1, <3>1, <4>1, Emptied
  <2> QED
    BY <1>1, <2>1, <2>2, <2>3 DEF TextsOK, Leave
<1>11. CASE OpenServer \/ Accept \/ BrokenPipe \/ ServerFails
             \/ \E c \in Clients : Connect(c) \/ ConnectFails(c) \/ SeeEnd(c)
  BY <1>2, <1>11 DEF OpenServer, Accept, BrokenPipe, ServerFails, EndServer, Connect,
                     ConnectFails, SeeEnd, clientVars
<1> QED
  BY <1>3, <1>4, <1>5, <1>6, <1>7, <1>8, <1>9, <1>10, <1>11
  DEF Next, ServerStep, ClientStep

LEMMA TypeStep == TypeOK /\ [Next]_vars => TypeOK'
<1>1. ASSUME TypeOK, Next PROVE TypeOK'
  BY <1>1, PlacesStep, TextsStep DEF TypeOK, TextsOK, PlacesOK, Text
<1>2. ASSUME TypeOK, UNCHANGED vars PROVE TypeOK'
  BY <1>2 DEF TypeOK, vars
<1> QED
  BY <1>1, <1>2

\* Every variable keeps its type; in particular the queue of listen() and the
\* buffers of the sockets are never overrun, and the server has a connection
\* exactly where its loop uses one (echo_server.c:79-108).
THEOREM TypeCorrect == Spec => []TypeOK
  BY InitType, TypeStep, PTL DEF Spec

(***************************************************************************)
(* The text.  A connection waits in the queue once, is served, and is then *)
(* hung up.  While it is open, what was echoed, what was read and not yet  *)
(* echoed, and what is on its way are together what was sent; once the     *)
(* loop of the server has ended the echo ends in the QUIT.                 *)
(***************************************************************************)

Queued == {backlog[i] : i \in 1..Len(backlog)}

\* Each program has its own places in the loop and its own clients.
ProgramOK ==
  /\ program = "echo" => /\ spc # "greet"
                         /\ \A c \in Clients : cstate[c] \notin {"read", "bye"}
  /\ program = "hello" => /\ spc \notin {"read", "write"}
                          /\ \A c \in Clients : cstate[c] \notin {"talk", "quit"}

QueueOK ==
  /\ \A i, j \in 1..Len(backlog) : backlog[i] = backlog[j] => i = j
  /\ \A c \in Clients :
       c \in Queued \/ c = conn \/ c \in hungup => cstate[c] # "away"
  /\ conn \notin Queued /\ conn \notin hungup
  /\ \A c \in Queued : c \notin hungup

Echoed(c) == recv[c] \o s2c[c]
InHand(c) == IF conn = c /\ spc = "write" THEN mensaje ELSE <<>>
EndsInQuit(s) == Len(s) >= 2 /\ RestOf(s, Len(s) - 2) = Quit

\* The echo of somebody who listens.
Echoes(c) ==
  program = "echo" /\ ~Gone(c) /\ c \notin cut /\ spc # "ended" =>
    IF c \in hungup
    THEN \E n \in 2..Len(sent[c]) :
           Echoed(c) = FirstOf(sent[c], n) /\ RestOf(Echoed(c), n - 2) = Quit
    ELSE /\ (Echoed(c) \o InHand(c)) \o c2s[c] = sent[c]
         /\ conn = c /\ spc = "close" => EndsInQuit(Echoed(c))

\* A greeting on its way, or read.
Greets(c) ==
  program = "hello" /\ c \notin cut /\ spc # "ended" =>
    /\ cstate[c] = "away" => s2c[c] = <<>>
    /\ cstate[c] = "read" => s2c[c] \in {<<>>, Greeting}
    /\ cstate[c] = "read" /\ (c \in hungup \/ (conn = c /\ spc = "close")) =>
         s2c[c] = Greeting
    /\ cstate[c] = "bye" => recv[c] = Greeting

TextInv ==
  ProgramOK /\ QueueOK /\ (\A c \in Clients : Echoes(c) /\ Greets(c))

Known == TypeOK /\ TextInv

LEMMA KnownFacts ==
  ASSUME Known
  PROVE  /\ TypeOK /\ TextsOK /\ PlacesOK /\ ProgramOK /\ QueueOK
         /\ \A c \in Clients : Echoes(c) /\ Greets(c)
         /\ hungup \subseteq Clients /\ NoClient \notin hungup
         /\ Queued \subseteq Clients /\ NoClient \notin Queued
<1>1. backlog \in Seq(Clients) /\ hungup \subseteq Clients
  BY TypeParts DEF Known, PlacesOK
<1>2. \A i \in 1..Len(backlog) : backlog[i] \in Clients
  BY <1>1, ElementOfSeq
<1> QED
  BY <1>1, <1>2, TypeParts, Sizes DEF Known, TextInv, Queued

\* Each client that connects is one of the program that runs.
LEMMA ProgramStep ==
  ASSUME Known, Next
  PROVE  ProgramOK' /\ program' = program
<1>1. ProgramOK /\ cstate \in [Clients -> CStates] /\ program \in {"echo", "hello"}
  BY KnownFacts DEF PlacesOK
<1>2. CASE ServerStep \/ ServerFails
  <2>1. /\ program' = program /\ cstate' = cstate
        /\ program = "echo" => spc' # "greet"
        /\ program = "hello" => spc' \notin {"read", "write"}
    <3>1. CASE OpenServer \/ Accept
      BY <1>1, <3>1 DEF OpenServer, Accept, clientVars
    <3>2. CASE \E k \in 1..Chunk : Read(k)
      BY <1>1, <3>2 DEF Read, clientVars, ProgramOK
    <3>3. CASE WriteBack \/ \E k \in 1..Chunk : WriteShort(k)
      BY <1>1, <3>3 DEF WriteBack, WriteShort, AfterWrite, clientVars, ProgramOK
    <3>4. CASE \/ BrokenPipe \/ ServerFails \/ CloseClient
               \/ (\E k \in 1..Len(Greeting) : Greet(k))
      BY <1>1, <3>4 DEF BrokenPipe, ServerFails, EndServer, Greet, CloseClient,
                        clientVars
    <3> QED
      BY <1>2, <3>1, <3>2, <3>3, <3>4 DEF ServerStep
  <2> QED
    BY <1>1, <2>1 DEF ProgramOK
<1>3. CASE \E c \in Clients : Connect(c)
  BY <1>1, <1>3 DEF ProgramOK, Connect
<1>4. CASE \E c \in Clients : \/ ConnectFails(c) \/ ClientStep(c)
                              \/ \E line \in Lines : Say(c, line)
                              \/ Leave(c)
  BY <1>1, <1>4 DEF ProgramOK, ConnectFails, ClientStep, SayQuit, Hear, SeeEnd,
     ReadGreeting, Bye, Say, Leave, serverVars
<1> QED
  BY <1>2, <1>3, <1>4 DEF Next

\* The first of a queue without repetitions is not in its tail.
LEMMA TailFacts ==
  ASSUME NEW q \in Seq(Clients), q # <<>>,
         \A i, j \in 1..Len(q) : q[i] = q[j] => i = j
  PROVE  LET members(s) == {s[i] : i \in 1..Len(s)} IN
         /\ Head(q) \in members(q)
         /\ members(Tail(q)) \subseteq members(q) \ {Head(q)}
         /\ \A i, j \in 1..Len(Tail(q)) : Tail(q)[i] = Tail(q)[j] => i = j
<1> DEFINE t == Tail(q)
           n == Len(q)
<1>1. /\ n \in Nat \ {0} /\ Len(t) = n - 1
      /\ \A i \in 1..Len(t) : t[i] = q[i + 1]
  BY HeadTailProperties, EmptySeq
<1>2. Head(q) = q[1]
  BY HeadTailProperties, <1>1
<1> HIDE DEF t
<1>3. /\ 1 \in 1..n
      /\ \A i \in 1..Len(t) : i + 1 \in 1..n /\ i + 1 # 1
      /\ \A i, j \in 1..Len(t) : i + 1 = j + 1 => i = j
  BY <1>1
<1> HIDE DEF n
<1>4. \A i \in 1..Len(t) : t[i] # q[1] /\ t[i] \in {q[j] : j \in 1..n}
  BY <1>1, <1>3 DEF n
<1>5. \A i, j \in 1..Len(t) : t[i] = t[j] => i = j
  BY <1>1, <1>3 DEF n
<1> QED
  BY <1>2, <1>3, <1>4, <1>5 DEF t, n

\* A queue grows by somebody who was not in it.
LEMMA AppendFacts ==
  ASSUME NEW q \in Seq(Clients), NEW c \in Clients,
         \A i, j \in 1..Len(q) : q[i] = q[j] => i = j,
         c \notin {q[i] : i \in 1..Len(q)}
  PROVE  LET members(s) == {s[i] : i \in 1..Len(s)} IN
         /\ members(Append(q, c)) \subseteq members(q) \union {c}
         /\ \A i, j \in 1..Len(Append(q, c)) :
              Append(q, c)[i] = Append(q, c)[j] => i = j
<1> DEFINE p == Append(q, c)
           n == Len(q)
<1>1. /\ n \in Nat /\ Len(p) = n + 1 /\ p[n + 1] = c
      /\ \A i \in 1..n : p[i] = q[i]
  BY AppendProperties, LenProperties
<1> HIDE DEF p
<1>2. \A i \in 1..Len(p) : i \in 1..n \/ i = n + 1
  BY <1>1
<1> HIDE DEF n
<1>3. \A i \in 1..Len(p) : p[i] = c \/ p[i] \in {q[j] : j \in 1..n}
  BY <1>1, <1>2
<1>4. \A i, j \in 1..Len(p) : p[i] = p[j] => i = j
  BY <1>1, <1>2 DEF n
<1> QED
  BY <1>3, <1>4 DEF p, n

LEMMA QueueStep ==
  ASSUME Known, Next
  PROVE  QueueOK'
<1>1. /\ QueueOK /\ cstate \in [Clients -> CStates] /\ backlog \in Seq(Clients)
      /\ hungup \subseteq Clients /\ NoClient \notin hungup
      /\ Queued \subseteq Clients /\ NoClient \notin Queued /\ NoClient \notin Clients
  BY KnownFacts, Sizes DEF PlacesOK
<1>2. CASE /\ UNCHANGED <<backlog, conn, hungup>>
           /\ \A c \in Clients : cstate[c] # "away" => cstate'[c] # "away"
  BY <1>1, <1>2 DEF QueueOK, Queued
<1>3. CASE Accept
  <2>1. /\ backlog # <<>> /\ conn' = Head(backlog) /\ backlog' = Tail(backlog)
        /\ UNCHANGED <<hungup, cstate>>
    BY <1>3 DEF Accept, clientVars
  <2>2. /\ Head(backlog) \in Queued /\ Queued' \subseteq Queued \ {Head(backlog)}
        /\ \A i, j \in 1..Len(backlog') : backlog'[i] = backlog'[j] => i = j
    BY <1>1, <2>1, TailFacts DEF QueueOK, Queued
  <2> QED
    BY <1>1, <2>1, <2>2 DEF QueueOK
<1>4. CASE CloseClient
  <2>1. conn \in Clients
    BY <1>4, KnownFacts, Connected DEF CloseClient
  <2>2. /\ hungup' = hungup \union {conn} /\ conn' = NoClient
        /\ UNCHANGED <<backlog, cstate>>
    BY <1>4 DEF CloseClient, clientVars
  <2>3. Queued' = Queued
    BY <2>2 DEF Queued
  <2> QED
    BY <1>1, <2>1, <2>2, <2>3 DEF QueueOK
<1>5. CASE BrokenPipe \/ ServerFails
  <2>1. /\ conn' = NoClient /\ backlog' = <<>> /\ UNCHANGED <<hungup, cstate>>
    BY <1>5 DEF BrokenPipe, ServerFails, EndServer, clientVars
  <2>2. Queued' = {} /\ Len(backlog') = 0 /\ 1..0 = {}
    BY <2>1, EmptySeq DEF Queued
  <2> QED
    BY <1>1, <2>1, <2>2 DEF QueueOK
<1>6. CASE \E c \in Clients : Connect(c)
  <2>1. PICK c \in Clients : Connect(c)
    BY <1>6
  <2>2. /\ cstate[c] = "away" /\ backlog' = Append(backlog, c)
        /\ UNCHANGED <<conn, hungup>>
        /\ \A b \in Clients : b = c \/ cstate[b] # "away" => cstate'[b] # "away"
    BY <1>1, <2>1 DEF Connect
  <2>3. c \notin Queued /\ c # conn /\ c \notin hungup
    BY <1>1, <2>2 DEF QueueOK
  <2>4. /\ Queued' \subseteq Queued \union {c}
        /\ \A i, j \in 1..Len(backlog') : backlog'[i] = backlog'[j] => i = j
    BY <1>1, <2>2, <2>3, AppendFacts DEF QueueOK, Queued
  <2> QED
    BY <1>1, <2>2, <2>3, <2>4 DEF QueueOK
<1>7. CASE \/ OpenServer \/ WriteBack
           \/ (\E k \in 1..Chunk : Read(k)) \/ (\E k \in 1..Chunk : WriteShort(k))
           \/ (\E k \in 1..Len(Greeting) : Greet(k))
  BY <1>2, <1>7 DEF OpenServer, WriteBack, Read, WriteShort, Greet, clientVars
<1>8. CASE \E c \in Clients : \/ ConnectFails(c) \/ ClientStep(c)
                              \/ \E line \in Lines : Say(c, line)
                              \/ Leave(c)
  <2>1. /\ UNCHANGED <<backlog, conn, hungup>>
        /\ \A c \in Clients : cstate[c] # "away" => cstate'[c] # "away"
    BY <1>1, <1>8 DEF ConnectFails, ClientStep, SayQuit, Hear, SeeEnd, ReadGreeting,
                      Bye, Say, Leave, serverVars
  <2> QED
    BY <1>2, <2>1
<1> QED
  BY <1>3, <1>4, <1>5, <1>6, <1>7, <1>8 DEF Next, ServerStep

LEMMA TextsOf ==
  ASSUME Known, NEW c \in Clients
  PROVE  /\ recv[c] \in Text /\ s2c[c] \in Text /\ c2s[c] \in Text /\ sent[c] \in Text
         /\ mensaje \in Text /\ InHand(c) \in Text /\ Echoed(c) \in Text
         /\ Len(sent[c]) \in Nat
<1>1. /\ recv[c] \in Text /\ s2c[c] \in Text /\ c2s[c] \in Text /\ sent[c] \in Text
      /\ mensaje \in Text
  BY KnownFacts DEF TextsOK, PlacesOK
<1>2. Echoed(c) \in Text /\ Len(sent[c]) \in Nat
  BY <1>1, Joined DEF Echoed
<1> QED
  BY <1>1, <1>2, NothingJoined DEF InHand

\* The connection of a client whose echo is neither touched nor ended.
LEMMA EchoFrame ==
  ASSUME Known, NEW c \in Clients,
         recv'[c] = recv[c], s2c'[c] = s2c[c], c2s'[c] = c2s[c], sent'[c] = sent[c],
         program' = program, cut \subseteq cut', cstate[c] = "gone" => cstate'[c] = "gone",
         spc = "ended" => spc' = "ended", c \in hungup' <=> c \in hungup,
         InHand(c)' = InHand(c),
         conn' = c /\ spc' = "close" => conn = c /\ spc = "close"
  PROVE  Echoes(c)'
<1>1. Echoes(c)
  BY KnownFacts
<1>2. Echoed(c)' = Echoed(c)
  BY DEF Echoed
<1> QED
  BY <1>1, <1>2 DEF Echoes, Gone

\* read() takes the text of its client in order.
LEMMA EchoRead ==
  ASSUME Known, NEW c \in Clients, NEW k \in 1..Chunk, Read(k)
  PROVE  Echoes(c)'
<1>1. /\ conn \in Clients /\ spc = "read" /\ spc' = "write" /\ conn' = conn
      /\ mensaje' \in Text /\ c2s'[conn] \in Text
      /\ mensaje' \o c2s'[conn] = c2s[conn]
      /\ c2s' = [c2s EXCEPT ![conn] = c2s'[conn]]
      /\ UNCHANGED <<program, hungup, cstate, sent, recv, s2c, cut>>
  BY ReadTakes, KnownFacts DEF clientVars
<1>2. CASE c # conn
  <2>1. c2s'[c] = c2s[c] /\ InHand(c)' = InHand(c)
    BY <1>1, <1>2, KnownFacts DEF InHand, TextsOK
  <2> QED
    BY <1>1, <2>1, EchoFrame
<1>3. CASE c = conn
  <2>1. /\ Echoes(c) /\ c \notin hungup /\ Echoed(c) \in Text
    BY <1>1, <1>3, KnownFacts, TextsOf DEF QueueOK
  <2>2. /\ InHand(c) = <<>> /\ InHand(c)' = mensaje' /\ Echoed(c)' = Echoed(c)
    BY <1>1, <1>3 DEF InHand, Echoed
  <2>3. (Echoed(c) \o <<>>) \o c2s[c] = (Echoed(c) \o mensaje') \o c2s'[c]
    <3>1. Echoed(c) \o <<>> = Echoed(c)
      BY <2>1, NothingJoined
    <3>2. (Echoed(c) \o mensaje') \o c2s'[c] = Echoed(c) \o (mensaje' \o c2s'[c])
      BY <1>1, <1>3, <2>1, Associative
    <3> QED
      BY <1>1, <1>3, <3>1, <3>2
  <2> QED
    BY <1>1, <1>3, <2>1, <2>2, <2>3 DEF Echoes, Gone
<1> QED
  BY <1>2, <1>3

\* write() sends all that was read, and ends the loop only after a QUIT.
LEMMA EchoWriteBack ==
  ASSUME Known, NEW c \in Clients, WriteBack
  PROVE  Echoes(c)'
<1>1. /\ conn \in Clients /\ spc = "write" /\ conn' = conn
      /\ spc' = IF mensaje = Quit THEN "close" ELSE "read"
      /\ UNCHANGED <<program, hungup, cstate, sent, recv, c2s, cut>>
  BY KnownFacts, Connected DEF WriteBack, AfterWrite, IsQuit, clientVars
<1>2. CASE c # conn
  <2>1. s2c'[c] = s2c[c] /\ InHand(c)' = InHand(c)
    BY <1>1, <1>2, KnownFacts DEF InHand, TextsOK, WriteBack
  <2> QED
    BY <1>1, <1>2, <2>1, EchoFrame
<1>3. CASE c = conn /\ ~Gone(c)
  <2>1. /\ Echoes(c) /\ c \notin hungup /\ Echoed(c) \in Text /\ mensaje \in Text
        /\ recv[c] \in Text /\ s2c[c] \in Text
    BY <1>1, <1>3, KnownFacts, TextsOf DEF QueueOK
  <2>2. s2c'[c] = s2c[c] \o mensaje
    BY <1>1, <1>3, KnownFacts DEF WriteBack, TextsOK
  <2>3. Echoed(c)' = Echoed(c) \o mensaje
    <3>1. (recv[c] \o s2c[c]) \o mensaje = recv[c] \o (s2c[c] \o mensaje)
      BY <2>1, Associative
    <3> QED
      BY <1>1, <2>2, <3>1 DEF Echoed
  <2>4. InHand(c) = mensaje /\ InHand(c)' = <<>>
    BY <1>1, <1>3 DEF InHand
  <2>5. Echoed(c) \o mensaje \in Text
    BY <2>1, Joined
  <2>6. (Echoed(c)' \o InHand(c)') \o c2s'[c] = (Echoed(c) \o InHand(c)) \o c2s[c]
    BY <1>1, <2>3, <2>4, <2>5, NothingJoined
  <2>7. mensaje = Quit => EndsInQuit(Echoed(c)')
    <3>1. ASSUME mensaje = Quit PROVE EndsInQuit(Echoed(c) \o Quit)
      <4>1. /\ Len(Echoed(c)) \in Nat /\ Len(Quit) = 2
            /\ Len(Echoed(c) \o Quit) = Len(Echoed(c)) + Len(Quit)
        BY <2>1, QuitType, Joined
      <4>2. Len(Echoed(c) \o Quit) - 2 = Len(Echoed(c)) /\ Len(Echoed(c) \o Quit) >= 2
        BY <4>1
      <4> QED
        BY <2>1, <4>2, QuitType, RestOfJoined DEF EndsInQuit
    <3> QED
      BY <2>3, <3>1
  <2> QED
    BY <1>1, <2>1, <2>6, <2>7 DEF Echoes, Gone
<1>4. CASE Gone(c)
  BY <1>1, <1>4 DEF Echoes, Gone
<1> QED
  BY <1>2, <1>3, <1>4

\* close() comes after the echo of a QUIT; what it loses is counted as cut.
LEMMA EchoClose ==
  ASSUME Known, NEW c \in Clients, CloseClient
  PROVE  Echoes(c)'
<1>1. /\ conn \in Clients /\ spc = "close" /\ spc' = "accept" /\ conn' = NoClient
      /\ hungup' = hungup \union {conn} /\ cut \subseteq cut'
      /\ c2s' = [c2s EXCEPT ![conn] = <<>>]
      /\ \/ UNCHANGED <<s2c, cut>>
         \/ s2c' = [s2c EXCEPT ![conn] = <<>>] /\ conn \in cut'
      /\ UNCHANGED <<program, cstate, sent, recv>>
  BY KnownFacts, Connected DEF CloseClient, clientVars
<1>2. CASE c # conn
  <2>1. s2c'[c] = s2c[c] /\ c2s'[c] = c2s[c] /\ InHand(c)' = InHand(c)
    BY <1>1, <1>2, KnownFacts DEF InHand, TextsOK
  <2> QED
    BY <1>1, <1>2, <2>1, EchoFrame
<1>3. CASE c = conn /\ c \notin cut'
  <2>1. /\ c \notin hungup /\ c \in hungup' /\ Echoes(c) /\ UNCHANGED <<s2c, cut>>
        /\ Echoed(c) \in Text /\ c2s[c] \in Text /\ sent[c] \in Text
    BY <1>1, <1>3, KnownFacts, TextsOf DEF QueueOK
  <2> DEFINE n == Len(Echoed(c))
  <2>2. ASSUME program = "echo", ~Gone(c)
        PROVE  /\ n \in 2..Len(sent[c])
               /\ Echoed(c) = FirstOf(sent[c], n) /\ RestOf(Echoed(c), n - 2) = Quit
    <3>1. /\ (Echoed(c) \o InHand(c)) \o c2s[c] = sent[c]
          /\ EndsInQuit(Echoed(c)) /\ InHand(c) = <<>>
      BY <1>1, <1>3, <2>1, <2>2 DEF Echoes, InHand
    <3>2. Echoed(c) \o c2s[c] = sent[c]
      BY <2>1, <3>1, NothingJoined
    <3>3. /\ n \in Nat /\ Len(c2s[c]) \in Nat
          /\ Len(sent[c]) = n + Len(c2s[c]) /\ n >= 2
      BY <2>1, <3>1, <3>2, Joined DEF EndsInQuit
    <3>4. Echoed(c) = FirstOf(sent[c], n)
      <4>1. n <= n
        BY <3>3
      <4>2. FirstOf(Echoed(c) \o c2s[c], n) = Echoed(c)
        BY <2>1, <3>3, <4>1, FirstOfJoined, Zenon
      <4> QED
        BY <3>2, <4>2
    <3> QED
      BY <3>1, <3>3, <3>4, SMTT(30) DEF EndsInQuit
  <2>3. Echoed(c)' = Echoed(c) /\ sent'[c] = sent[c]
    BY <1>1, <2>1 DEF Echoed
  <2> QED
    BY <1>1, <2>1, <2>2, <2>3 DEF Echoes, Gone
<1>4. CASE c \in cut'
  BY <1>4 DEF Echoes
<1> QED
  BY <1>2, <1>3, <1>4

LEMMA EchoServer ==
  ASSUME Known, NEW c \in Clients, ServerStep \/ ServerFails
  PROVE  Echoes(c)'
<1>1. CASE BrokenPipe \/ ServerFails
  BY <1>1 DEF BrokenPipe, ServerFails, EndServer, Echoes
<1>2. CASE OpenServer \/ Accept
  <2>1. spc \in {"boot", "accept"} /\ spc' \notin {"write", "close", "ended"}
    BY <1>2 DEF OpenServer, Accept
  <2>2. InHand(c)' = InHand(c)
    BY <2>1 DEF InHand
  <2> QED
    BY <1>2, <2>1, <2>2, EchoFrame DEF OpenServer, Accept, clientVars
<1>3. CASE \E k \in 1..Len(Greeting) : Greet(k)
  <2>1. spc = "greet" /\ program' = program
    BY <1>3 DEF Greet
  <2> QED
    BY <2>1, KnownFacts DEF ProgramOK, Echoes
<1>4. CASE \E k \in 1..Chunk : WriteShort(k)
  <2>1. PICK k \in 1..Chunk : WriteShort(k)
    BY <1>4
  <2>2. CASE c = conn
    BY <2>1, <2>2 DEF WriteShort, Echoes
  <2>3. CASE c # conn
    <3>1. /\ s2c'[c] = s2c[c] /\ InHand(c)' = InHand(c) /\ cut \subseteq cut'
          /\ spc = "write" /\ conn' = conn
          /\ UNCHANGED <<program, hungup, cstate, sent, recv, c2s>>
      BY <2>1, <2>3, KnownFacts DEF InHand, TextsOK, WriteShort, clientVars
    <3> QED
      BY <2>3, <3>1, EchoFrame
  <2> QED
    BY <2>2, <2>3
<1> QED
  BY <1>1, <1>2, <1>3, <1>4, EchoRead, EchoWriteBack, EchoClose
  DEF ServerStep, ServerFails

\* A person sends a line; after the server hung up it changes nothing that was
\* echoed, or resets the connection.
LEMMA EchoSends ==
  ASSUME Known, NEW c \in Clients, NEW b \in Clients, NEW line \in Text,
         SendText(b, line), UNCHANGED <<serverVars, recv>>,
         cstate[c] = "gone" => cstate'[c] = "gone"
  PROVE  Echoes(c)'
<1>1. /\ TextsOK /\ Echoes(c)
      /\ UNCHANGED <<program, spc, conn, mensaje, hungup>>
  BY KnownFacts DEF serverVars
<1>2. /\ sent' = [sent EXCEPT ![b] = sent[b] \o line]
      /\ c2s' = IF ServerClosed(b) THEN c2s ELSE [c2s EXCEPT ![b] = c2s[b] \o line]
  BY <1>1, SentText
<1>3. /\ \/ UNCHANGED <<s2c, cut>>
         \/ s2c' = [s2c EXCEPT ![b] = <<>>] /\ cut' = cut \union {b}
      /\ cut \subseteq cut'
  BY <1>1, SentText
<1>4. CASE c = b /\ c \in cut'
  BY <1>4 DEF Echoes
<1>5. s2c'[c] = s2c[c] \/ (c = b /\ c \in cut')
  BY <1>1, <1>3 DEF TextsOK
<1>6. InHand(c)' = InHand(c) /\ (s2c'[c] = s2c[c] => Echoed(c)' = Echoed(c))
  BY <1>1 DEF Echoed, InHand
<1>7. CASE c # b
  <2>1. sent'[c] = sent[c] /\ c2s'[c] = c2s[c] /\ s2c'[c] = s2c[c]
    BY <1>1, <1>2, <1>5, <1>7 DEF TextsOK
  <2> QED
    BY <1>1, <1>3, <1>6, <2>1, EchoFrame
<1>8. CASE c = b /\ c \in hungup /\ s2c'[c] = s2c[c]
  <2>1. sent'[c] = sent[c] \o line /\ sent[c] \in Text
    BY <1>1, <1>2, <1>8 DEF TextsOK
  <2>2. /\ Len(sent[c]) \in Nat /\ Len(line) \in Nat
        /\ Len(sent'[c]) = Len(sent[c]) + Len(line)
    BY <2>1, Joined
  <2>3. ASSUME NEW n \in 2..Len(sent[c])
        PROVE  n \in 2..Len(sent'[c]) /\ FirstOf(sent'[c], n) = FirstOf(sent[c], n)
    <3>1. n \in 2..Len(sent'[c]) /\ n \in Nat /\ n <= Len(sent[c])
      BY <2>2
    <3> QED
      BY <2>1, <3>1, FirstOfJoined
  <2> QED
    BY <1>1, <1>3, <1>6, <1>8, <2>3 DEF Echoes, Gone
<1>9. CASE c = b /\ c \notin hungup /\ spc # "ended" /\ s2c'[c] = s2c[c]
  <2>1. /\ sent'[c] = sent[c] \o line /\ c2s'[c] = c2s[c] \o line
        /\ c2s[c] \in Text
    BY <1>1, <1>2, <1>9 DEF TextsOK, ServerClosed
  <2>2. Echoed(c) \o InHand(c) \in Text
    BY TextsOf, Joined
  <2>3. ((Echoed(c) \o InHand(c)) \o c2s[c]) \o line
          = (Echoed(c) \o InHand(c)) \o (c2s[c] \o line)
    BY <2>1, <2>2, Associative
  <2> QED
    BY <1>1, <1>3, <1>6, <1>9, <2>1, <2>3 DEF Echoes, Gone
<1>10. CASE spc = "ended"
  BY <1>1, <1>10 DEF Echoes
<1> QED
  BY <1>4, <1>5, <1>7, <1>8, <1>9, <1>10

\* What a person hears was on its way.
LEMMA EchoHear ==
  ASSUME Known, NEW c \in Clients, NEW b \in Clients, Hear(b)
  PROVE  Echoes(c)'
<1>1. /\ TextsOK /\ Echoes(c)
      /\ UNCHANGED <<program, spc, conn, mensaje, hungup, cut, cstate, c2s, sent>>
      /\ recv' = [recv EXCEPT ![b] = recv[b] \o s2c[b]]
      /\ s2c' = [s2c EXCEPT ![b] = <<>>]
  BY KnownFacts DEF Hear, serverVars
<1>2. InHand(c)' = InHand(c)
  BY <1>1 DEF InHand
<1>3. CASE c # b
  <2>1. recv'[c] = recv[c] /\ s2c'[c] = s2c[c]
    BY <1>1, <1>3 DEF TextsOK
  <2> QED
    BY <1>1, <1>2, <2>1, EchoFrame
<1>4. CASE c = b
  <2>1. recv'[c] = Echoed(c) /\ s2c'[c] = <<>>
    BY <1>1, <1>4 DEF TextsOK, Echoed
  <2>2. Echoed(c)' = Echoed(c)
    BY <2>1, TextsOf, NothingJoined DEF Echoed
  <2> QED
    BY <1>1, <1>2, <2>2 DEF Echoes, Gone
<1> QED
  BY <1>3, <1>4

LEMMA EchoClient ==
  ASSUME Known, NEW c \in Clients, NEW b \in Clients,
         \/ Connect(b) \/ ConnectFails(b) \/ ClientStep(b)
         \/ \E line \in Lines : Say(b, line)
         \/ Leave(b)
  PROVE  Echoes(c)'
<1>1. TextsOK /\ PlacesOK /\ ProgramOK
  BY KnownFacts
<1>2. CASE Hear(b)
  BY <1>2, EchoHear
<1>3. CASE SayQuit(b) \/ \E line \in Lines : Say(b, line)
  <2>1. PICK line \in Text : SendText(b, line) /\ UNCHANGED <<serverVars, recv>>
    BY <1>3, LinesType, QuitType DEF SayQuit, Say
  <2>2. cstate[c] = "gone" => cstate'[c] = "gone"
    BY <1>1, <1>3 DEF SayQuit, Say, PlacesOK
  <2> QED
    BY <2>1, <2>2, EchoSends
<1>4. CASE \E k \in 1..Len(Greeting) : ReadGreeting(b, k)
  BY <1>1, <1>4 DEF ReadGreeting, ProgramOK, Echoes, serverVars
<1>5. CASE Connect(b) \/ ConnectFails(b) \/ SeeEnd(b) \/ Bye(b) \/ Leave(b)
  <2>1. CASE c = b /\ ~Connect(b)
    BY <1>1, <1>5, <2>1
    DEF ConnectFails, SeeEnd, Bye, Leave, Echoes, Gone, PlacesOK
  <2>2. CASE c # b \/ Connect(b)
    <3>1. /\ UNCHANGED <<program, spc, conn, mensaje, hungup, sent, recv, cut>>
          /\ cstate[c] = "gone" => cstate'[c] = "gone"
          /\ s2c'[c] = s2c[c] /\ c2s'[c] = c2s[c]
      BY <1>1, <1>5, <2>2
      DEF Connect, ConnectFails, SeeEnd, Bye, Leave, serverVars, TextsOK, PlacesOK
    <3>2. InHand(c)' = InHand(c)
      BY <3>1 DEF InHand
    <3> QED
      BY <3>1, <3>2, EchoFrame
  <2> QED
    BY <2>1, <2>2
<1> QED
  BY <1>2, <1>3, <1>4, <1>5 DEF ClientStep

\* A client of the greeting that nothing happens to.
LEMMA GreetFrame ==
  ASSUME Known, NEW c \in Clients,
         recv'[c] = recv[c], s2c'[c] = s2c[c], cstate'[c] = cstate[c],
         program' = program, cut \subseteq cut', spc = "ended" => spc' = "ended",
         c \in hungup' \/ (conn' = c /\ spc' = "close") =>
           c \in hungup \/ (conn = c /\ spc = "close")
  PROVE  Greets(c)'
<1>1. Greets(c)
  BY KnownFacts
<1> QED
  BY <1>1 DEF Greets

\* The server greets who it accepted, whole or cut, and then hangs up.
LEMMA GreetServer ==
  ASSUME Known, NEW c \in Clients, ServerStep \/ ServerFails
  PROVE  Greets(c)'
<1>1. /\ TextsOK /\ PlacesOK /\ ProgramOK /\ QueueOK /\ Greets(c)
  BY KnownFacts
<1>2. CASE BrokenPipe \/ ServerFails
  BY <1>2 DEF BrokenPipe, ServerFails, EndServer, Greets
<1>3. CASE OpenServer \/ Accept
  BY <1>3, GreetFrame DEF OpenServer, Accept, clientVars
<1>4. CASE WriteBack \/ (\E k \in 1..Chunk : Read(k)) \/ (\E k \in 1..Chunk : WriteShort(k))
  BY <1>1, <1>4 DEF WriteBack, Read, WriteShort, ProgramOK, Greets
<1>5. CASE \E k \in 1..Len(Greeting) : Greet(k)
  <2>1. PICK k \in 1..Len(Greeting) : Greet(k)
    BY <1>5
  <2>2. /\ conn \in Clients /\ conn' = conn /\ cstate[conn] # "away"
        /\ spc = "greet" /\ spc' = "close" /\ cut \subseteq cut'
        /\ UNCHANGED <<program, hungup, cstate, recv>>
    BY <1>1, <2>1, Connected DEF Greet, clientVars, QueueOK
  <2>3. CASE c # conn
    <3>1. s2c'[c] = s2c[c]
      BY <1>1, <2>1, <2>3 DEF Greet, TextsOK
    <3> QED
      BY <2>2, <2>3, <3>1, GreetFrame
  <2>4. CASE c = conn /\ k < Len(Greeting)
    BY <2>1, <2>4 DEF Greet, Greets
  <2>5. CASE c = conn /\ ~(k < Len(Greeting))
    <3>1. k = Len(Greeting)
      BY <2>5, QuitType
    <3>2. FirstOf(Greeting, k) = Greeting
      BY <3>1, QuitType, SubSeqFull DEF FirstOf, Text
    <3>3. Gone(c) \/ s2c'[c] = Greeting
      BY <1>1, <2>1, <2>5, <3>2 DEF Greet, TextsOK
    <3> QED
      BY <1>1, <2>2, <2>5, <3>3 DEF Greets, Gone
  <2> QED
    BY <2>3, <2>4, <2>5
<1>6. CASE CloseClient
  <2>1. /\ conn \in Clients /\ spc = "close" /\ spc' = "accept"
        /\ hungup' = hungup \union {conn} /\ cut \subseteq cut'
        /\ UNCHANGED <<program, cstate, recv>>
    BY <1>1, <1>6, Connected DEF CloseClient, clientVars
  <2>2. c \in cut' \/ s2c'[c] = s2c[c]
    BY <1>1, <1>6, <2>1 DEF CloseClient, TextsOK
  <2> QED
    BY <1>1, <2>1, <2>2 DEF Greets
<1> QED
  BY <1>2, <1>3, <1>4, <1>5, <1>6 DEF ServerStep

\* A client finds the end only after its greeting.
LEMMA GreetClient ==
  ASSUME Known, NEW c \in Clients, NEW b \in Clients,
         \/ Connect(b) \/ ConnectFails(b) \/ ClientStep(b)
         \/ \E line \in Lines : Say(b, line)
         \/ Leave(b)
  PROVE  Greets(c)'
<1>1. /\ TextsOK /\ PlacesOK /\ ProgramOK /\ QueueOK /\ Greets(c)
  BY KnownFacts
<1>2. CASE SayQuit(b) \/ Hear(b) \/ SeeEnd(b) \/ \E line \in Lines : Say(b, line)
  <2>1. cstate[b] \in {"talk", "quit"} /\ program' = program
    BY <1>2 DEF SayQuit, Hear, SeeEnd, Say, serverVars
  <2> QED
    BY <1>1, <2>1 DEF ProgramOK, Greets
<1>3. CASE \/ Connect(b) \/ ConnectFails(b) \/ Bye(b) \/ Leave(b)
           \/ (\E k \in 1..Len(Greeting) : ReadGreeting(b, k))
  <2>1. /\ UNCHANGED <<program, spc, conn, hungup>> /\ cut \subseteq cut'
    BY <1>3 DEF Connect, ConnectFails, Bye, Leave, ReadGreeting, serverVars
  <2>2. CASE c # b
    <3>1. recv'[c] = recv[c] /\ s2c'[c] = s2c[c] /\ cstate'[c] = cstate[c]
      BY <1>1, <1>3, <2>2
      DEF Connect, ConnectFails, Bye, Leave, ReadGreeting, TextsOK, PlacesOK
    <3> QED
      BY <2>1, <3>1, GreetFrame
  <2>3. CASE c = b /\ (ConnectFails(b) \/ Bye(b) \/ Leave(b))
    <3>1. cstate'[c] = "gone"
      BY <1>1, <2>3 DEF ConnectFails, Bye, Leave, PlacesOK
    <3> QED
      BY <3>1 DEF Greets
  <2>4. CASE c = b /\ Connect(b)
    <3>1. /\ cstate[c] = "away" /\ c \notin hungup /\ c # conn
          /\ s2c' = s2c /\ cut' = cut /\ cstate'[c] \in {"talk", "read"}
      BY <1>1, <2>4 DEF Connect, QueueOK, PlacesOK
    <3> QED
      BY <1>1, <2>1, <3>1 DEF Greets
  <2>5. CASE c = b /\ (\E k \in 1..Len(Greeting) : ReadGreeting(b, k))
    <3>1. PICK k \in 1..Len(Greeting) : ReadGreeting(c, k)
      BY <2>5
    <3>2. /\ cstate[c] = "read" /\ cstate'[c] = "bye"
          /\ s2c[c] = <<>> => ServerClosed(c)
          /\ s2c[c] # <<>> => /\ recv'[c] = FirstOf(s2c[c], k) /\ k <= Len(s2c[c])
                              /\ k < Len(s2c[c]) => c \in cut'
      BY <1>1, <3>1 DEF ReadGreeting, TextsOK, PlacesOK
    <3>3. ASSUME program = "hello", c \notin cut', spc # "ended"
          PROVE  recv'[c] = Greeting
      <4>1. s2c[c] = Greeting
        BY <1>1, <2>1, <3>2, <3>3 DEF Greets, ServerClosed
      <4>2. s2c[c] # <<>>
        BY <4>1 DEF Greeting
      <4>3. k = Len(Greeting)
        BY <3>2, <3>3, <4>1, <4>2, QuitType
      <4>4. FirstOf(Greeting, k) = Greeting
        BY <4>3, QuitType, SubSeqFull DEF FirstOf, Text
      <4> QED
        BY <3>2, <4>1, <4>2, <4>4
    <3> QED
      BY <2>1, <3>2, <3>3 DEF Greets
  <2> QED
    BY <1>3, <2>2, <2>3, <2>4, <2>5
<1> QED
  BY <1>2, <1>3 DEF ClientStep

LEMMA InitKnown == Init => Known
<1> SUFFICES ASSUME Init PROVE Known
  OBVIOUS
<1>1. TypeOK
  BY InitType
<1>2. ProgramOK
  BY DEF Init, ProgramOK
<1>3. QueueOK
  <2>1. Len(backlog) = 0 /\ 1..0 = {} /\ conn = NoClient /\ hungup = {}
    BY EmptySeq DEF Init
  <2>2. Queued = {}
    BY <2>1 DEF Queued
  <2> QED
    BY <2>1, <2>2, Sizes DEF QueueOK
<1>4. ASSUME NEW c \in Clients PROVE Echoes(c) /\ Greets(c)
  <2>1. /\ recv[c] = <<>> /\ s2c[c] = <<>> /\ c2s[c] = <<>> /\ sent[c] = <<>>
        /\ spc = "boot" /\ hungup = {} /\ cstate[c] = "away"
    BY DEF Init
  <2>2. (<<>> \o <<>>) \o <<>> = <<>> /\ (<<>> \o <<>>) = <<>>
    BY NothingJoined, EmptySeq DEF Text
  <2>3. InHand(c) = <<>> /\ Echoed(c) = <<>>
    BY <2>1, <2>2 DEF InHand, Echoed
  <2> QED
    BY <2>1, <2>2, <2>3 DEF Echoes, Greets
<1> QED
  BY <1>1, <1>2, <1>3, <1>4 DEF Known, TextInv

LEMMA KnownStep == Known /\ [Next]_vars => Known'
<1>1. ASSUME Known, Next PROVE Known'
  <2>1. TypeOK' /\ ProgramOK' /\ QueueOK'
    BY <1>1, TypeStep, ProgramStep, QueueStep DEF Known
  <2>2. ASSUME NEW c \in Clients PROVE Echoes(c)' /\ Greets(c)'
    BY <1>1, <2>2, EchoServer, EchoClient, GreetServer, GreetClient DEF Next
  <2> QED
    BY <2>1, <2>2 DEF Known, TextInv
<1>2. ASSUME Known, UNCHANGED vars PROVE Known'
  <2>1. TypeOK'
    BY <1>2, TypeStep DEF Known
  <2>2. ProgramOK' /\ QueueOK'
    BY <1>2, KnownFacts DEF ProgramOK, QueueOK, Queued, vars
  <2>3. ASSUME NEW c \in Clients PROVE Echoes(c)' /\ Greets(c)'
    <3>1. InHand(c)' = InHand(c)
      BY <1>2 DEF InHand, vars
    <3> QED
      BY <1>2, <3>1, EchoFrame, GreetFrame DEF vars
  <2> QED
    BY <2>1, <2>2, <2>3 DEF Known, TextInv
<1> QED
  BY <1>1, <1>2

LEMMA KnownGives == Known => TextIntact
<1> SUFFICES ASSUME Known PROVE TextIntact
  OBVIOUS
<1>1. EchoIntact
  <2>1. ASSUME NEW c \in Clients, program = "echo", ~Gone(c), c \notin cut, spc # "ended",
               c \notin hungup
        PROVE  ((recv[c] \o s2c[c]) \o (IF conn = c /\ spc = "write" THEN mensaje ELSE <<>>))
                 \o c2s[c] = sent[c]
    BY <2>1, KnownFacts DEF Echoes, Echoed, InHand
  <2>2. ASSUME NEW c \in Clients, program = "echo", ~Gone(c), c \notin cut, spc # "ended",
               c \in hungup
        PROVE  \E n \in 2..Len(sent[c]) :
                 /\ recv[c] \o s2c[c] = FirstOf(sent[c], n)
                 /\ RestOf(recv[c] \o s2c[c], n - 2) = Quit
    BY <2>2, KnownFacts DEF Echoes, Echoed
  <2> QED
    BY <2>1, <2>2 DEF EchoIntact
<1>2. GreetingIntact
  BY KnownFacts DEF PlacesOK, ProgramOK, Greets, GreetingIntact
<1> QED
  BY <1>1, <1>2 DEF TextIntact

\* Everything a person sends is echoed in order while the connection is open,
\* and the server hangs up exactly after the echo of a QUIT
\* (echo_server.c:92-104); a greeting that is not printed whole was cut, or
\* its server had ended (simple_hello.c:92-99, 119-120).
THEOREM TextIsIntact == Spec => []TextIntact
<1>1. Spec => []Known
  BY InitKnown, KnownStep, PTL DEF Spec
<1> QED
  BY <1>1, KnownGives, PTL

=============================================================================
