---------------------------- MODULE SimpleSocket ----------------------------
(***************************************************************************)
(* The two first examples of simple_socket.  echo_server sends back what   *)
(* each read() returns, until one of them is exactly "QUIT\r\n";           *)
(* simple_hello -s sends a greeting and hangs up.  Both serve one          *)
(* connection at a time, with the same code up to accept().                *)
(*                                                                         *)
(* The clients of the echo are people with a terminal: they send lines,    *)
(* QUIT at the latest as their last, and stay until the server hangs up,   *)
(* unless they leave first.  Those of the greeting are simple_hello -c.    *)
(* Text is counted in units, so that a read() can end within a line.       *)
(***************************************************************************)
EXTENDS Naturals, Sequences

CONSTANTS
  Clients,   \* runs of a client, one connection each
  NoClient,  \* value of clientSocket when there is no connection
  Backlog,   \* length of the queue, 5 in echo_server.c:70
  Chunk,     \* length of mensaje, 255
  Capacity,  \* units the socket buffers of one direction hold
  MaxLines   \* bound on the lines a person sends before the last one

ASSUME ClientsAssumption == NoClient \notin Clients
ASSUME BoundsAssumption ==
  /\ Backlog \in Nat \ {0} /\ MaxLines \in Nat
  /\ Chunk \in Nat /\ Capacity \in Nat /\ 2 <= Chunk /\ Chunk <= Capacity

VARIABLES
  program,   \* which server runs, "echo" or "hello"
  spc,       \* where it is in its loop
  conn,      \* the client whose connection clientSocket is
  mensaje,   \* what read() returned
  backlog,   \* connections completed by the kernel and not accepted yet
  hungup,    \* clients whose connection the server closed
  cstate,    \* where each client is
  lines,     \* lines a person has sent before the last one
  c2s, s2c,  \* text on its way to the server, and to each client
  sent,      \* history: all the text a client sent
  recv,      \* what it received (mensajeIN in simple_hello)
  unheard,   \* history: clients whose QUIT came in pieces or with other text
  cut,       \* history: clients that a write(), a read() or a reset gave less
  left       \* history: clients that left without waiting for the server

serverVars == <<program, spc, conn, mensaje, backlog, hungup>>
clientVars == <<cstate, lines, sent, recv, left>>
vars == <<program, spc, conn, mensaje, backlog, hungup, cstate, lines, c2s,
          s2c, sent, recv, unheard, cut, left>>

SStates == {"boot", "accept", "read", "write", "greet", "close", "ended"}
CStates == {"away", "talk", "quit", "read", "bye", "gone"}
Units == {"QUIT", "CRLF", "text", "HOLA", "NUL"}
Quit == <<"QUIT", "CRLF">>
Lines == {Quit, <<"text">>}
Greeting == <<"HOLA", "NUL">>

Gone(c) == cstate[c] = "gone"
ServerClosed(c) == c \in hungup \/ spc = "ended"
FirstOf(s, k) == SubSeq(s, 1, k)
RestOf(s, k) == SubSeq(s, k + 1, Len(s))

Init ==
  /\ program \in {"echo", "hello"}
  /\ spc = "boot" /\ conn = NoClient /\ mensaje = <<>> /\ backlog = <<>>
  /\ cstate = [c \in Clients |-> "away"] /\ lines = [c \in Clients |-> 0]
  /\ c2s = [c \in Clients |-> <<>>] /\ s2c = [c \in Clients |-> <<>>]
  /\ sent = [c \in Clients |-> <<>>] /\ recv = [c \in Clients |-> <<>>]
  /\ hungup = {} /\ unheard = {} /\ cut = {} /\ left = {}

-----------------------------------------------------------------------------
(***************************************************************************)
(* The servers.                                                            *)
(***************************************************************************)

\* The process ends, and its sockets with it.
EndServer ==
  /\ spc' = "ended" /\ conn' = NoClient /\ mensaje' = <<>> /\ backlog' = <<>>
  /\ UNCHANGED <<program, hungup, clientVars, c2s, s2c, unheard, cut>>

\* bind() and listen(); a socket() that failed shows in bind().
OpenServer ==
  /\ spc = "boot"
  /\ spc' = "accept"
  /\ UNCHANGED <<program, conn, mensaje, backlog, hungup, clientVars, c2s, s2c,
                 unheard, cut>>

\* bind(), listen() or accept() fails: the program returns.
ServerFails == spc \in {"boot", "accept"} /\ EndServer

Accept ==
  /\ spc = "accept"
  /\ backlog # <<>>
  /\ conn' = Head(backlog) /\ backlog' = Tail(backlog)
  /\ spc' = IF program = "echo" THEN "read" ELSE "greet"
  /\ UNCHANGED <<program, mensaje, hungup, clientVars, c2s, s2c, unheard, cut>>

\* Mutant: without the test of r_bytes the end of the stream is echoed too.
ReadUnchecked(k) ==
  /\ spc = "read"
  /\ k <= Len(c2s[conn]) \/ Gone(conn)
  /\ mensaje' = FirstOf(c2s[conn], IF k <= Len(c2s[conn]) THEN k ELSE 0)
  /\ c2s' = [c2s EXCEPT ![conn] = RestOf(@, Len(mensaje'))]
  /\ spc' = "write"
  /\ UNCHANGED <<program, conn, backlog, hungup, clientVars, s2c, unheard, cut>>

\* bzero() and read().  At the end of the stream read() returns 0 and leaves
\* the text empty, which is not QUIT: the loop goes round for ever, and
\* nothing changes any more.
Read(k) ==
  /\ spc = "read"
  /\ k <= Len(c2s[conn])
  /\ mensaje' = FirstOf(c2s[conn], k)
  /\ c2s' = [c2s EXCEPT ![conn] = RestOf(@, k)]
  /\ unheard' = IF mensaje' # Quit /\ \E i \in 1..k : mensaje'[i] # "text"
                THEN unheard \union {conn} ELSE unheard
  /\ spc' = "write"
  /\ UNCHANGED <<program, conn, backlog, hungup, clientVars, s2c, cut>>

\* Mutant: strncmp(mensaje,"QUIT",4).
IsQuitPrefix == mensaje[1] = "QUIT"

\* Mutant: strcmp(mensaje,"QUIT"), without the end of the line.
IsQuitBare == mensaje = <<"QUIT">>

\* strcmp(mensaje,"QUIT\r\n"), the condition of the loop.
IsQuit == mensaje = Quit

AfterWrite == IF IsQuit THEN "close" ELSE "read"

\* write() of what was read.  A client that is gone does not get it; the
\* second time it kills the server (SIGPIPE).
WriteBack ==
  /\ spc = "write"
  /\ IF Gone(conn) THEN UNCHANGED s2c
     ELSE /\ Len(s2c[conn]) + Len(mensaje) <= Capacity
          /\ s2c' = [s2c EXCEPT ![conn] = @ \o mensaje]
  /\ spc' = AfterWrite
  /\ UNCHANGED <<program, conn, mensaje, backlog, hungup, clientVars, c2s,
                 unheard, cut>>

\* A short write() is reported and what is missing never sent.
WriteShort(k) ==
  /\ spc = "write"
  /\ ~Gone(conn)
  /\ k < Len(mensaje) /\ Len(s2c[conn]) + k <= Capacity
  /\ s2c' = [s2c EXCEPT ![conn] = @ \o FirstOf(mensaje, k)]
  /\ cut' = cut \union {conn}
  /\ spc' = AfterWrite
  /\ UNCHANGED <<program, conn, mensaje, backlog, hungup, clientVars, c2s,
                 unheard>>

BrokenPipe == spc = "write" /\ Gone(conn) /\ EndServer

\* simple_hello: one write(), that may be short too.
Greet(k) ==
  /\ spc = "greet"
  /\ s2c' = IF Gone(conn) THEN s2c
            ELSE [s2c EXCEPT ![conn] = FirstOf(Greeting, k)]
  /\ cut' = IF k < Len(Greeting) THEN cut \union {conn} ELSE cut
  /\ spc' = "close"
  /\ UNCHANGED <<program, conn, mensaje, backlog, hungup, clientVars, c2s,
                 unheard>>

\* close(); with text unread it resets the connection, and what is on its way
\* to the client may be lost.
CloseClient ==
  /\ spc = "close"
  /\ hungup' = hungup \union {conn}
  /\ c2s' = [c2s EXCEPT ![conn] = <<>>]
  /\ \/ UNCHANGED <<s2c, cut>>
     \/ /\ c2s[conn] # <<>>
        /\ s2c' = [s2c EXCEPT ![conn] = <<>>] /\ cut' = cut \union {conn}
  /\ spc' = "accept" /\ conn' = NoClient /\ mensaje' = <<>>
  /\ UNCHANGED <<program, backlog, clientVars, unheard>>

-----------------------------------------------------------------------------
(***************************************************************************)
(* The clients.                                                            *)
(***************************************************************************)

Connect(c) ==
  /\ cstate[c] = "away"
  /\ spc \notin {"boot", "ended"}
  /\ Len(backlog) < Backlog
  /\ backlog' = Append(backlog, c)
  /\ cstate' = [cstate EXCEPT ![c] = IF program = "echo" THEN "talk" ELSE "read"]
  /\ UNCHANGED <<program, spc, conn, mensaje, hungup, lines, c2s, s2c, sent,
                 recv, unheard, cut, left>>

\* Whether somebody listens or not; simple_hello -c ends.
ConnectFails(c) ==
  /\ cstate[c] = "away"
  /\ cstate' = [cstate EXCEPT ![c] = "gone"]
  /\ UNCHANGED <<serverVars, lines, c2s, s2c, sent, recv, unheard, cut, left>>

\* What is sent to a connection that the server closed is lost, and answered
\* with a reset: what the client has not heard yet may be lost too.
SendText(c, line) ==
  /\ Len(c2s[c]) + Len(line) <= Capacity
  /\ sent' = [sent EXCEPT ![c] = @ \o line]
  /\ c2s' = IF ServerClosed(c) THEN c2s ELSE [c2s EXCEPT ![c] = @ \o line]
  /\ \/ UNCHANGED <<s2c, cut>>
     \/ /\ ServerClosed(c) /\ s2c[c] # <<>>
        /\ s2c' = [s2c EXCEPT ![c] = <<>>] /\ cut' = cut \union {c}

Say(c, line) ==
  /\ cstate[c] = "talk"
  /\ lines[c] < MaxLines
  /\ SendText(c, line)
  /\ lines' = [lines EXCEPT ![c] = @ + 1]
  /\ UNCHANGED <<serverVars, cstate, recv, unheard, left>>

SayQuit(c) ==
  /\ cstate[c] = "talk"
  /\ SendText(c, Quit)
  /\ cstate' = [cstate EXCEPT ![c] = "quit"]
  /\ UNCHANGED <<serverVars, lines, recv, unheard, left>>

Hear(c) ==
  /\ cstate[c] \in {"talk", "quit"}
  /\ s2c[c] # <<>>
  /\ recv' = [recv EXCEPT ![c] = @ \o s2c[c]]
  /\ s2c' = [s2c EXCEPT ![c] = <<>>]
  /\ UNCHANGED <<serverVars, cstate, lines, c2s, sent, unheard, cut, left>>

SeeEnd(c) ==
  /\ cstate[c] \in {"talk", "quit"}
  /\ s2c[c] = <<>>
  /\ ServerClosed(c)
  /\ cstate' = [cstate EXCEPT ![c] = "gone"]
  /\ UNCHANGED <<serverVars, lines, c2s, s2c, sent, recv, unheard, cut, left>>

\* simple_hello -c reads once and prints the array up to a NUL, whatever it
\* read; nothing at all when the server is gone.
ReadGreeting(c, k) ==
  /\ cstate[c] = "read"
  /\ IF s2c[c] = <<>> THEN ServerClosed(c) ELSE 1 <= k /\ k <= Len(s2c[c])
  /\ recv' = [recv EXCEPT ![c] = FirstOf(s2c[c], IF s2c[c] = <<>> THEN 0 ELSE k)]
  /\ cut' = IF s2c[c] # <<>> /\ k < Len(s2c[c]) THEN cut \union {c} ELSE cut
  /\ cstate' = [cstate EXCEPT ![c] = "bye"]
  /\ UNCHANGED <<serverVars, lines, c2s, s2c, sent, unheard, left>>

\* It writes its ADIOS, which the server never reads, and ends.
Bye(c) ==
  /\ cstate[c] = "bye"
  /\ cstate' = [cstate EXCEPT ![c] = "gone"]
  /\ s2c' = [s2c EXCEPT ![c] = <<>>]
  /\ UNCHANGED <<serverVars, lines, c2s, sent, recv, unheard, cut, left>>

\* A client is interrupted.  With text it has not read its end resets the
\* connection, and what it sent may be lost.
Leave(c) ==
  /\ cstate[c] \in {"talk", "quit", "read", "bye"}
  /\ cstate' = [cstate EXCEPT ![c] = "gone"]
  /\ left' = left \union {c}
  /\ s2c' = [s2c EXCEPT ![c] = <<>>]
  /\ \/ UNCHANGED c2s
     \/ s2c[c] # <<>> /\ c2s' = [c2s EXCEPT ![c] = <<>>]
  /\ UNCHANGED <<serverVars, lines, sent, recv, unheard, cut>>

-----------------------------------------------------------------------------

ServerStep ==
  \/ OpenServer
  \/ Accept
  \/ \E k \in 1..Chunk : Read(k)
  \/ WriteBack
  \/ \E k \in 1..Chunk : WriteShort(k)
  \/ BrokenPipe
  \/ \E k \in 1..Len(Greeting) : Greet(k)
  \/ CloseClient

ClientStep(c) ==
  \/ SayQuit(c)
  \/ Hear(c)
  \/ SeeEnd(c)
  \/ \E k \in 1..Len(Greeting) : ReadGreeting(c, k)
  \/ Bye(c)

Next ==
  \/ ServerStep
  \/ ServerFails
  \/ \E c \in Clients : \/ Connect(c) \/ ConnectFails(c) \/ ClientStep(c)
                        \/ \E line \in Lines : Say(c, line)
                        \/ Leave(c)

Spec == Init /\ [][Next]_vars

\* The server runs; a client that connected comes to its QUIT and listens.
\* Nobody has to connect, to say more than that, or to leave.
FairSpec ==
  /\ Spec
  /\ WF_vars(ServerStep)
  /\ \A c \in Clients : WF_vars(ClientStep(c))

-----------------------------------------------------------------------------
(***************************************************************************)
(* Correctness.                                                            *)
(***************************************************************************)

\* Every variable has its type.
TypeOK ==
  /\ program \in {"echo", "hello"} /\ spc \in SStates
  /\ conn \in Clients \union {NoClient}
  /\ (conn = NoClient) = (spc \in {"boot", "accept", "ended"})
  /\ mensaje \in Seq(Units) /\ Len(mensaje) <= Chunk
  /\ spc = "write" => mensaje # <<>>
  /\ backlog \in Seq(Clients) /\ Len(backlog) <= Backlog
  /\ cstate \in [Clients -> CStates] /\ lines \in [Clients -> 0..MaxLines]
  /\ \A f \in {c2s, s2c, sent, recv} : f \in [Clients -> Seq(Units)]
  /\ \A c \in Clients : Len(c2s[c]) <= Capacity /\ Len(s2c[c]) <= Capacity
  /\ hungup \subseteq Clients /\ unheard \subseteq Clients
  /\ cut \subseteq Clients /\ left \subseteq Clients

\* However the text is split and joined on its way, everything a person sent
\* is either echoed in order or still to be echoed while the connection is
\* open, and the server hangs up right after the echo of a QUIT and never
\* otherwise (echo_server.c:92-104).
EchoIntact ==
  \A c \in Clients : program = "echo" /\ ~Gone(c) /\ c \notin cut /\ spc # "ended" =>
    LET echoed == recv[c] \o s2c[c] IN
    IF c \in hungup
    THEN \E n \in 2..Len(sent[c]) :
           echoed = FirstOf(sent[c], n) /\ RestOf(echoed, n - 2) = Quit
    ELSE echoed \o (IF conn = c /\ spc = "write" THEN mensaje ELSE <<>>) \o c2s[c]
           = sent[c]

\* A greeting that is not printed whole is one that the server, or the single
\* read() of the client, cut, or that a server which had ended never sent
\* (simple_hello.c:92-99, 119-120).
GreetingIntact ==
  \A c \in Clients : cstate[c] = "bye" =>
    recv[c] = Greeting \/ c \in cut \/ spc = "ended"

TextIntact == EchoIntact /\ GreetingIntact

\* Everybody who connects is served and ends, unless the server is held by
\* somebody who left without a QUIT, or whose QUIT came in pieces or joined
\* with other text; either is enough to keep all the others waiting for ever
\* (echo_server.c:92-101).
EveryoneServed ==
  <>[](\/ \A c \in Clients : cstate[c] \in {"away", "gone"}
       \/ spc \in {"read", "write"} /\ conn \in left \union unheard)

=============================================================================
