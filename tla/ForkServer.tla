----------------------------- MODULE ForkServer -----------------------------
(***************************************************************************)
(* The process structure of the file server of FileTransfer_Proyecto: the  *)
(* loop of server.c:start_server (accept, fork, close) run by the original *)
(* process and by every process it forks, the kernel objects it works on   *)
(* (listening queue, descriptors, process table) and the two client        *)
(* programs that connect to it (client.c:start_client and get_list).       *)
(*                                                                         *)
(* What a session transfers is abstracted to "a command was answered";     *)
(* module FileSession opens that box.  accept() failing with -1 is the     *)
(* "continue" of server.c:54, which changes nothing: a stuttering step.    *)
(***************************************************************************)
EXTENDS Naturals, Sequences, FiniteSets

CONSTANTS
  Procs,     \* slots of the process table the server may use
  Root,      \* the slot of the process that runs main
  Reaper,    \* stands for init: the parent of processes without a parent
  Clients,   \* runs of a client program, one connection each
  NoConn,    \* value of clientSocket when there is no connection
  Backlog    \* q_size of listen(), 5 in server.c:40

ASSUME ProcsAssumption ==
  /\ IsFiniteSet(Procs)
  /\ Root \in Procs
  /\ Reaper \notin Procs

ASSUME ClientsAssumption ==
  /\ IsFiniteSet(Clients)
  /\ NoConn \notin Clients

ASSUME BacklogAssumption == Backlog \in Nat \ {0}

VARIABLES
  pstate,     \* where each process is in start_server
  sock,       \* its local variable clientSocket
  held,       \* the connections it holds an open descriptor of
  parent,     \* its parent, which start_server never makes wait() for it
  backlog,    \* connections completed by the kernel and not accepted yet
  cstate,     \* where each client program is
  prog,       \* which program it runs
  input,      \* the command it sent and the server has not read yet
  reply,      \* whether an answer was written to its connection
  served,     \* history: the clients a child was forked for
  forkFailed  \* history: whether a fork() has failed

procVars   == <<pstate, sock, held, parent, backlog>>
clientVars == <<cstate, prog, input, reply>>
vars == <<pstate, sock, held, parent, backlog, cstate, prog, input, reply,
          served, forkFailed>>

PStates == {"none", "boot", "accept", "fork", "parent", "serve", "closing",
            "zombie"}
CStates == {"idle", "connected", "waiting", "answered", "closed", "failed",
            "aborted"}
Programs == {"get", "list"}
Commands == {"GET", "LIST", "QUIT"}

-----------------------------------------------------------------------------

Live(p) == pstate[p] \notin {"none", "zombie"}

\* Every process past newTCPServerSocket4 keeps the descriptor it inherited,
\* so the listening socket exists as long as one of them does.
ListenOpen == \E p \in Procs : pstate[p] \notin {"none", "zombie", "boot"}

Queued(c) == \E i \in 1..Len(backlog) : backlog[i] = c

\* The server's end of the connection is closed: nobody holds it any more.
ServerClosed(c) == ~Queued(c) /\ \A p \in Procs : c \notin held[p]

\* The client's end is closed, by close() or by the end of the program.
ClientGone(c) == cstate[c] \in {"closed", "failed", "aborted"}

Init ==
  /\ pstate = [p \in Procs |-> IF p = Root THEN "boot" ELSE "none"]
  /\ sock = [p \in Procs |-> NoConn]
  /\ held = [p \in Procs |-> {}]
  /\ parent = [p \in Procs |-> Reaper]
  /\ backlog = <<>>
  /\ cstate = [c \in Clients |-> "idle"]
  /\ prog = [c \in Clients |-> "none"]
  /\ input = [c \in Clients |-> "none"]
  /\ reply = [c \in Clients |-> FALSE]
  /\ served = {}
  /\ forkFailed = FALSE

-----------------------------------------------------------------------------
\* Mutant: the children that serve a client die with their parent, as if its
\* end hung them up.
TerminateWithChildren(p) ==
  LET dies(q) == q = p \/ (parent[q] = p /\ pstate[q] = "serve") IN
  /\ pstate' = [q \in Procs |-> IF dies(q) THEN "none" ELSE pstate[q]]
  /\ parent' = [q \in Procs |-> IF parent[q] = p THEN Reaper ELSE parent[q]]
  /\ sock' = [q \in Procs |-> IF dies(q) THEN NoConn ELSE sock[q]]
  /\ held' = [q \in Procs |-> IF dies(q) THEN {} ELSE held[q]]
  /\ backlog' = IF \E q \in Procs : ~dies(q) /\ Live(q) THEN backlog ELSE <<>>

(***************************************************************************)
(* The end of a process, by exit or by a signal.  The kernel closes its    *)
(* descriptors; it stays in the table as a zombie while it has a parent,   *)
(* because start_server never calls wait(); its children become children   *)
(* of Reaper, which removes those that are zombies.  With the last process *)
(* the listening socket disappears and the queued connections with it.     *)
(***************************************************************************)
Terminate(p) ==
  /\ pstate' = [q \in Procs |->
       IF q = p THEN IF parent[p] = Reaper THEN "none" ELSE "zombie"
       ELSE IF parent[q] = p /\ pstate[q] = "zombie" THEN "none"
       ELSE pstate[q]]
  /\ parent' = [q \in Procs |-> IF parent[q] = p THEN Reaper ELSE parent[q]]
  /\ sock' = [sock EXCEPT ![p] = NoConn]
  /\ held' = [held EXCEPT ![p] = {}]
  /\ backlog' = IF \E q \in Procs \ {p} : Live(q) THEN backlog ELSE <<>>

\* newTCPServerSocket4 succeeds: the socket listens.
OpenServer ==
  /\ pstate[Root] = "boot"
  /\ pstate' = [pstate EXCEPT ![Root] = "accept"]
  /\ UNCHANGED <<sock, held, parent, backlog, clientVars, served, forkFailed>>

\* bind() or listen() fails: start_server returns 1 and main ends.
OpenServerFails ==
  /\ pstate[Root] = "boot"
  /\ Terminate(Root)
  /\ UNCHANGED <<clientVars, served, forkFailed>>

\* waitConnection4: accept() takes the oldest completed connection.
WaitConnection(p) ==
  /\ pstate[p] = "accept"
  /\ backlog # <<>>
  /\ backlog' = Tail(backlog)
  /\ sock' = [sock EXCEPT ![p] = Head(backlog)]
  /\ held' = [held EXCEPT ![p] = @ \union {Head(backlog)}]
  /\ pstate' = [pstate EXCEPT ![p] = "fork"]
  /\ UNCHANGED <<parent, clientVars, served, forkFailed>>

\* Mutant: without the "continue" of server.c:54 a process forks although
\* accept() failed and left -1 in clientSocket.
ForkUnchecked(p, q) ==
  /\ pstate[p] \in {"accept", "fork"}
  /\ pstate[q] = "none"
  /\ pstate' = [pstate EXCEPT ![p] = "parent", ![q] = "serve"]
  /\ sock' = [sock EXCEPT ![q] = sock[p]]
  /\ held' = [held EXCEPT ![q] = held[p]]
  /\ parent' = [parent EXCEPT ![q] = p]
  /\ served' = served \union {sock[p]}
  /\ UNCHANGED <<backlog, clientVars, forkFailed>>

\* Mutant: the parent does not leave the branch and forks again for the
\* same client.
ForkAgain(p, q) ==
  /\ pstate[p] = "fork"
  /\ pstate[q] = "none"
  /\ pstate' = [pstate EXCEPT ![q] = "serve"]
  /\ sock' = [sock EXCEPT ![q] = sock[p]]
  /\ held' = [held EXCEPT ![q] = held[p]]
  /\ parent' = [parent EXCEPT ![q] = p]
  /\ served' = served \union {sock[p]}
  /\ UNCHANGED <<backlog, clientVars, forkFailed>>

\* fork(): the child q gets a copy of the descriptors and of clientSocket.
Fork(p, q) ==
  /\ pstate[p] = "fork"
  /\ pstate[q] = "none"
  /\ pstate' = [pstate EXCEPT ![p] = "parent", ![q] = "serve"]
  /\ sock' = [sock EXCEPT ![q] = sock[p]]
  /\ held' = [held EXCEPT ![q] = held[p]]
  /\ parent' = [parent EXCEPT ![q] = p]
  /\ served' = served \union {sock[p]}
  /\ UNCHANGED <<backlog, clientVars, forkFailed>>

\* Mutant: a failed fork() is passed over, the connection stays open.
ForkFailurePassedOver(p) ==
  /\ pstate[p] = "fork"
  /\ \A q \in Procs : pstate[q] # "none"
  /\ pstate' = [pstate EXCEPT ![p] = "accept"]
  /\ forkFailed' = TRUE
  /\ UNCHANGED <<sock, held, parent, backlog, clientVars, served>>

\* fork() returns -1, no slot is free: start_server returns 1, main ends.
ForkFails(p) ==
  /\ pstate[p] = "fork"
  /\ \A q \in Procs : pstate[q] # "none"
  /\ Terminate(p)
  /\ forkFailed' = TRUE
  /\ UNCHANGED <<clientVars, served>>

\* Mutant: the parent's closeTCPSocket is missing.
ParentForgetsClose(p) ==
  /\ pstate[p] = "parent"
  /\ pstate' = [pstate EXCEPT ![p] = "accept"]
  /\ UNCHANGED <<sock, held, parent, backlog, clientVars, served, forkFailed>>

\* Mutant: the result of fork() is not told apart, the parent serves too.
ParentServes(p) ==
  /\ pstate[p] = "parent"
  /\ pstate' = [pstate EXCEPT ![p] = "serve"]
  /\ UNCHANGED <<sock, held, parent, backlog, clientVars, served, forkFailed>>

\* The forking process closes its copy and accepts the next client.
ParentClose(p) ==
  /\ pstate[p] = "parent"
  /\ held' = [held EXCEPT ![p] = @ \ {sock[p]}]
  /\ pstate' = [pstate EXCEPT ![p] = "accept"]
  /\ UNCHANGED <<sock, parent, backlog, clientVars, served, forkFailed>>

\* Mutant: the child goes on to the next client when one command is answered.
AnswerAndLeave(p) ==
  LET c == sock[p] IN
  /\ pstate[p] = "serve"
  /\ input[c] \in {"GET", "LIST"}
  /\ input' = [input EXCEPT ![c] = "none"]
  /\ reply' = [reply EXCEPT ![c] = TRUE]
  /\ pstate' = [pstate EXCEPT ![p] = "closing"]
  /\ UNCHANGED <<sock, held, parent, backlog, cstate, prog, served, forkFailed>>

\* start_protocol reads GET or LIST and answers.  The answer may lack what
\* the client waits for: the list of an empty directory, a truncated file
\* (FileSession).  Writing to a client that is gone may succeed (the data is
\* dropped) or kill the process (SIGPIPE).
AnswerCommand(p) ==
  LET c == sock[p] IN
  /\ pstate[p] = "serve"
  /\ input[c] \in {"GET", "LIST"}
  /\ input' = [input EXCEPT ![c] = "none"]
  /\ \/ /\ \E whole \in BOOLEAN : reply' = [reply EXCEPT ![c] = whole]
        /\ UNCHANGED procVars
     \/ /\ ClientGone(c)
        /\ Terminate(p)
        /\ UNCHANGED reply
  /\ UNCHANGED <<cstate, prog, served, forkFailed>>

\* start_protocol reads QUIT and returns to start_server.
ReadQuit(p) ==
  LET c == sock[p] IN
  /\ pstate[p] = "serve"
  /\ input[c] = "QUIT"
  /\ input' = [input EXCEPT ![c] = "none"]
  /\ pstate' = [pstate EXCEPT ![p] = "closing"]
  /\ UNCHANGED <<sock, held, parent, backlog, cstate, prog, reply, served,
                 forkFailed>>

\* Mutant: a read() that finds no data yet is taken for the end of the stream.
ReadNothingYet(p) ==
  /\ pstate[p] = "serve"
  /\ input[sock[p]] = "none"
  /\ Terminate(p)
  /\ UNCHANGED <<clientVars, served, forkFailed>>

\* start_protocol reads the end of the stream: the command is the empty
\* string, strtok returns NULL and strcmp(NULL, "GET") kills the process.
ReadEndOfStream(p) ==
  LET c == sock[p] IN
  /\ pstate[p] = "serve"
  /\ input[c] = "none"
  /\ ClientGone(c)
  /\ Terminate(p)
  /\ UNCHANGED <<clientVars, served, forkFailed>>

\* The child closes the connection and, without an exit, goes round the loop
\* of start_server: from here on it accepts clients as its parent does.
ChildClose(p) ==
  /\ pstate[p] = "closing"
  /\ held' = [held EXCEPT ![p] = @ \ {sock[p]}]
  /\ pstate' = [pstate EXCEPT ![p] = "accept"]
  /\ UNCHANGED <<sock, parent, backlog, clientVars, served, forkFailed>>

-----------------------------------------------------------------------------
(***************************************************************************)
(* The client programs.                                                    *)
(***************************************************************************)

\* newTCPClientSocket4: the kernel completes the connection when the
\* listening queue has room for it.
Connect(c, g) ==
  /\ cstate[c] = "idle"
  /\ ListenOpen
  /\ Len(backlog) < Backlog
  /\ backlog' = Append(backlog, c)
  /\ cstate' = [cstate EXCEPT ![c] = "connected"]
  /\ prog' = [prog EXCEPT ![c] = g]
  /\ UNCHANGED <<pstate, sock, held, parent, input, reply, served, forkFailed>>

\* newTCPClientSocket4 fails: nothing listens on the port, or the address is
\* no address, or there is no socket to be had.
ConnectFails(c) ==
  /\ cstate[c] = "idle"
  /\ cstate' = [cstate EXCEPT ![c] = "failed"]
  /\ UNCHANGED <<procVars, prog, input, reply, served, forkFailed>>

\* The first sendLine of start_protocol (GET) or of get_list (LIST).
SendRequest(c) ==
  /\ cstate[c] = "connected"
  /\ cstate' = [cstate EXCEPT ![c] = "waiting"]
  /\ input' = [input EXCEPT ![c] = IF prog[c] = "get" THEN "GET" ELSE "LIST"]
  /\ UNCHANGED <<procVars, prog, reply, served, forkFailed>>

ReadReply(c) ==
  /\ cstate[c] = "waiting"
  /\ reply[c]
  /\ cstate' = [cstate EXCEPT ![c] = "answered"]
  /\ UNCHANGED <<procVars, prog, input, reply, served, forkFailed>>

\* read() finds the end of the stream before any answer: both programs take
\* the empty answer and close (QUIT is sent to a connection nobody reads).
ReadNoReply(c) ==
  /\ cstate[c] = "waiting"
  /\ ~reply[c]
  /\ ServerClosed(c)
  /\ cstate' = [cstate EXCEPT ![c] = "failed"]
  /\ UNCHANGED <<procVars, prog, input, reply, served, forkFailed>>

\* get_list closes the connection without a QUIT; start_protocol sends one
\* before start_client closes, and loses it when doGet could not create the
\* local file and left data unread: closing then resets the connection.
CloseClient(c) ==
  /\ cstate[c] = "answered"
  /\ cstate' = [cstate EXCEPT ![c] = "closed"]
  /\ \/ prog[c] = "get" /\ input' = [input EXCEPT ![c] = "QUIT"]
     \/ UNCHANGED input
  /\ UNCHANGED <<procVars, prog, reply, served, forkFailed>>

\* The user interrupts the client program.
Abort(c) ==
  /\ cstate[c] \in {"connected", "waiting", "answered"}
  /\ cstate' = [cstate EXCEPT ![c] = "aborted"]
  /\ UNCHANGED <<procVars, prog, input, reply, served, forkFailed>>

-----------------------------------------------------------------------------

ProcStep(p) ==
  \/ WaitConnection(p)
  \/ \E q \in Procs : Fork(p, q)
  \/ ForkFails(p)
  \/ ParentClose(p)
  \/ AnswerCommand(p)
  \/ ReadQuit(p)
  \/ ReadEndOfStream(p)
  \/ ChildClose(p)

ClientStep(c) ==
  \/ SendRequest(c)
  \/ ReadReply(c)
  \/ ReadNoReply(c)
  \/ CloseClient(c)

Next ==
  \/ OpenServer
  \/ OpenServerFails
  \/ \E p \in Procs : ProcStep(p)
  \/ \E c \in Clients, g \in Programs : Connect(c, g)
  \/ \E c \in Clients : ClientStep(c)
  \/ \E c \in Clients : ConnectFails(c)
  \/ \E c \in Clients : Abort(c)

Spec == Init /\ [][Next]_vars

\* The system scheduler runs every process that can run and the client
\* programs go on once connected.  Nothing obliges a user to start a client
\* or to interrupt one.
Fairness ==
  /\ \A p \in Procs : WF_vars(ProcStep(p))
  /\ \A c \in Clients : WF_vars(ClientStep(c))

FairSpec == Spec /\ Fairness

-----------------------------------------------------------------------------
(***************************************************************************)
(* Correctness.                                                            *)
(***************************************************************************)

\* Every variable has its type.
TypeOK ==
  /\ pstate \in [Procs -> PStates]
  /\ sock \in [Procs -> Clients \union {NoConn}]
  /\ held \in [Procs -> SUBSET Clients]
  /\ parent \in [Procs -> Procs \union {Reaper}]
  /\ backlog \in Seq(Clients)
  /\ cstate \in [Clients -> CStates]
  /\ prog \in [Clients -> Programs \union {"none"}]
  /\ input \in [Clients -> Commands \union {"none"}]
  /\ reply \in [Clients -> BOOLEAN]
  /\ served \in SUBSET Clients
  /\ forkFailed \in BOOLEAN

\* A process works on a connection between accept() and closeTCPSocket().
Busy(p) == pstate[p] \in {"fork", "parent", "serve", "closing"}

\* A process holds exactly the connection it works on: the close() of the
\* parent and the close() of the child leave no descriptor behind that the
\* next fork() would copy, which would keep a client from ever seeing the
\* end of its connection (server.c:58-67).
NoDescriptorLeak ==
  \A p \in Procs : held[p] = IF Busy(p) THEN {sock[p]} ELSE {}

\* All the processes accept from one listening socket, yet no connection is
\* ever served by two of them, and the only other process that may hold it
\* is the parent on its way to close its copy (server.c:51-67).
ExclusiveService ==
  \A p, q \in Procs : \A c \in held[p] \intersect held[q] :
    p # q => \/ pstate[p] = "parent" /\ pstate[q] \in {"serve", "closing"}
             \/ pstate[q] = "parent" /\ pstate[p] \in {"serve", "closing"}

\* The child that dies on the end of one client's stream (server.c:105-106)
\* takes no other session with it: while fork() has not failed, a client in
\* the middle of its session is queued, about to be given a child, or served.
NobodyAbandoned ==
  ~forkFailed =>
    \A c \in Clients : cstate[c] \in {"connected", "waiting", "answered"} =>
      Queued(c) \/ \E p \in Procs : /\ pstate[p] \in {"fork", "serve"}
                                    /\ sock[p] = c

\* The process table only fills up.  A child that read QUIT becomes one more
\* acceptor and one that died stays as a zombie (server.c:58-76 has neither
\* exit nor wait), so every session ever served keeps its slot.
SlotPerSession ==
  ~forkFailed /\ served # {} =>
    Cardinality({p \in Procs : pstate[p] # "none"}) = 1 + Cardinality(served)

\* Failing to fork for one client costs the server one process, never a
\* session in progress: no step but the client's own departure ends the
\* service of a client whose request was read (server.c:69-73).
ServiceOutlivesForkFailure ==
  [][\A p \in Procs :
       pstate[p] = "serve" /\ pstate'[p] # "serve" =>
         cstate[sock[p]] \in {"closed", "aborted"}]_vars

\* The command was read, what came in answer is not what the client waits
\* for, and the child waits for the next command.
Stalled(c) ==
  /\ cstate[c] = "waiting" /\ input[c] = "none" /\ ~reply[c]
  /\ \E p \in Procs : pstate[p] = "serve" /\ sock[p] = c

\* A fork failed in the last process that accepts.  A child that waits for
\* the next command of a stalled client keeps the listening socket open, with
\* c in its queue, and nobody is left to accept c.
Unheard(c) ==
  /\ forkFailed /\ Queued(c)
  /\ \A p \in Procs : Live(p) => pstate[p] = "serve" /\ Stalled(sock[p])

\* A client that sent its request gets to the end of its program, answered or
\* not, even if the process that accepted it is lost to a failed fork.  Two
\* things stop it for good: its own answer, when it lacks what the client
\* waits for, and such an answer to another client, when that one's child is
\* all that a failed fork has left of the server (server.c:51-73).
SessionEnds ==
  \A c \in Clients : <>[](cstate[c] = "waiting" => Stalled(c) \/ Unheard(c))

\* Even when processes are lost to failed forks, the server closes its end of
\* the connection of every client that left (or dies, and the kernel does);
\* unless it was queued when the last acceptor was lost.
ConnectionsReleased ==
  \A c \in Clients : <>[](ClientGone(c) => ServerClosed(c) \/ Unheard(c))

-----------------------------------------------------------------------------
(***************************************************************************)
(* Every client has a session as ServerSession describes it.               *)
(***************************************************************************)

ChildOf(c) ==
  IF \E p \in Procs : pstate[p] = "serve" /\ sock[p] = c THEN "serving"
  ELSE IF c \in served \/ (cstate[c] # "idle" /\ ServerClosed(c)) THEN "ended"
  ELSE "none"

ClientOf(c) ==
  IF cstate[c] = "idle" THEN "away"
  ELSE IF ClientGone(c) THEN "gone" ELSE cstate[c]

InputOf(c) ==
  IF input[c] \in {"GET", "LIST"} THEN "request" ELSE input[c]

Session(c) == INSTANCE ServerSession WITH
  client <- ClientOf(c),
  child  <- ChildOf(c),
  input  <- InputOf(c)

\* However many clients there are and whatever becomes of the processes, each
\* client deals with one child that reads its request, stays until the client
\* says QUIT or is gone, and never comes back (server.c:51-76).
ImplementsSessions ==
  /\ \A c \in Clients : Session(c)!Init
  /\ [][\A c \in Clients : [Session(c)!Next]_(Session(c)!vars)]_vars

=============================================================================
