-------------------------- MODULE ForkServerProofs --------------------------
(***************************************************************************)
(* Proofs about ForkServer, for any number of process slots and clients    *)
(* and any length of the listening queue.                                  *)
(***************************************************************************)
EXTENDS ForkServer, FiniteSetTheorems, TLAPS

(***************************************************************************)
(* The inductive invariant.  Each part says where a connection or a        *)
(* process can come from, which the properties themselves do not say.      *)
(***************************************************************************)

\* The listening queue holds no connection twice, none that a process already
\* holds and none of a client that was never connected.
QueueOK ==
  /\ \A i, j \in 1..Len(backlog) : backlog[i] = backlog[j] => i = j
  /\ \A i \in 1..Len(backlog) :
       /\ cstate[backlog[i]] # "idle"
       /\ backlog[i] \notin served
       /\ \A p \in Procs : backlog[i] \notin held[p]

\* A held connection is that of a client that connected, and it has been
\* given a child unless its holder has yet to fork.
HolderOK ==
  /\ \A p \in Procs : \A c \in held[p] : cstate[c] # "idle"
  /\ \A c \in served : cstate[c] # "idle"
  /\ \A p \in Procs : pstate[p] = "fork" => sock[p] \notin served

\* Until fork() fails the first process is in the accepting half of the loop
\* (or the server was never opened, and then nothing has happened).
RootOK ==
  ~forkFailed =>
    /\ parent[Root] = Reaper
    /\ \/ pstate[Root] \in {"accept", "fork", "parent"}
       \/ /\ pstate[Root] \in {"boot", "none"}
          /\ \A p \in Procs \ {Root} : pstate[p] = "none"
          /\ \A c \in Clients : cstate[c] \in {"idle", "failed"}
          /\ served = {}

\* Until fork() fails no process loses its parent, because the only processes
\* that die are those in service, which have no children.
FamilyOK ==
  ~forkFailed =>
    /\ \A p \in Procs \ {Root} : pstate[p] # "none" => parent[p] # Reaper
    /\ \A p, q \in Procs :
         pstate[p] \in {"none", "serve", "closing", "zombie"} => parent[q] # p

\* QUIT is the last thing a client sends.
QuitOK == \A c \in Clients : input[c] = "QUIT" => cstate[c] = "closed"

\* Until fork() fails the slots in use are that of the first process, if the
\* server was opened, and one for every client given a child.
UsedSlots == {p \in Procs : pstate[p] # "none"}

SlotOK ==
  ~forkFailed =>
    IF pstate[Root] = "none" THEN served = {}
    ELSE Cardinality(UsedSlots) = 1 + Cardinality(served)

\* A client that never got an answer is one whose connection the server, or
\* the kernel with the last process of it, had closed already.
FailedOK == \A c \in Clients : cstate[c] = "failed" => ServerClosed(c)

-----------------------------------------------------------------------------
(***************************************************************************)
(* Types and descriptors.  The two are proved together: that clientSocket  *)
(* is a connection when a process forks follows from what it holds.        *)
(***************************************************************************)

DescriptorInv == TypeOK /\ NoDescriptorLeak

\* Every way a process ends preserves the types and the descriptors.
LEMMA TerminateDescriptors ==
  ASSUME DescriptorInv, NEW p \in Procs, Terminate(p)
  PROVE  /\ pstate' \in [Procs -> PStates]
         /\ sock' \in [Procs -> Clients \union {NoConn}]
         /\ held' \in [Procs -> SUBSET Clients]
         /\ parent' \in [Procs -> Procs \union {Reaper}]
         /\ backlog' \in Seq(Clients)
         /\ NoDescriptorLeak'
  <1> USE DEF DescriptorInv, TypeOK, Terminate, PStates
  <1>1. /\ pstate' \in [Procs -> PStates]
        /\ sock' \in [Procs -> Clients \union {NoConn}]
        /\ held' \in [Procs -> SUBSET Clients]
        /\ parent' \in [Procs -> Procs \union {Reaper}]
        /\ backlog' \in Seq(Clients)
    OBVIOUS
  <1>2. NoDescriptorLeak'
    BY DEF NoDescriptorLeak, Busy
  <1>3. QED
    BY <1>1, <1>2

LEMMA DescriptorInit == Init => DescriptorInv
  <1> SUFFICES ASSUME Init
               PROVE  DescriptorInv
    OBVIOUS
  <1> USE DEF Init, PStates, CStates, Programs, Commands
  <1>1. pstate \in [Procs -> PStates]
    BY DEF TypeOK
  <1>2. reply \in [Clients -> BOOLEAN] /\ forkFailed \in BOOLEAN
    OBVIOUS
  <1>3. TypeOK
    BY <1>1, <1>2 DEF TypeOK
  <1>4. NoDescriptorLeak
    BY DEF NoDescriptorLeak, Busy
  <1>5. QED
    BY <1>3, <1>4 DEF DescriptorInv

LEMMA DescriptorStep == DescriptorInv /\ [Next]_vars => DescriptorInv'
  <1> SUFFICES ASSUME DescriptorInv, [Next]_vars
               PROVE  DescriptorInv'
    OBVIOUS
  <1> USE DEF DescriptorInv, TypeOK, NoDescriptorLeak, Busy, PStates, CStates,
              Commands, Programs, procVars, clientVars
  <1>1. CASE OpenServer
    BY <1>1 DEF OpenServer
  <1>2. CASE OpenServerFails
    <2>1. Root \in Procs /\ Terminate(Root) /\ UNCHANGED <<clientVars, served, forkFailed>>
      BY <1>2, ProcsAssumption DEF OpenServerFails
    <2>2. QED
      BY <2>1, TerminateDescriptors
  <1>3. ASSUME NEW p \in Procs, ProcStep(p)
        PROVE  DescriptorInv'
    <2>1. CASE WaitConnection(p)
      <3>1. Head(backlog) \in Clients /\ Tail(backlog) \in Seq(Clients)
        BY <2>1 DEF WaitConnection
      <3>2. TypeOK'
        BY <2>1, <3>1 DEF WaitConnection
      <3>3. NoDescriptorLeak'
        BY <2>1, <3>1 DEF WaitConnection
      <3>4. QED
        BY <3>2, <3>3
    <2>2. ASSUME NEW q \in Procs, Fork(p, q)
          PROVE  DescriptorInv'
      BY <2>2 DEF Fork
    <2>3. CASE ForkFails(p)
      BY <2>3, TerminateDescriptors DEF ForkFails
    <2>4. CASE ParentClose(p)
      BY <2>4 DEF ParentClose
    <2>5. CASE AnswerCommand(p)
      <3>1. input' \in [Clients -> Commands \union {"none"}]
        BY <2>5 DEF AnswerCommand
      <3>2. CASE UNCHANGED procVars
        <4>1. reply' \in [Clients -> BOOLEAN]
          BY <2>5 DEF AnswerCommand
        <4>2. QED
          BY <2>5, <3>1, <3>2, <4>1 DEF AnswerCommand, procVars
      <3>3. CASE Terminate(p) /\ UNCHANGED reply
        BY <2>5, <3>1, <3>3, TerminateDescriptors DEF AnswerCommand
      <3>4. QED
        BY <2>5, <3>2, <3>3 DEF AnswerCommand
    <2>6. CASE ReadQuit(p)
      BY <2>6 DEF ReadQuit
    <2>7. CASE ReadEndOfStream(p)
      BY <2>7, TerminateDescriptors DEF ReadEndOfStream
    <2>8. CASE ChildClose(p)
      BY <2>8 DEF ChildClose
    <2>9. QED
      BY <1>3, <2>1, <2>2, <2>3, <2>4, <2>5, <2>6, <2>7, <2>8 DEF ProcStep
  <1>4. ASSUME NEW c \in Clients, NEW g \in Programs, Connect(c, g)
        PROVE  DescriptorInv'
    BY <1>4 DEF Connect
  <1>5. ASSUME NEW c \in Clients, ClientStep(c)
        PROVE  DescriptorInv'
    <2>1. CASE SendRequest(c)
      BY <2>1 DEF SendRequest
    <2>2. CASE ReadReply(c) \/ ReadNoReply(c)
      BY <2>2 DEF ReadReply, ReadNoReply
    <2>3. CASE CloseClient(c)
      BY <2>3 DEF CloseClient
    <2>4. QED
      BY <1>5, <2>1, <2>2, <2>3 DEF ClientStep
  <1>6. ASSUME NEW c \in Clients, ConnectFails(c) \/ Abort(c)
        PROVE  DescriptorInv'
    BY <1>6 DEF ConnectFails, Abort
  <1>7. CASE UNCHANGED vars
    BY <1>7 DEF vars
  <1>8. QED
    BY <1>1, <1>2, <1>3, <1>4, <1>5, <1>6, <1>7 DEF Next

LEMMA DescriptorInvariant == Spec => []DescriptorInv
  BY DescriptorInit, DescriptorStep, PTL DEF Spec

\* The variables always have their types: clientSocket is a connection
\* whenever start_server forks for it, and the queue holds only connections.
THEOREM TypeCorrect == Spec => []TypeOK
  BY DescriptorInvariant, PTL DEF DescriptorInv

\* No process of the server ever keeps a descriptor of a connection it is not
\* working on, whatever the order of accepts, forks, closes and deaths.
THEOREM DescriptorsClosed == Spec => []NoDescriptorLeak
  BY DescriptorInvariant, PTL DEF DescriptorInv

-----------------------------------------------------------------------------
(***************************************************************************)
(* One process per connection.  A connection moves from the listening      *)
(* queue to one acceptor and from there to one child; QueueOK and HolderOK *)
(* say that it is never in two of those places.                            *)
(***************************************************************************)

ServiceInv == DescriptorInv /\ QueueOK /\ HolderOK /\ ExclusiveService

LEMMA ServiceInit == Init => ServiceInv
  <1> SUFFICES ASSUME Init
               PROVE  ServiceInv
    OBVIOUS
  <1>1. DescriptorInv
    BY DescriptorInit
  <1>2. QueueOK /\ HolderOK /\ ExclusiveService
    BY DEF Init, QueueOK, HolderOK, ExclusiveService
  <1>3. QED
    BY <1>1, <1>2 DEF ServiceInv

\* What every step that ends a process leaves of the connections.
LEMMA TerminateService ==
  ASSUME ServiceInv, NEW p \in Procs, Terminate(p),
         served' = served,
         \A c \in Clients : cstate'[c] = "idle" <=> cstate[c] = "idle"
  PROVE  QueueOK' /\ HolderOK' /\ ExclusiveService'
  <1> USE DEF ServiceInv, DescriptorInv, TypeOK
  <1>1. /\ \A q \in Procs : held'[q] \subseteq held[q]
        /\ backlog' = backlog \/ backlog' = <<>>
        /\ \A q \in Procs : q # p /\ held[q] # {} =>
             pstate'[q] = pstate[q] /\ sock'[q] = sock[q]
        /\ \A q \in Procs : pstate'[q] = "fork" =>
             pstate[q] = "fork" /\ sock'[q] = sock[q]
        /\ held'[p] = {}
    BY DEF Terminate, NoDescriptorLeak, Busy
  <1>2. QueueOK'
    <2>1. CASE backlog' = <<>>
      BY <2>1 DEF QueueOK
    <2>2. CASE backlog' = backlog
      <3>1. \A i \in 1..Len(backlog) : backlog[i] \in Clients
        OBVIOUS
      <3>2. QED
        BY <1>1, <2>2, <3>1 DEF QueueOK
    <2>3. QED
      BY <1>1, <2>1, <2>2
  <1>3. HolderOK'
    BY <1>1 DEF HolderOK
  <1>4. ExclusiveService'
    BY <1>1 DEF ExclusiveService
  <1>5. QED
    BY <1>2, <1>3, <1>4

\* What a client's own step leaves of them: no connection moves.
LEMMA ClientService ==
  ASSUME ServiceInv,
         UNCHANGED <<procVars, served>>,
         \A c \in Clients : cstate'[c] = "idle" => cstate[c] = "idle"
  PROVE  QueueOK' /\ HolderOK' /\ ExclusiveService'
  <1> USE DEF ServiceInv, DescriptorInv, TypeOK, procVars
  <1>1. \A i \in 1..Len(backlog) : backlog[i] \in Clients
    OBVIOUS
  <1>2. QueueOK'
    BY <1>1 DEF QueueOK
  <1>3. HolderOK'
    BY DEF HolderOK
  <1>4. ExclusiveService'
    BY DEF ExclusiveService
  <1>5. QED
    BY <1>2, <1>3, <1>4

LEMMA ServiceStep == ServiceInv /\ [Next]_vars => ServiceInv'
  <1> SUFFICES ASSUME ServiceInv, [Next]_vars
               PROVE  ServiceInv'
    OBVIOUS
  <1>0. DescriptorInv'
    BY DescriptorStep DEF ServiceInv
  <1> SUFFICES QueueOK' /\ HolderOK' /\ ExclusiveService'
    BY <1>0 DEF ServiceInv
  <1>a. TypeOK /\ NoDescriptorLeak
    BY DEF ServiceInv, DescriptorInv
  <1>b. QueueOK /\ HolderOK /\ ExclusiveService
    BY DEF ServiceInv
  <1>1. CASE OpenServer
    BY <1>1, <1>a, <1>b, ProcsAssumption
       DEF OpenServer, clientVars, TypeOK, NoDescriptorLeak, Busy, QueueOK,
           HolderOK, ExclusiveService
  <1>2. CASE OpenServerFails
    BY <1>2, TerminateService, ProcsAssumption
       DEF OpenServerFails, clientVars
  <1>3. ASSUME NEW p \in Procs, ProcStep(p)
        PROVE  QueueOK' /\ HolderOK' /\ ExclusiveService'
    <2>1. CASE WaitConnection(p)
      <3> DEFINE c == Head(backlog)
      <3>1. /\ c = backlog[1] /\ c \in Clients
            /\ Len(backlog) \in Nat \ {0} /\ Len(backlog') = Len(backlog) - 1
            /\ \A i \in 1..Len(backlog') : backlog'[i] = backlog[i + 1]
        BY <1>a, <2>1 DEF WaitConnection, TypeOK
      <3>2. /\ \A i \in 1..Len(backlog') : backlog'[i] # c
            /\ \A q \in Procs : c \notin held[q]
            /\ c \notin served /\ cstate[c] # "idle"
        BY <1>b, <3>1 DEF QueueOK
      <3>3. /\ held' = [held EXCEPT ![p] = @ \union {c}]
            /\ sock' = [sock EXCEPT ![p] = c]
            /\ pstate' = [pstate EXCEPT ![p] = "fork"]
            /\ UNCHANGED <<cstate, served>>
        BY <2>1 DEF WaitConnection, clientVars
      <3>4. held[p] = {} /\ held'[p] = {c}
        BY <1>a, <2>1, <3>3 DEF WaitConnection, TypeOK, NoDescriptorLeak, Busy
      <3>5. QueueOK'
        <4>1. \A i, j \in 1..Len(backlog') : backlog'[i] = backlog'[j] => i = j
          BY <1>b, <3>1 DEF QueueOK
        <4>2. ASSUME NEW i \in 1..Len(backlog')
              PROVE  /\ cstate[backlog'[i]] # "idle"
                     /\ backlog'[i] \notin served
                     /\ \A q \in Procs : backlog'[i] \notin held[q]
          BY <1>b, <3>1 DEF QueueOK
        <4>3. \A i \in 1..Len(backlog') : \A q \in Procs :
                 backlog'[i] \notin held'[q]
          BY <1>a, <3>2, <3>3, <4>2 DEF TypeOK
        <4>4. QED
          BY <3>3, <4>1, <4>2, <4>3 DEF QueueOK
      <3>6. HolderOK'
        BY <1>a, <1>b, <3>2, <3>3 DEF HolderOK, TypeOK
      <3>7. ExclusiveService'
        BY <1>a, <1>b, <3>2, <3>3, <3>4 DEF ExclusiveService, TypeOK
      <3>8. QED
        BY <3>5, <3>6, <3>7
    <2>2. ASSUME NEW q \in Procs, Fork(p, q)
          PROVE  QueueOK' /\ HolderOK' /\ ExclusiveService'
      <3>1. p # q /\ held[p] = {sock[p]} /\ held[q] = {} /\ sock[p] \in Clients
        BY <1>a, <2>2 DEF Fork, TypeOK, NoDescriptorLeak, Busy
      <3>2. \A r \in Procs \ {p} : sock[p] \notin held[r]
        BY <1>b, <2>2, <3>1 DEF Fork, ExclusiveService
      <3>3. \A i \in 1..Len(backlog) : backlog[i] # sock[p]
        BY <1>b, <3>1 DEF QueueOK
      <3>4. QueueOK'
        BY <1>a, <1>b, <2>2, <3>1, <3>3 DEF Fork, QueueOK, clientVars, TypeOK
      <3>5. HolderOK'
        <4>1. \A r \in Procs \ {p, q} : pstate[r] = "fork" => sock[r] # sock[p]
          BY <1>a, <3>2 DEF NoDescriptorLeak, Busy
        <4>2. cstate[sock[p]] # "idle"
          BY <1>b, <3>1 DEF HolderOK
        <4>3. QED
          BY <1>a, <1>b, <2>2, <3>1, <4>1, <4>2
             DEF Fork, HolderOK, clientVars, TypeOK
      <3>6. ExclusiveService'
        <4>1. held' = [held EXCEPT ![q] = {sock[p]}]
          BY <2>2, <3>1 DEF Fork
        <4>2. pstate' = [pstate EXCEPT ![p] = "parent", ![q] = "serve"]
          BY <2>2 DEF Fork
        <4>3. QED
          BY <1>a, <1>b, <3>1, <3>2, <4>1, <4>2 DEF ExclusiveService, TypeOK
      <3>7. QED
        BY <3>4, <3>5, <3>6
    <2>3. CASE ForkFails(p)
      BY <2>3, TerminateService DEF ForkFails, clientVars
    <2>4. CASE ParentClose(p) \/ ChildClose(p)
      <3>1. /\ \A r \in Procs : held'[r] \subseteq held[r]
            /\ held'[p] = {}
            /\ pstate' = [pstate EXCEPT ![p] = "accept"]
            /\ UNCHANGED <<sock, backlog, cstate, served>>
        BY <1>a, <2>4
           DEF ParentClose, ChildClose, clientVars, TypeOK, NoDescriptorLeak,
               Busy
      <3>2. QED
        BY <1>a, <1>b, <3>1 DEF QueueOK, HolderOK, ExclusiveService, TypeOK
    <2>5. CASE AnswerCommand(p)
      <3>1. CASE UNCHANGED procVars
        BY <2>5, <3>1, ClientService DEF AnswerCommand
      <3>2. CASE Terminate(p)
        BY <2>5, <3>2, TerminateService DEF AnswerCommand
      <3>3. QED
        BY <2>5, <3>1, <3>2 DEF AnswerCommand
    <2>6. CASE ReadQuit(p)
      <3>1. UNCHANGED <<sock, held, backlog, cstate, served>>
        BY <2>6 DEF ReadQuit
      <3>2. pstate[p] = "serve" /\ pstate' = [pstate EXCEPT ![p] = "closing"]
        BY <2>6 DEF ReadQuit
      <3>3. QED
        BY <1>a, <1>b, <3>1, <3>2
           DEF QueueOK, HolderOK, ExclusiveService, TypeOK
    <2>7. CASE ReadEndOfStream(p)
      BY <2>7, TerminateService DEF ReadEndOfStream, clientVars
    <2>8. QED
      BY <1>3, <2>1, <2>2, <2>3, <2>4, <2>5, <2>6, <2>7 DEF ProcStep
  <1>4. ASSUME NEW c \in Clients, NEW g \in Programs, Connect(c, g)
        PROVE  QueueOK' /\ HolderOK' /\ ExclusiveService'
    <2>1. /\ c \notin served
          /\ \A q \in Procs : c \notin held[q]
          /\ \A i \in 1..Len(backlog) : backlog[i] # c
      BY <1>b, <1>4 DEF Connect, QueueOK, HolderOK
    <2>2. /\ UNCHANGED <<pstate, sock, held, served>>
          /\ cstate' = [cstate EXCEPT ![c] = "connected"]
      BY <1>4 DEF Connect
    <2>3. /\ Len(backlog') = Len(backlog) + 1 /\ Len(backlog) \in Nat
          /\ \A i \in 1..Len(backlog) : backlog'[i] = backlog[i]
          /\ backlog'[Len(backlog) + 1] = c
          /\ \A i \in 1..Len(backlog) : backlog[i] \in Clients
      BY <1>a, <1>4 DEF Connect, TypeOK
    <2>4. QueueOK'
      <3>1. \A i, j \in 1..Len(backlog') : backlog'[i] = backlog'[j] => i = j
        BY <1>b, <2>1, <2>3 DEF QueueOK
      <3>2. \A i \in 1..Len(backlog') :
              /\ backlog'[i] \notin served
              /\ \A q \in Procs : backlog'[i] \notin held[q]
        BY <1>b, <2>1, <2>3 DEF QueueOK
      <3>3. \A i \in 1..Len(backlog') : cstate'[backlog'[i]] # "idle"
        BY <1>a, <1>b, <2>2, <2>3 DEF QueueOK, TypeOK
      <3>4. QED
        BY <2>2, <3>1, <3>2, <3>3 DEF QueueOK
    <2>5. HolderOK' /\ ExclusiveService'
      BY <1>a, <1>b, <2>2 DEF HolderOK, ExclusiveService, TypeOK
    <2>6. QED
      BY <2>4, <2>5
  <1>5. ASSUME NEW c \in Clients,
               ClientStep(c) \/ ConnectFails(c) \/ Abort(c)
        PROVE  QueueOK' /\ HolderOK' /\ ExclusiveService'
    <2>1. /\ UNCHANGED <<procVars, served>>
          /\ \E s \in CStates \ {"idle"} : cstate' = [cstate EXCEPT ![c] = s]
      BY <1>5 DEF ClientStep, SendRequest, ReadReply, ReadNoReply,
                  CloseClient, ConnectFails, Abort, CStates
    <2>2. \A d \in Clients : cstate'[d] = "idle" => cstate[d] = "idle"
      BY <1>a, <2>1 DEF TypeOK
    <2>3. QED
      BY <2>1, <2>2, ClientService
  <1>6. CASE UNCHANGED vars
    BY <1>6, ClientService DEF vars, procVars
  <1>7. QED
    BY <1>1, <1>2, <1>3, <1>4, <1>5, <1>6 DEF Next

LEMMA ServiceInvariant == Spec => []ServiceInv
  BY ServiceInit, ServiceStep, PTL DEF Spec

\* However many processes accept from the one listening socket, no connection
\* is ever served by two of them.
THEOREM OneServerPerConnection == Spec => []ExclusiveService
  BY ServiceInvariant, PTL DEF ServiceInv

-----------------------------------------------------------------------------
(***************************************************************************)
(* Nobody is abandoned.  Until fork() fails the first process lives, so    *)
(* the listening queue survives every death, and a process that dies is a  *)
(* childless one whose own client is gone.                                 *)
(***************************************************************************)

LifeInv ==
  /\ ServiceInv
  /\ RootOK
  /\ FamilyOK
  /\ QuitOK
  /\ FailedOK
  /\ NobodyAbandoned
  /\ SlotOK

LEMMA LifeInit == Init => LifeInv
  <1> SUFFICES ASSUME Init
               PROVE  LifeInv
    OBVIOUS
  <1>1. ServiceInv
    BY ServiceInit
  <1>2. RootOK /\ FamilyOK /\ QuitOK /\ FailedOK /\ NobodyAbandoned
    BY ProcsAssumption
       DEF Init, RootOK, FamilyOK, QuitOK, FailedOK, NobodyAbandoned
  <1>3. SlotOK
    <2>1. UsedSlots = {Root}
      BY ProcsAssumption DEF Init, UsedSlots
    <2>2. Cardinality(UsedSlots) = 1 /\ Cardinality(served) = 0
      BY <2>1, FS_Singleton, FS_EmptySet DEF Init
    <2>3. QED
      BY <2>2 DEF SlotOK, Init
  <1>4. QED
    BY <1>1, <1>2, <1>3 DEF LifeInv

\* The only way a process dies before fork() has failed: in service, with its
\* client gone.  It becomes a zombie and nothing else changes.
LEMMA DeathInService ==
  ASSUME LifeInv, NEW p \in Procs, pstate[p] = "serve", Terminate(p),
         ~forkFailed
  PROVE  /\ p # Root
         /\ pstate' = [pstate EXCEPT ![p] = "zombie"]
         /\ UNCHANGED <<parent, backlog>>
         /\ sock' = [sock EXCEPT ![p] = NoConn]
         /\ held' = [held EXCEPT ![p] = {}]
  <1> USE DEF LifeInv, ServiceInv, DescriptorInv, TypeOK
  <1>1. p # Root /\ pstate[Root] \in {"accept", "fork", "parent"}
    BY ProcsAssumption DEF RootOK
  <1>2. parent[p] # Reaper /\ \A q \in Procs : parent[q] # p
    BY <1>1 DEF FamilyOK
  <1>3. pstate' = [pstate EXCEPT ![p] = "zombie"]
    BY <1>2 DEF Terminate
  <1>4. parent' = parent
    BY <1>2 DEF Terminate
  <1>5. backlog' = backlog
    BY <1>1, ProcsAssumption DEF Terminate, Live
  <1>6. QED
    BY <1>1, <1>3, <1>4, <1>5 DEF Terminate

\* The part of the invariant that is about processes is kept by every step
\* that leaves the processes and their history alone.
LEMMA SameProcesses ==
  ASSUME LifeInv, UNCHANGED <<pstate, parent, served, forkFailed>>,
         \A c \in Clients : cstate'[c] \notin {"idle", "failed"} =>
           cstate[c] \notin {"idle", "failed"}
  PROVE  RootOK' /\ FamilyOK' /\ SlotOK'
  <1>1. RootOK'
    BY DEF LifeInv, ServiceInv, DescriptorInv, TypeOK, CStates, RootOK
  <1>2. FamilyOK'
    BY DEF LifeInv, FamilyOK
  <1>3. SlotOK'
    BY DEF LifeInv, SlotOK, UsedSlots
  <1>4. QED
    BY <1>1, <1>2, <1>3

\* A connection the server has closed stays closed when no process and no
\* queue gains one that was not in one of them before.
LEMMA ClosedStaysClosed ==
  ASSUME FailedOK,
         \A c \in Clients : ServerClosed(c) => ServerClosed(c)',
         \A c \in Clients : cstate'[c] = "failed" =>
           cstate[c] = "failed" \/ ServerClosed(c)'
  PROVE  FailedOK'
  BY DEF FailedOK

LEMMA DeathStep ==
  ASSUME LifeInv, NEW p \in Procs, pstate[p] = "serve", ClientGone(sock[p]),
         Terminate(p), UNCHANGED <<cstate, served, forkFailed>>,
         \A c \in Clients : input'[c] \in {input[c], "none"}
  PROVE  RootOK' /\ FamilyOK' /\ QuitOK' /\ FailedOK' /\ NobodyAbandoned'
         /\ SlotOK'
  <1> USE DEF LifeInv, ServiceInv, DescriptorInv, TypeOK
  <1>1. QuitOK'
    BY DEF QuitOK
  <1>2. FailedOK'
    <2>1. /\ \A q \in Procs : held'[q] \subseteq held[q]
          /\ backlog' = backlog \/ backlog' = <<>>
      BY DEF Terminate
    <2>2. \A c \in Clients : ServerClosed(c) => ServerClosed(c)'
      BY <2>1 DEF ServerClosed, Queued
    <2>3. QED
      BY <2>2, ClosedStaysClosed
  <1>3. CASE forkFailed
    BY <1>1, <1>2, <1>3 DEF RootOK, FamilyOK, NobodyAbandoned, SlotOK
  <1>4. CASE ~forkFailed
    <2>1. /\ p # Root
          /\ pstate' = [pstate EXCEPT ![p] = "zombie"]
          /\ UNCHANGED <<parent, backlog>>
          /\ sock' = [sock EXCEPT ![p] = NoConn]
      BY <1>4, DeathInService
    <2>2. RootOK'
      BY <1>4, <2>1, ProcsAssumption DEF RootOK
    <2>3. FamilyOK'
      BY <1>4, <2>1 DEF FamilyOK
    <2>4. NobodyAbandoned'
      <3>1. ASSUME NEW c \in Clients,
                   cstate[c] \in {"connected", "waiting", "answered"}
            PROVE  Queued(c)' \/ \E q \in Procs : /\ pstate'[q] \in {"fork", "serve"}
                                                  /\ sock'[q] = c
        <4>1. c # sock[p]
          BY <3>1 DEF ClientGone
        <4>2. CASE Queued(c)
          BY <2>1, <4>2 DEF Queued
        <4>3. ASSUME NEW q \in Procs, pstate[q] \in {"fork", "serve"},
                     sock[q] = c
              PROVE  pstate'[q] \in {"fork", "serve"} /\ sock'[q] = c
          BY <2>1, <4>1, <4>3
        <4>4. QED
          BY <1>4, <3>1, <4>2, <4>3 DEF NobodyAbandoned
      <3>2. QED
        BY <3>1 DEF NobodyAbandoned
    <2>5. SlotOK'
      <3>1. UsedSlots' = UsedSlots
        BY <2>1 DEF UsedSlots
      <3>2. QED
        BY <1>4, <2>1, <3>1, ProcsAssumption DEF SlotOK
    <2>6. QED
      BY <1>1, <1>2, <2>2, <2>3, <2>4, <2>5
  <1>5. QED
    BY <1>3, <1>4

\* A new child takes one free slot and one client not served before.
LEMMA ForkSlots ==
  ASSUME LifeInv, NEW p \in Procs, NEW q \in Procs, Fork(p, q)
  PROVE  /\ q # Root \/ forkFailed
         /\ Cardinality(UsedSlots') = Cardinality(UsedSlots) + 1
         /\ Cardinality(served') = Cardinality(served) + 1
         /\ Cardinality(UsedSlots) \in Nat /\ Cardinality(served) \in Nat
  <1> USE DEF LifeInv, ServiceInv, DescriptorInv, TypeOK
  <1>1. q # Root \/ forkFailed
    BY ProcsAssumption DEF RootOK, Fork
  <1>2. IsFiniteSet(UsedSlots) /\ IsFiniteSet(served)
    BY ProcsAssumption, ClientsAssumption, FS_Subset DEF UsedSlots
  <1>3. UsedSlots' = UsedSlots \union {q} /\ q \notin UsedSlots
    BY DEF Fork, UsedSlots
  <1>4. served' = served \union {sock[p]} /\ sock[p] \notin served
    BY DEF Fork, HolderOK
  <1>5. /\ Cardinality(UsedSlots') = Cardinality(UsedSlots) + 1
        /\ Cardinality(served') = Cardinality(served) + 1
    BY <1>2, <1>3, <1>4, FS_AddElement
  <1>6. QED
    BY <1>1, <1>2, <1>5, FS_CardinalityType

LEMMA LifeStep == LifeInv /\ [Next]_vars => LifeInv'
  <1> SUFFICES ASSUME LifeInv, [Next]_vars
               PROVE  LifeInv'
    OBVIOUS
  <1>0. ServiceInv'
    BY ServiceStep DEF LifeInv
  <1> DEFINE Goal == RootOK /\ FamilyOK /\ QuitOK /\ FailedOK
                     /\ NobodyAbandoned /\ SlotOK
  <1> SUFFICES Goal'
    BY <1>0 DEF LifeInv
  <1>a. TypeOK /\ NoDescriptorLeak
    BY DEF LifeInv, ServiceInv, DescriptorInv
  <1>b. QueueOK /\ HolderOK /\ ExclusiveService
    BY DEF LifeInv, ServiceInv
  <1>c. RootOK /\ FamilyOK /\ QuitOK /\ FailedOK /\ NobodyAbandoned /\ SlotOK
    BY DEF LifeInv
  <1>1. CASE OpenServer
    <2>1. /\ pstate[Root] = "boot"
          /\ pstate' = [pstate EXCEPT ![Root] = "accept"]
          /\ UNCHANGED <<sock, held, parent, backlog, cstate, input, served,
                         forkFailed>>
      BY <1>1 DEF OpenServer, clientVars
    <2>2. RootOK' /\ FamilyOK'
      BY <1>a, <1>c, <2>1, ProcsAssumption DEF TypeOK, RootOK, FamilyOK
    <2>3. QuitOK' /\ FailedOK'
      BY <1>c, <2>1 DEF QuitOK, FailedOK, ServerClosed, Queued
    <2>4. NobodyAbandoned'
      BY <1>a, <1>c, <2>1, ProcsAssumption
         DEF TypeOK, NobodyAbandoned, Queued
    <2>5. SlotOK'
      <3>1. UsedSlots' = UsedSlots
        BY <1>a, <2>1, ProcsAssumption DEF TypeOK, UsedSlots
      <3>2. QED
        BY <1>a, <1>c, <2>1, <3>1, ProcsAssumption DEF TypeOK, SlotOK
    <2>6. QED
      BY <2>2, <2>3, <2>4, <2>5
  <1>2. CASE OpenServerFails
    <2>1. /\ pstate[Root] = "boot" /\ Terminate(Root)
          /\ UNCHANGED <<cstate, input, served, forkFailed>>
      BY <1>2 DEF OpenServerFails, clientVars
    <2>2. FailedOK' /\ QuitOK'
      <3>1. /\ \A q \in Procs : held'[q] \subseteq held[q]
            /\ backlog' = backlog \/ backlog' = <<>>
        BY <1>a, <2>1 DEF Terminate, TypeOK
      <3>2. \A c \in Clients : ServerClosed(c) => ServerClosed(c)'
        BY <1>a, <3>1 DEF ServerClosed, Queued, TypeOK
      <3>3. QED
        BY <1>c, <2>1, <3>2, ClosedStaysClosed DEF QuitOK
    <2>3. ASSUME ~forkFailed
          PROVE  /\ parent[Root] = Reaper
                 /\ \A q \in Procs \ {Root} : pstate[q] = "none"
                 /\ \A c \in Clients : cstate[c] \in {"idle", "failed"}
                 /\ served = {}
      BY <1>c, <2>1, <2>3 DEF RootOK
    <2>4. ~forkFailed => /\ \A q \in Procs : pstate'[q] = "none"
                         /\ parent'[Root] = Reaper
                         /\ \A q, r \in Procs : parent'[q] # Root
      BY <1>a, <2>1, <2>3, ProcsAssumption DEF Terminate, TypeOK
    <2>5. RootOK' /\ NobodyAbandoned' /\ SlotOK'
      BY <2>1, <2>3, <2>4, ProcsAssumption DEF RootOK, NobodyAbandoned, SlotOK
    <2>6. FamilyOK'
      <3>1. \A q, r \in Procs : parent'[q] = r => parent[q] = r
        BY <1>a, <2>1, ProcsAssumption DEF Terminate, TypeOK
      <3>2. QED
        BY <1>c, <2>1, <2>3, <2>4, <3>1 DEF FamilyOK
    <2>7. QED
      BY <2>2, <2>5, <2>6
  <1>3. ASSUME NEW p \in Procs, ProcStep(p)
        PROVE  Goal'
    <2>1. CASE WaitConnection(p)
      <3> DEFINE d == Head(backlog)
      <3>1. /\ d = backlog[1] /\ d \in Clients /\ Queued(d)
            /\ Len(backlog) \in Nat \ {0} /\ Len(backlog') = Len(backlog) - 1
            /\ \A i \in 1..Len(backlog') : backlog'[i] = backlog[i + 1]
        BY <1>a, <2>1 DEF WaitConnection, TypeOK, Queued
      <3>2. /\ pstate[p] = "accept"
            /\ held' = [held EXCEPT ![p] = @ \union {d}]
            /\ sock' = [sock EXCEPT ![p] = d]
            /\ pstate' = [pstate EXCEPT ![p] = "fork"]
            /\ UNCHANGED <<parent, cstate, input, served, forkFailed>>
        BY <2>1 DEF WaitConnection, clientVars
      <3>3. \A c \in Clients : Queued(c)' \/ c = d <=> Queued(c)
        <4>1. ASSUME NEW c \in Clients, Queued(c)'
              PROVE  Queued(c)
          <5>1. PICK i \in 1..Len(backlog') : backlog'[i] = c
            BY <4>1 DEF Queued
          <5>2. i + 1 \in 1..Len(backlog) /\ backlog[i + 1] = c
            BY <3>1, <5>1
          <5>3. QED
            BY <5>2 DEF Queued
        <4>2. ASSUME NEW c \in Clients, Queued(c), c # d
              PROVE  Queued(c)'
          <5>1. PICK i \in 1..Len(backlog) : backlog[i] = c
            BY <4>2 DEF Queued
          <5>2. i - 1 \in 1..Len(backlog') /\ backlog'[i - 1] = c
            BY <3>1, <4>2, <5>1
          <5>3. QED
            BY <5>2 DEF Queued
        <4>3. QED
          BY <3>1, <4>1, <4>2
      <3>4. RootOK' /\ FamilyOK'
        BY <1>a, <1>c, <3>2, ProcsAssumption DEF TypeOK, RootOK, FamilyOK
      <3>5. QuitOK'
        BY <1>c, <3>2 DEF QuitOK
      <3>6. FailedOK'
        <4>1. \A c \in Clients : ServerClosed(c) => ServerClosed(c)'
          BY <1>a, <3>1, <3>2, <3>3 DEF ServerClosed, TypeOK
        <4>2. QED
          BY <1>c, <3>2, <4>1, ClosedStaysClosed
      <3>7. NobodyAbandoned'
        BY <1>a, <1>c, <3>2, <3>3 DEF TypeOK, NobodyAbandoned
      <3>8. SlotOK'
        <4>1. UsedSlots' = UsedSlots
          BY <1>a, <3>2 DEF TypeOK, UsedSlots
        <4>2. QED
          BY <1>a, <1>c, <3>2, <4>1, ProcsAssumption DEF TypeOK, SlotOK
      <3>9. QED
        BY <3>4, <3>5, <3>6, <3>7, <3>8
    <2>2. ASSUME NEW q \in Procs, Fork(p, q)
          PROVE  Goal'
      <3>1. /\ pstate[p] = "fork" /\ pstate[q] = "none"
            /\ pstate' = [pstate EXCEPT ![p] = "parent", ![q] = "serve"]
            /\ sock' = [sock EXCEPT ![q] = sock[p]]
            /\ held' = [held EXCEPT ![q] = held[p]]
            /\ parent' = [parent EXCEPT ![q] = p]
            /\ UNCHANGED <<backlog, cstate, input, forkFailed>>
        BY <2>2 DEF Fork, clientVars
      <3>2. q # Root \/ forkFailed
        BY <2>2, ForkSlots
      <3>3. RootOK'
        BY <1>a, <1>c, <3>1, <3>2, ProcsAssumption DEF TypeOK, RootOK
      <3>4. FamilyOK'
        BY <1>a, <1>c, <3>1, <3>2, ProcsAssumption DEF TypeOK, FamilyOK
      <3>5. QuitOK'
        BY <1>c, <3>1 DEF QuitOK
      <3>6. FailedOK'
        <4>1. \A c \in Clients : ServerClosed(c) => ServerClosed(c)'
          BY <1>a, <3>1 DEF ServerClosed, Queued, TypeOK
        <4>2. QED
          BY <1>c, <3>1, <4>1, ClosedStaysClosed
      <3>7. NobodyAbandoned'
        <4>1. \A r \in Procs \ {p} : pstate[r] \in {"fork", "serve"} =>
                pstate'[r] = pstate[r] /\ sock'[r] = sock[r]
          BY <1>a, <3>1 DEF TypeOK
        <4>2. pstate'[q] = "serve" /\ sock'[q] = sock[p]
          BY <1>a, <3>1 DEF TypeOK
        <4>3. ASSUME NEW c \in Clients, ~forkFailed,
                     cstate[c] \in {"connected", "waiting", "answered"}
              PROVE  Queued(c)' \/ \E r \in Procs :
                       pstate'[r] \in {"fork", "serve"} /\ sock'[r] = c
          <5>1. CASE Queued(c)
            BY <3>1, <5>1 DEF Queued
          <5>2. ASSUME NEW r \in Procs, sock[r] = c,
                       pstate[r] \in {"fork", "serve"}
                PROVE  \E s \in Procs :
                         pstate'[s] \in {"fork", "serve"} /\ sock'[s] = c
            <6>1. CASE r = p
              BY <4>2, <5>2, <6>1
            <6>2. CASE r # p
              BY <4>1, <5>2, <6>2
            <6>3. QED
              BY <6>1, <6>2
          <5>3. QED
            BY <1>c, <4>3, <5>1, <5>2 DEF NobodyAbandoned
        <4>4. QED
          BY <3>1, <4>3 DEF NobodyAbandoned
      <3>8. SlotOK'
        <4>1. ~forkFailed => pstate'[Root] # "none" /\ pstate[Root] # "none"
          BY <1>a, <1>c, <3>1, <3>2, ProcsAssumption DEF TypeOK, RootOK
        <4>2. /\ Cardinality(UsedSlots') = Cardinality(UsedSlots) + 1
              /\ Cardinality(served') = Cardinality(served) + 1
              /\ Cardinality(UsedSlots) \in Nat /\ Cardinality(served) \in Nat
          BY <2>2, ForkSlots
        <4>3. QED
          BY <1>c, <3>1, <4>1, <4>2 DEF SlotOK
      <3>9. QED
        BY <3>3, <3>4, <3>5, <3>6, <3>7, <3>8
    <2>3. CASE ForkFails(p)
      <3>1. /\ forkFailed' = TRUE /\ Terminate(p)
            /\ UNCHANGED <<cstate, input>>
        BY <2>3 DEF ForkFails, clientVars
      <3>2. /\ \A q \in Procs : held'[q] \subseteq held[q]
            /\ backlog' = backlog \/ backlog' = <<>>
        BY <1>a, <3>1 DEF Terminate, TypeOK
      <3>3. \A c \in Clients : ServerClosed(c) => ServerClosed(c)'
        BY <1>a, <3>2 DEF ServerClosed, Queued, TypeOK
      <3>4. QED
        BY <1>c, <3>1, <3>3, ClosedStaysClosed
           DEF RootOK, FamilyOK, QuitOK, NobodyAbandoned, SlotOK
    <2>4. CASE ParentClose(p) \/ ChildClose(p)
      <3>1. /\ pstate[p] \in {"parent", "closing"}
            /\ held' = [held EXCEPT ![p] = @ \ {sock[p]}]
            /\ pstate' = [pstate EXCEPT ![p] = "accept"]
            /\ UNCHANGED <<sock, parent, backlog, cstate, input, served,
                           forkFailed>>
        BY <2>4 DEF ParentClose, ChildClose, clientVars
      <3>2. RootOK' /\ FamilyOK'
        BY <1>a, <1>c, <3>1, ProcsAssumption DEF TypeOK, RootOK, FamilyOK
      <3>3. QuitOK'
        BY <1>c, <3>1 DEF QuitOK
      <3>4. FailedOK'
        <4>1. \A c \in Clients : ServerClosed(c) => ServerClosed(c)'
          BY <1>a, <3>1 DEF ServerClosed, Queued, TypeOK
        <4>2. QED
          BY <1>c, <3>1, <4>1, ClosedStaysClosed
      <3>5. NobodyAbandoned'
        BY <1>a, <1>c, <3>1 DEF TypeOK, NobodyAbandoned, Queued
      <3>6. SlotOK'
        <4>1. UsedSlots' = UsedSlots
          BY <1>a, <3>1 DEF TypeOK, UsedSlots
        <4>2. QED
          BY <1>a, <1>c, <3>1, <4>1, ProcsAssumption DEF TypeOK, SlotOK
      <3>7. QED
        BY <3>2, <3>3, <3>4, <3>5, <3>6
    <2>5. CASE AnswerCommand(p)
      <3>1. /\ pstate[p] = "serve"
            /\ UNCHANGED <<cstate, served, forkFailed>>
            /\ \A c \in Clients : input'[c] \in {input[c], "none"}
        BY <1>a, <2>5 DEF AnswerCommand, TypeOK
      <3>2. CASE ClientGone(sock[p]) /\ Terminate(p)
        BY <3>1, <3>2, DeathStep
      <3>3. CASE UNCHANGED procVars
        <4>1. RootOK' /\ FamilyOK' /\ SlotOK'
          BY <3>1, <3>3, SameProcesses DEF procVars
        <4>2. QuitOK'
          BY <1>c, <3>1 DEF QuitOK
        <4>3. FailedOK' /\ NobodyAbandoned'
          BY <1>c, <3>1, <3>3
             DEF procVars, FailedOK, NobodyAbandoned, ServerClosed, Queued
        <4>4. QED
          BY <4>1, <4>2, <4>3
      <3>4. QED
        BY <2>5, <3>2, <3>3 DEF AnswerCommand
    <2>6. CASE ReadQuit(p)
      <3>1. /\ pstate[p] = "serve" /\ input[sock[p]] = "QUIT"
            /\ input' = [input EXCEPT ![sock[p]] = "none"]
            /\ pstate' = [pstate EXCEPT ![p] = "closing"]
            /\ UNCHANGED <<sock, held, parent, backlog, cstate, served,
                           forkFailed>>
        BY <2>6 DEF ReadQuit
      <3>2. sock[p] \in Clients /\ cstate[sock[p]] = "closed"
        BY <1>a, <1>c, <3>1 DEF TypeOK, NoDescriptorLeak, Busy, QuitOK
      <3>3. RootOK' /\ FamilyOK'
        BY <1>a, <1>c, <3>1, ProcsAssumption DEF TypeOK, RootOK, FamilyOK
      <3>4. QuitOK'
        BY <1>a, <1>c, <3>1 DEF QuitOK, TypeOK
      <3>5. FailedOK'
        BY <1>c, <3>1 DEF FailedOK, ServerClosed, Queued
      <3>6. NobodyAbandoned'
        BY <1>a, <1>c, <3>1, <3>2 DEF TypeOK, NobodyAbandoned, Queued
      <3>7. SlotOK'
        <4>1. UsedSlots' = UsedSlots
          BY <1>a, <3>1 DEF TypeOK, UsedSlots
        <4>2. QED
          BY <1>a, <1>c, <3>1, <4>1, ProcsAssumption DEF TypeOK, SlotOK
      <3>8. QED
        BY <3>3, <3>4, <3>5, <3>6, <3>7
    <2>7. CASE ReadEndOfStream(p)
      BY <2>7, DeathStep DEF ReadEndOfStream, clientVars
    <2>8. QED
      BY <1>3, <2>1, <2>2, <2>3, <2>4, <2>5, <2>6, <2>7 DEF ProcStep
  <1>4. ASSUME NEW c \in Clients, NEW g \in Programs, Connect(c, g)
        PROVE  Goal'
    <2>1. /\ cstate[c] = "idle" /\ ListenOpen
          /\ backlog' = Append(backlog, c)
          /\ cstate' = [cstate EXCEPT ![c] = "connected"]
          /\ UNCHANGED <<pstate, sock, held, parent, input, served, forkFailed>>
      BY <1>4 DEF Connect
    <2>2. \A d \in Clients : Queued(d)' <=> Queued(d) \/ d = c
      <3>1. /\ Len(backlog') = Len(backlog) + 1 /\ Len(backlog) \in Nat
            /\ \A i \in 1..Len(backlog) : backlog'[i] = backlog[i]
            /\ backlog'[Len(backlog) + 1] = c
        BY <1>a, <2>1 DEF TypeOK
      <3>2. QED
        BY <3>1 DEF Queued
    <2>3. RootOK'
      BY <1>c, <2>1, ProcsAssumption DEF RootOK, ListenOpen
    <2>4. FamilyOK'
      BY <1>c, <2>1 DEF FamilyOK
    <2>5. QuitOK'
      BY <1>a, <1>c, <2>1 DEF TypeOK, QuitOK
    <2>6. FailedOK'
      BY <1>a, <1>c, <2>1, <2>2 DEF TypeOK, FailedOK, ServerClosed
    <2>7. NobodyAbandoned'
      BY <1>a, <1>c, <2>1, <2>2 DEF TypeOK, NobodyAbandoned
    <2>8. SlotOK'
      BY <1>c, <2>1 DEF SlotOK, UsedSlots
    <2>9. QED
      BY <2>3, <2>4, <2>5, <2>6, <2>7, <2>8
  <1>5. ASSUME NEW c \in Clients, ConnectFails(c)
        PROVE  Goal'
    <2>1. /\ cstate[c] = "idle"
          /\ cstate' = [cstate EXCEPT ![c] = "failed"]
          /\ UNCHANGED <<pstate, sock, held, parent, backlog, input, served,
                         forkFailed>>
      BY <1>5 DEF ConnectFails, procVars
    <2>2. RootOK' /\ FamilyOK' /\ SlotOK'
      BY <1>a, <2>1, SameProcesses DEF TypeOK
    <2>3. QuitOK' /\ NobodyAbandoned'
      BY <1>a, <1>c, <2>1 DEF TypeOK, QuitOK, NobodyAbandoned, Queued
    <2>4. ServerClosed(c)
      BY <1>b, <2>1 DEF ServerClosed, Queued, QueueOK, HolderOK
    <2>5. FailedOK'
      BY <1>a, <1>c, <2>1, <2>4 DEF TypeOK, FailedOK, ServerClosed, Queued
    <2>6. QED
      BY <2>2, <2>3, <2>5
  <1>6. ASSUME NEW c \in Clients, ClientStep(c) \/ Abort(c)
        PROVE  Goal'
    <2>1. UNCHANGED <<pstate, sock, held, parent, backlog, served, forkFailed>>
      BY <1>6 DEF ClientStep, SendRequest, ReadReply, ReadNoReply, CloseClient,
                  Abort, procVars
    <2>2. /\ cstate[c] \in {"connected", "waiting", "answered"}
          /\ \E s \in CStates \ {"idle", "connected"} :
               /\ cstate' = [cstate EXCEPT ![c] = s]
               /\ s = "failed" => ServerClosed(c)
      BY <1>6 DEF ClientStep, SendRequest, ReadReply, ReadNoReply, CloseClient,
                  Abort, CStates
    <2>3. RootOK' /\ FamilyOK' /\ SlotOK'
      BY <1>a, <2>1, <2>2, SameProcesses DEF TypeOK
    <2>4. QuitOK'
      <3>1. CASE CloseClient(c)
        BY <1>a, <1>c, <3>1 DEF TypeOK, QuitOK, CloseClient
      <3>2. CASE SendRequest(c)
        BY <1>a, <1>c, <3>2 DEF TypeOK, QuitOK, SendRequest
      <3>3. CASE ReadReply(c) \/ ReadNoReply(c) \/ Abort(c)
        BY <1>a, <1>c, <3>3 DEF TypeOK, QuitOK, ReadReply, ReadNoReply, Abort
      <3>4. QED
        BY <1>6, <3>1, <3>2, <3>3 DEF ClientStep
    <2>5. FailedOK'
      BY <1>a, <1>c, <2>1, <2>2 DEF TypeOK, FailedOK, ServerClosed, Queued
    <2>6. NobodyAbandoned'
      BY <1>a, <1>c, <2>1, <2>2 DEF TypeOK, NobodyAbandoned, Queued
    <2>7. QED
      BY <2>3, <2>4, <2>5, <2>6
  <1>7. CASE UNCHANGED vars
    <2>1. RootOK' /\ FamilyOK' /\ SlotOK'
      BY <1>7, SameProcesses DEF vars
    <2>2. QuitOK' /\ FailedOK' /\ NobodyAbandoned'
      BY <1>7, <1>c
         DEF vars, QuitOK, FailedOK, NobodyAbandoned, ServerClosed, Queued
    <2>3. QED
      BY <2>1, <2>2
  <1>8. QED
    BY <1>1, <1>2, <1>3, <1>4, <1>5, <1>6, <1>7 DEF Next

LEMMA LifeInvariant == Spec => []LifeInv
  BY LifeInit, LifeStep, PTL DEF Spec

\* While fork() has not failed, a client in the middle of its session is
\* always queued, with an acceptor or with a child, whoever dies.
THEOREM NoClientAbandoned == Spec => []NobodyAbandoned
  BY LifeInvariant, PTL DEF LifeInv

\* The process table only fills up: one slot for every session ever served.
THEOREM SlotsNeverFreed == Spec => []SlotPerSession
  <1>1. LifeInv => SlotPerSession
    BY DEF LifeInv, SlotOK, SlotPerSession, UsedSlots
  <1>2. QED
    BY <1>1, LifeInvariant, PTL

\* No step ends the service of a client but that client's own departure, in
\* particular not a fork() that fails.
THEOREM ServiceNotInterrupted == Spec => ServiceOutlivesForkFailure
  <1>1. ASSUME LifeInv, [Next]_vars, NEW p \in Procs,
               pstate[p] = "serve", pstate'[p] # "serve"
        PROVE  cstate[sock[p]] \in {"closed", "aborted"}
    <2> USE DEF LifeInv, ServiceInv, DescriptorInv, TypeOK
    <2>1. /\ sock[p] \in Clients /\ sock[p] \in held[p]
          /\ cstate[sock[p]] # "failed"
      BY <1>1 DEF NoDescriptorLeak, Busy, FailedOK, ServerClosed
    <2>2. ASSUME NEW q \in Procs, Terminate(q), q # p
          PROVE  FALSE
      BY <1>1, <2>2 DEF Terminate
    <2>3. CASE ReadQuit(p)
      BY <1>1, <2>1, <2>3 DEF ReadQuit, QuitOK
    <2>4. CASE AnswerCommand(p) \/ ReadEndOfStream(p)
      BY <1>1, <2>1, <2>4
         DEF AnswerCommand, ReadEndOfStream, ClientGone, procVars
    <2>5. ASSUME NEW q \in Procs, q # p, ProcStep(q)
          PROVE  FALSE
      <3>1. CASE AnswerCommand(q) \/ ReadEndOfStream(q) \/ ForkFails(q)
        BY <1>1, <2>2, <2>5, <3>1
           DEF AnswerCommand, ReadEndOfStream, ForkFails, procVars
      <3>2. CASE WaitConnection(q) \/ ParentClose(q) \/ ChildClose(q) \/ ReadQuit(q)
        BY <1>1, <2>5, <3>2 DEF WaitConnection, ParentClose, ChildClose, ReadQuit
      <3>3. ASSUME NEW r \in Procs, Fork(q, r)
            PROVE  FALSE
        BY <1>1, <2>5, <3>3 DEF Fork
      <3>4. QED
        BY <2>5, <3>1, <3>2, <3>3 DEF ProcStep
    <2>6. CASE ProcStep(p)
      <3>1. ReadQuit(p) \/ AnswerCommand(p) \/ ReadEndOfStream(p)
        BY <1>1, <2>6 DEF ProcStep, WaitConnection, Fork, ForkFails,
                          ParentClose, ChildClose
      <3>2. QED
        BY <2>3, <2>4, <3>1
    <2>7. CASE OpenServer \/ OpenServerFails
      BY <1>1, <2>2, <2>7, ProcsAssumption DEF OpenServer, OpenServerFails
    <2>8. CASE \/ \E c \in Clients, g \in Programs : Connect(c, g)
               \/ \E c \in Clients :
                    ClientStep(c) \/ ConnectFails(c) \/ Abort(c)
               \/ UNCHANGED vars
      BY <1>1, <2>8
         DEF Connect, ClientStep, SendRequest, ReadReply, ReadNoReply,
             CloseClient, ConnectFails, Abort, procVars, vars
    <2>9. QED
      BY <1>1, <2>5, <2>6, <2>7, <2>8 DEF Next
  <1>2. LifeInv /\ [Next]_vars =>
          [\A p \in Procs :
             pstate[p] = "serve" /\ pstate'[p] # "serve" =>
               cstate[sock[p]] \in {"closed", "aborted"}]_vars
    BY <1>1
  <1>3. QED
    BY <1>2, LifeInvariant, PTL DEF Spec, ServiceOutlivesForkFailure

-----------------------------------------------------------------------------
(***************************************************************************)
(* Every client has a session as ServerSession describes it.  What has to  *)
(* be known besides LifeInv is which clients were given a child, and that  *)
(* an answer follows the reading of the request.                           *)
(***************************************************************************)

\* The processes in service, or just past it, are the children of clients
\* that were served.
ServedOK ==
  \A p \in Procs : pstate[p] \in {"serve", "closing"} => sock[p] \in served

\* A client that has asked for nothing has nothing under way, and one that
\* was answered has no request under way.
AskedOK ==
  \A c \in Clients :
    /\ cstate[c] \in {"idle", "connected"} => input[c] = "none" /\ ~reply[c]
    /\ reply[c] => input[c] \in {"none", "QUIT"}

PeerInv == LifeInv /\ ServedOK /\ AskedOK

\* What the end of a process leaves of the others, and of the connections.
LEMMA TerminateLeaves ==
  ASSUME ServiceInv, NEW p \in Procs, Terminate(p)
  PROVE  /\ pstate'[p] \in {"none", "zombie"}
         /\ \A q \in Procs \ {p} :
              /\ pstate[q] # "zombie" => pstate'[q] = pstate[q]
              /\ pstate[q] = "zombie" => pstate'[q] \in {"none", "zombie"}
              /\ sock'[q] = sock[q]
         /\ \A c \in Clients : ServerClosed(c) => ServerClosed(c)'
  <1> USE DEF ServiceInv, DescriptorInv, TypeOK
  <1>1. /\ \A q \in Procs : held'[q] \subseteq held[q]
        /\ backlog' = backlog \/ backlog' = <<>>
    BY DEF Terminate
  <1>2. \A c \in Clients : ServerClosed(c) => ServerClosed(c)'
    BY <1>1 DEF ServerClosed, Queued
  <1>3. QED
    BY <1>2 DEF Terminate

LEMMA ServedKept ==
  ASSUME ServiceInv, ServedOK, [Next]_vars
  PROVE  ServedOK'
  <1> USE DEF ServiceInv, DescriptorInv, TypeOK
  <1>1. ASSUME NEW p \in Procs, Terminate(p), served' = served
        PROVE  ServedOK'
    BY <1>1, TerminateLeaves DEF ServedOK
  <1>2. CASE OpenServer \/ OpenServerFails
    BY <1>1, <1>2, ProcsAssumption DEF OpenServer, OpenServerFails, ServedOK
  <1>3. ASSUME NEW p \in Procs, ProcStep(p)
        PROVE  ServedOK'
    <2>1. CASE ForkFails(p) \/ AnswerCommand(p) \/ ReadEndOfStream(p)
      BY <1>1, <2>1
         DEF ForkFails, AnswerCommand, ReadEndOfStream, procVars, ServedOK
    <2>2. CASE WaitConnection(p) \/ ParentClose(p) \/ ReadQuit(p) \/ ChildClose(p)
      BY <2>2 DEF WaitConnection, ParentClose, ReadQuit, ChildClose, ServedOK
    <2>3. ASSUME NEW q \in Procs, Fork(p, q)
          PROVE  ServedOK'
      BY <2>3 DEF Fork, ServedOK
    <2>4. QED
      BY <1>3, <2>1, <2>2, <2>3 DEF ProcStep
  <1>4. CASE \/ \E c \in Clients, g \in Programs : Connect(c, g)
             \/ \E c \in Clients : ClientStep(c) \/ ConnectFails(c) \/ Abort(c)
             \/ UNCHANGED vars
    BY <1>4
       DEF Connect, ClientStep, SendRequest, ReadReply, ReadNoReply, CloseClient,
           ConnectFails, Abort, procVars, vars, ServedOK
  <1>5. QED
    BY <1>2, <1>3, <1>4 DEF Next

LEMMA AskedKept ==
  ASSUME ServiceInv, AskedOK, [Next]_vars
  PROVE  AskedOK'
  <1> USE DEF ServiceInv, DescriptorInv, TypeOK
  <1>1. CASE UNCHANGED <<cstate, input, reply>>
    BY <1>1 DEF AskedOK
  <1>2. ASSUME NEW p \in Procs, ProcStep(p)
        PROVE  AskedOK'
    <2>1. sock[p] \in Clients \/ pstate[p] # "serve"
      BY DEF NoDescriptorLeak, Busy
    <2>2. CASE AnswerCommand(p)
      BY <2>1, <2>2 DEF AnswerCommand, AskedOK
    <2>3. CASE ReadQuit(p)
      BY <2>1, <2>3 DEF ReadQuit, AskedOK
    <2>4. CASE ~AnswerCommand(p) /\ ~ReadQuit(p)
      BY <1>1, <1>2, <2>4
         DEF ProcStep, WaitConnection, Fork, ForkFails, ParentClose,
             ReadEndOfStream, ChildClose, clientVars
    <2>5. QED
      BY <2>2, <2>3, <2>4
  <1>3. ASSUME NEW c \in Clients,
               \/ \E g \in Programs : Connect(c, g)
               \/ ClientStep(c) \/ ConnectFails(c) \/ Abort(c)
        PROVE  AskedOK'
    <2>1. CASE \/ \E g \in Programs : Connect(c, g)
               \/ ReadReply(c) \/ ReadNoReply(c) \/ ConnectFails(c) \/ Abort(c)
      BY <2>1 DEF Connect, ReadReply, ReadNoReply, ConnectFails, Abort, AskedOK
    <2>2. CASE SendRequest(c) \/ CloseClient(c)
      BY <2>2 DEF SendRequest, CloseClient, AskedOK
    <2>3. QED
      BY <1>3, <2>1, <2>2 DEF ClientStep
  <1>4. CASE OpenServer \/ OpenServerFails \/ UNCHANGED vars
    BY <1>1, <1>4 DEF OpenServer, OpenServerFails, clientVars, vars
  <1>5. QED
    BY <1>2, <1>3, <1>4 DEF Next

LEMMA PeerInvariant == Spec => []PeerInv
  <1>1. Init => ServedOK /\ AskedOK
    BY DEF Init, ServedOK, AskedOK
  <1>2. ServedOK /\ AskedOK /\ LifeInv /\ [Next]_vars => (ServedOK /\ AskedOK)'
    BY ServedKept, AskedKept DEF LifeInv
  <1>3. QED
    BY <1>1, <1>2, LifeInvariant, PTL DEF Spec, PeerInv

\* A child is in the service of the client.
HasChild(c) == \E p \in Procs : pstate[p] = "serve" /\ sock[p] = c

\* What is seen of a client with a child, and of one that was not served.
LEMMA ChildSeen ==
  ASSUME PeerInv, NEW c \in Clients
  PROVE  /\ \A p \in Procs : pstate[p] = "serve" /\ sock[p] = c =>
              /\ ChildOf(c) = "serving" /\ c \in served /\ cstate[c] # "idle"
              /\ \A q \in Procs \ {p} : ~(pstate[q] = "serve" /\ sock[q] = c)
         /\ cstate[c] = "idle" => ChildOf(c) = "none" /\ c \notin served
                                  /\ ServerClosed(c) /\ ~HasChild(c)
  <1> USE DEF PeerInv, LifeInv, ServiceInv, DescriptorInv, TypeOK
  <1>1. ASSUME NEW p \in Procs, pstate[p] = "serve", sock[p] = c
        PROVE  /\ ChildOf(c) = "serving" /\ c \in served /\ cstate[c] # "idle"
               /\ \A q \in Procs \ {p} : ~(pstate[q] = "serve" /\ sock[q] = c)
    <2>1. ChildOf(c) = "serving" /\ c \in served
      BY <1>1 DEF ChildOf, ServedOK
    <2>2. cstate[c] # "idle"
      BY <2>1 DEF HolderOK
    <2>3. ASSUME NEW q \in Procs \ {p}, pstate[q] = "serve", sock[q] = c
          PROVE  FALSE
      <3>1. c \in held[p] \intersect held[q] /\ q # p
        BY <1>1, <2>3 DEF NoDescriptorLeak, Busy
      <3>2. QED
        BY <1>1, <2>3, <3>1 DEF ExclusiveService
    <2>4. QED
      BY <2>1, <2>2, <2>3
  <1>2. CASE cstate[c] = "idle"
    <2>1. c \notin served /\ ~HasChild(c)
      BY <1>1, <1>2 DEF HolderOK, HasChild
    <2>2. ServerClosed(c)
      BY <1>2 DEF HolderOK, QueueOK, ServerClosed, Queued
    <2>3. QED
      BY <1>2, <2>1, <2>2 DEF ChildOf, HasChild
  <1>3. QED
    BY <1>1, <1>2

\* A step that neither gives the client a child nor takes it away, and of
\* which client and stream know nothing: at most the server closes a
\* connection it has given no child.
LEMMA Unnoticed ==
  ASSUME TypeOK, NEW c \in Clients,
         cstate'[c] = cstate[c], input'[c] = input[c],
         HasChild(c)' <=> HasChild(c),
         c \in served' <=> c \in served,
         ServerClosed(c) => ServerClosed(c)'
  PROVE  [Session(c)!Next]_(Session(c)!vars)
  <1>1. ClientOf(c)' = ClientOf(c) /\ InputOf(c)' = InputOf(c)
    BY DEF ClientOf, ClientGone, InputOf
  <1>2. CASE ChildOf(c)' = ChildOf(c)
    BY <1>1, <1>2 DEF Session!vars
  <1>3. CASE ChildOf(c)' # ChildOf(c)
    <2>1. ChildOf(c) = "none" /\ ChildOf(c)' = "ended" /\ cstate[c] # "idle"
      BY <1>3 DEF ChildOf, HasChild
    <2>2. ClientOf(c) # "away"
      BY <2>1 DEF ClientOf, ClientGone, TypeOK, CStates
    <2>3. QED
      BY <1>1, <2>1, <2>2 DEF Session!Next, Session!Drop
  <1>4. QED
    BY <1>2, <1>3

\* A step of the client, in which no connection moves.
LEMMA OwnStep ==
  ASSUME NEW c \in Clients, UNCHANGED <<procVars, served>>,
         cstate[c] # "idle" /\ cstate'[c] # "idle"
  PROVE  ChildOf(c)' = ChildOf(c)
  BY DEF procVars, ChildOf, ServerClosed, Queued

\* The end of a process is the end of the service of its client, if it was in
\* service, and nothing to anybody else.
LEMMA DeathSeen ==
  ASSUME PeerInv, NEW p \in Procs, Terminate(p), UNCHANGED <<cstate, served>>,
         pstate[p] = "serve" => ClientGone(sock[p]),
         \A c \in Clients : \/ input'[c] = input[c]
                            \/ /\ pstate[p] = "serve" /\ sock[p] = c
                               /\ input'[c] = "none",
         NEW c \in Clients
  PROVE  [Session(c)!Next]_(Session(c)!vars)
  <1>0. ServiceInv /\ TypeOK
    BY DEF PeerInv, LifeInv, ServiceInv, DescriptorInv
  <1>1. CASE pstate[p] = "serve" /\ sock[p] = c
    <2>1. /\ ChildOf(c) = "serving" /\ c \in served
          /\ \A q \in Procs \ {p} : ~(pstate[q] = "serve" /\ sock[q] = c)
      BY <1>1, ChildSeen
    <2>2. ~HasChild(c)'
      BY <1>0, <1>1, <2>1, TerminateLeaves DEF HasChild
    <2>3. ChildOf(c)' = "ended"
      BY <2>1, <2>2 DEF ChildOf, HasChild
    <2>4. ClientOf(c) = "gone" /\ ClientOf(c)' = "gone"
      BY <1>1 DEF ClientOf, ClientGone
    <2>5. InputOf(c)' \in {InputOf(c), "none"}
      BY DEF InputOf
    <2>6. QED
      BY <2>1, <2>3, <2>4, <2>5 DEF Session!Next, Session!EndService
  <1>2. CASE ~(pstate[p] = "serve" /\ sock[p] = c)
    <2>1. HasChild(c)' <=> HasChild(c)
      <3>1. \A q \in Procs : pstate'[q] = "serve" /\ sock'[q] = c
                             <=> pstate[q] = "serve" /\ sock[q] = c
        BY <1>0, <1>2, TerminateLeaves
      <3>2. QED
        BY <3>1 DEF HasChild
    <2>2. QED
      BY <1>0, <1>2, <2>1, TerminateLeaves, Unnoticed
  <1>3. QED
    BY <1>1, <1>2

\* What a step of a process is in the session of any client.
LEMMA ProcSeen ==
  ASSUME PeerInv, NEW p \in Procs, ProcStep(p), NEW c \in Clients
  PROVE  [Session(c)!Next]_(Session(c)!vars)
  <1> USE DEF PeerInv, LifeInv, ServiceInv, DescriptorInv, TypeOK
  <1>1. CASE WaitConnection(p)
    <2>1. /\ pstate' = [pstate EXCEPT ![p] = "fork"]
          /\ sock' = [sock EXCEPT ![p] = Head(backlog)]
          /\ held' = [held EXCEPT ![p] = @ \union {Head(backlog)}]
          /\ pstate[p] = "accept"
          /\ cstate' = cstate /\ input' = input /\ served' = served
      BY <1>1 DEF WaitConnection, clientVars
    <2>2. HasChild(c)' <=> HasChild(c)
      BY <2>1 DEF HasChild
    <2>3. ServerClosed(c) => ServerClosed(c)'
      <3>1. /\ Head(backlog) = backlog[1] /\ Len(backlog) \in Nat \ {0}
            /\ Len(backlog') = Len(backlog) - 1
            /\ \A i \in 1..Len(backlog') : backlog'[i] = backlog[i + 1]
        BY <1>1 DEF WaitConnection
      <3>2. ASSUME ~Queued(c)
            PROVE  ~Queued(c)' /\ Head(backlog) # c
        BY <3>1, <3>2 DEF Queued
      <3>3. QED
        BY <2>1, <3>2 DEF ServerClosed
    <2>4. QED
      BY <2>1, <2>2, <2>3, Unnoticed
  <1>2. ASSUME NEW q \in Procs, Fork(p, q)
        PROVE  [Session(c)!Next]_(Session(c)!vars)
    <2>1. /\ pstate[p] = "fork" /\ pstate[q] = "none" /\ p # q
          /\ pstate' = [pstate EXCEPT ![p] = "parent", ![q] = "serve"]
          /\ sock' = [sock EXCEPT ![q] = sock[p]]
          /\ held' = [held EXCEPT ![q] = held[p]]
          /\ served' = served \union {sock[p]}
          /\ backlog' = backlog /\ cstate' = cstate /\ input' = input
          /\ held[p] = {sock[p]} /\ sock[p] \in Clients
      BY <1>2 DEF Fork, clientVars, NoDescriptorLeak, Busy
    <2>2. CASE c = sock[p]
      <3>1. c \notin served /\ ~HasChild(c) /\ ~ServerClosed(c) /\ cstate[c] # "idle"
        BY <2>1, <2>2 DEF HolderOK, HasChild, ServedOK, ServerClosed
      <3>2. ChildOf(c) = "none" /\ ChildOf(c)' = "serving"
        BY <2>1, <2>2, <3>1 DEF ChildOf, HasChild
      <3>3. ClientOf(c)' = ClientOf(c) /\ ClientOf(c) # "away" /\ InputOf(c)' = InputOf(c)
        BY <2>1, <3>1 DEF ClientOf, ClientGone, InputOf, CStates
      <3>4. QED
        BY <3>2, <3>3 DEF Session!Next, Session!StartChild
    <2>3. CASE c # sock[p]
      <3>1. HasChild(c)' <=> HasChild(c)
        BY <2>1, <2>3 DEF HasChild
      <3>2. ServerClosed(c) => ServerClosed(c)'
        BY <2>1, <2>3 DEF ServerClosed, Queued
      <3>3. QED
        BY <2>1, <2>3, <3>1, <3>2, Unnoticed
    <2>4. QED
      BY <2>2, <2>3
  <1>3. CASE ForkFails(p)
    BY <1>3, DeathSeen DEF ForkFails, clientVars
  <1>4. CASE ParentClose(p) \/ ChildClose(p)
    <2>1. /\ pstate[p] \in {"parent", "closing"}
          /\ pstate' = [pstate EXCEPT ![p] = "accept"]
          /\ held' = [held EXCEPT ![p] = @ \ {sock[p]}]
          /\ UNCHANGED <<sock, backlog, cstate, input, served>>
      BY <1>4 DEF ParentClose, ChildClose, clientVars
    <2>2. HasChild(c)' <=> HasChild(c)
      BY <2>1 DEF HasChild
    <2>3. ServerClosed(c) => ServerClosed(c)'
      BY <2>1 DEF ServerClosed, Queued
    <2>4. QED
      BY <2>1, <2>2, <2>3, Unnoticed
  <1>5. CASE AnswerCommand(p)
    <2>1. /\ pstate[p] = "serve" /\ sock[p] \in Clients
          /\ input[sock[p]] \in {"GET", "LIST"}
          /\ input' = [input EXCEPT ![sock[p]] = "none"]
          /\ cstate' = cstate /\ served' = served
      BY <1>5 DEF AnswerCommand, NoDescriptorLeak, Busy
    <2>2. CASE Terminate(p) /\ ClientGone(sock[p])
      BY <2>1, <2>2, DeathSeen
    <2>3. CASE UNCHANGED procVars
      <3>1. CASE c = sock[p]
        <4>1. InputOf(c) = "request" /\ InputOf(c)' = "none"
          BY <2>1, <3>1 DEF InputOf
        <4>2. ChildOf(c) = "serving" /\ ChildOf(c)' = "serving"
          BY <2>1, <2>3, <3>1 DEF ChildOf, procVars
        <4>3. ClientOf(c)' = ClientOf(c)
          BY <2>1 DEF ClientOf, ClientGone
        <4>4. QED
          BY <4>1, <4>2, <4>3 DEF Session!Next, Session!ReadRequest
      <3>2. CASE c # sock[p]
        <4>1. HasChild(c)' = HasChild(c) /\ ServerClosed(c)' = ServerClosed(c)
          BY <2>3 DEF procVars, HasChild, ServerClosed, Queued
        <4>2. QED
          BY <2>1, <3>2, <4>1, Unnoticed
      <3>3. QED
        BY <3>1, <3>2
    <2>4. QED
      BY <1>5, <2>2, <2>3 DEF AnswerCommand
  <1>6. CASE ReadQuit(p)
    <2>1. /\ pstate[p] = "serve" /\ sock[p] \in Clients
          /\ input[sock[p]] = "QUIT"
          /\ input' = [input EXCEPT ![sock[p]] = "none"]
          /\ pstate' = [pstate EXCEPT ![p] = "closing"]
          /\ UNCHANGED <<sock, held, backlog, cstate, served>>
      BY <1>6 DEF ReadQuit, NoDescriptorLeak, Busy
    <2>2. CASE c = sock[p]
      <3>1. /\ ChildOf(c) = "serving" /\ c \in served
            /\ \A q \in Procs \ {p} : ~(pstate[q] = "serve" /\ sock[q] = c)
        BY <2>1, <2>2, ChildSeen
      <3>2. ChildOf(c)' = "ended"
        BY <2>1, <3>1 DEF ChildOf
      <3>3. InputOf(c) = "QUIT" /\ InputOf(c)' = "none" /\ ClientOf(c)' = ClientOf(c)
        BY <2>1, <2>2 DEF InputOf, ClientOf, ClientGone
      <3>4. QED
        BY <3>1, <3>2, <3>3 DEF Session!Next, Session!EndService
    <2>3. CASE c # sock[p]
      <3>1. HasChild(c)' <=> HasChild(c)
        BY <2>1, <2>3 DEF HasChild
      <3>2. ServerClosed(c) => ServerClosed(c)'
        BY <2>1 DEF ServerClosed, Queued
      <3>3. QED
        BY <2>1, <2>3, <3>1, <3>2, Unnoticed
    <2>4. QED
      BY <2>2, <2>3
  <1>7. CASE ReadEndOfStream(p)
    BY <1>7, DeathSeen DEF ReadEndOfStream, clientVars
  <1>8. QED
    BY <1>1, <1>2, <1>3, <1>4, <1>5, <1>6, <1>7 DEF ProcStep

\* What a step of a client is in its own session.
LEMMA OwnSeen ==
  ASSUME PeerInv, NEW c \in Clients,
         \/ \E g \in Programs : Connect(c, g)
         \/ ClientStep(c) \/ ConnectFails(c) \/ Abort(c)
  PROVE  [Session(c)!Next]_(Session(c)!vars)
  <1> USE DEF PeerInv, LifeInv, ServiceInv, DescriptorInv, TypeOK
  <1>1. ASSUME NEW g \in Programs, Connect(c, g)
        PROVE  [Session(c)!Next]_(Session(c)!vars)
    <2>1. /\ cstate[c] = "idle" /\ cstate' = [cstate EXCEPT ![c] = "connected"]
          /\ backlog' = Append(backlog, c)
          /\ UNCHANGED <<pstate, sock, held, input, served>>
      BY <1>1 DEF Connect
    <2>2. ChildOf(c) = "none" /\ c \notin served /\ ~HasChild(c)
      BY <2>1, ChildSeen
    <2>3. ~ServerClosed(c)'
      <3>1. /\ Len(backlog) + 1 \in 1..Len(backlog')
            /\ backlog'[Len(backlog) + 1] = c
        BY <2>1
      <3>2. QED
        BY <3>1 DEF ServerClosed, Queued
    <2>4. ChildOf(c)' = "none"
      BY <2>1, <2>2, <2>3 DEF ChildOf, HasChild
    <2>5. ClientOf(c) = "away" /\ ClientOf(c)' = "connected" /\ InputOf(c)' = InputOf(c)
      BY <2>1 DEF ClientOf, ClientGone, InputOf
    <2>6. QED
      BY <2>2, <2>4, <2>5 DEF Session!Next, Session!Connect
  <1>2. CASE ConnectFails(c)
    <2>1. /\ cstate[c] = "idle" /\ cstate' = [cstate EXCEPT ![c] = "failed"]
          /\ UNCHANGED <<pstate, sock, held, backlog, input, served>>
      BY <1>2 DEF ConnectFails, procVars
    <2>2. /\ ChildOf(c) = "none" /\ c \notin served /\ ~HasChild(c) /\ ServerClosed(c)
      BY <2>1, ChildSeen
    <2>3. ChildOf(c)' = "ended"
      BY <2>1, <2>2 DEF ChildOf, HasChild, ServerClosed, Queued
    <2>4. ClientOf(c) = "away" /\ ClientOf(c)' = "gone" /\ InputOf(c)' = InputOf(c)
      BY <2>1 DEF ClientOf, ClientGone, InputOf
    <2>5. QED
      BY <2>3, <2>4 DEF Session!Next, Session!Refuse
  <1>3. CASE SendRequest(c)
    <2>1. /\ cstate[c] = "connected" /\ cstate'[c] = "waiting"
          /\ input'[c] \in {"GET", "LIST"} /\ UNCHANGED <<procVars, served>>
      BY <1>3 DEF SendRequest
    <2>2. ClientOf(c) = "connected" /\ ClientOf(c)' = "waiting" /\ InputOf(c)' = "request"
      BY <2>1 DEF ClientOf, ClientGone, InputOf
    <2>3. QED
      BY <2>1, <2>2, OwnStep DEF Session!Next, Session!Ask
  <1>4. CASE ReadReply(c)
    <2>1. /\ cstate[c] = "waiting" /\ cstate'[c] = "answered" /\ reply[c]
          /\ input' = input /\ UNCHANGED <<procVars, served>>
      BY <1>4 DEF ReadReply
    <2>2. ClientOf(c) = "waiting" /\ ClientOf(c)' = "answered"
      BY <2>1 DEF ClientOf, ClientGone
    <2>3. input[c] = "none"
      BY <2>1 DEF AskedOK, QuitOK
    <2>4. InputOf(c) = "none" /\ InputOf(c)' = "none"
      BY <2>1, <2>3 DEF InputOf
    <2>5. QED
      BY <2>1, <2>2, <2>4, OwnStep DEF Session!Next, Session!Answered
  <1>5. CASE ReadNoReply(c) \/ CloseClient(c) \/ Abort(c)
    <2>1. /\ cstate[c] \in {"connected", "waiting", "answered"}
          /\ cstate'[c] \in {"failed", "closed", "aborted"}
          /\ input'[c] = input[c] \/ (cstate[c] = "answered" /\ input'[c] = "QUIT")
          /\ UNCHANGED <<procVars, served>>
      BY <1>5 DEF ReadNoReply, CloseClient, Abort
    <2>2. ClientOf(c) = cstate[c] /\ ClientOf(c)' = "gone"
      BY <2>1 DEF ClientOf, ClientGone
    <2>3. InputOf(c)' = InputOf(c) \/ (cstate[c] = "answered" /\ InputOf(c)' = "QUIT")
      BY <2>1 DEF InputOf
    <2>4. QED
      BY <2>1, <2>2, <2>3, OwnStep DEF Session!Next, Session!Leave
  <1>6. QED
    BY <1>1, <1>2, <1>3, <1>4, <1>5 DEF ClientStep

\* The steps of a client are nothing to the others.
LEMMA OthersSeen ==
  ASSUME PeerInv, NEW d \in Clients,
         \/ \E g \in Programs : Connect(d, g)
         \/ ClientStep(d) \/ ConnectFails(d) \/ Abort(d),
         NEW c \in Clients \ {d}
  PROVE  [Session(c)!Next]_(Session(c)!vars)
  <1> USE DEF PeerInv, LifeInv, ServiceInv, DescriptorInv, TypeOK
  <1>1. /\ cstate'[c] = cstate[c] /\ input'[c] = input[c]
        /\ UNCHANGED <<pstate, sock, held, served>>
        /\ backlog' = backlog \/ backlog' = Append(backlog, d)
    BY DEF Connect, ClientStep, SendRequest, ReadReply, ReadNoReply, CloseClient,
           ConnectFails, Abort, procVars
  <1>2. HasChild(c)' = HasChild(c)
    BY <1>1 DEF HasChild
  <1>3. ServerClosed(c) => ServerClosed(c)'
    <2>1. Queued(c)' => Queued(c)
      BY <1>1 DEF Queued
    <2>2. QED
      BY <1>1, <2>1 DEF ServerClosed
  <1>4. QED
    BY <1>1, <1>2, <1>3, Unnoticed

\* However many clients and process slots there are and whatever becomes of
\* the processes, each client deals with one child that reads its request,
\* stays until the client says QUIT or is gone, and never comes back
\* (server.c:51-76).
THEOREM SessionsImplemented == Spec => ImplementsSessions
  <1>1. Init => \A c \in Clients : Session(c)!Init
    <2>1. ASSUME Init, NEW c \in Clients
          PROVE  Session(c)!Init
      <3>1. ClientOf(c) = "away" /\ InputOf(c) = "none"
        BY <2>1 DEF Init, ClientOf, InputOf
      <3>2. ChildOf(c) = "none"
        BY <2>1 DEF Init, ChildOf
      <3>3. QED
        BY <3>1, <3>2 DEF Session!Init, Session!Away
    <2>2. QED
      BY <2>1
  <1>2. ASSUME PeerInv, [Next]_vars, NEW c \in Clients
        PROVE  [Session(c)!Next]_(Session(c)!vars)
    <2>0. TypeOK
      BY <1>2 DEF PeerInv, LifeInv, ServiceInv, DescriptorInv
    <2>1. CASE OpenServer
      <3>1. /\ Root \in Procs /\ pstate[Root] = "boot"
            /\ pstate' = [pstate EXCEPT ![Root] = "accept"]
            /\ UNCHANGED <<sock, held, backlog, cstate, input, served>>
        BY <2>1, ProcsAssumption DEF OpenServer, clientVars
      <3>2. HasChild(c)' <=> HasChild(c)
        BY <2>0, <3>1 DEF HasChild, TypeOK
      <3>3. ServerClosed(c) => ServerClosed(c)'
        BY <3>1 DEF ServerClosed, Queued
      <3>4. QED
        BY <2>0, <3>1, <3>2, <3>3, Unnoticed
    <2>2. CASE OpenServerFails
      BY <1>2, <2>2, DeathSeen, ProcsAssumption DEF OpenServerFails, clientVars
    <2>3. CASE \E p \in Procs : ProcStep(p)
      BY <1>2, <2>3, ProcSeen
    <2>4. ASSUME NEW d \in Clients,
                 \/ \E g \in Programs : Connect(d, g)
                 \/ ClientStep(d) \/ ConnectFails(d) \/ Abort(d)
          PROVE  [Session(c)!Next]_(Session(c)!vars)
      BY <1>2, <2>4, OwnSeen, OthersSeen
    <2>5. CASE UNCHANGED vars
      <3>1. HasChild(c)' = HasChild(c) /\ ServerClosed(c)' = ServerClosed(c)
        BY <2>5 DEF vars, HasChild, ServerClosed, Queued
      <3>2. QED
        BY <2>0, <2>5, <3>1, Unnoticed DEF vars
    <2>6. QED
      BY <1>2, <2>1, <2>2, <2>3, <2>4, <2>5 DEF Next
  <1>3. PeerInv /\ [Next]_vars =>
          [\A c \in Clients : [Session(c)!Next]_(Session(c)!vars)]_vars
    BY <1>2
  <1>4. QED
    BY <1>1, <1>3, PeerInvariant, PTL DEF Spec, ImplementsSessions

=============================================================================
