--------------------------- MODULE ServerSession ---------------------------
(***************************************************************************)
(* What one client and the file server owe each other, with no word of     *)
(* processes, descriptors or data: who may act when, and who may end the   *)
(* session.  ForkServer implements it once for every client, FileSession   *)
(* once from the moment the child is there.  That both do is what allows   *)
(* ForkServer to take for granted what FileSession shows of a session.     *)
(***************************************************************************)
VARIABLES
  client,  \* "away", "connected", "waiting" for its answer, "answered", "gone"
  child,   \* "none" yet, "serving", "ended", or "killed" by somebody else
  input    \* the command that was sent and is not read: "none", "request", "QUIT"

vars == <<client, child, input>>

Over == child \in {"ended", "killed"}

Away == client = "away" /\ child = "none" /\ input = "none"

\* The two programs as they are when the child starts on the connection.
Started == client = "connected" /\ child = "serving" /\ input = "none"

Init == Away \/ Started

Connect ==
  /\ client = "away"
  /\ client' = "connected"
  /\ UNCHANGED <<child, input>>

Refuse ==
  /\ client = "away"
  /\ client' = "gone" /\ child' = "ended"
  /\ UNCHANGED input

StartChild ==
  /\ child = "none"
  /\ client # "away"
  /\ child' = "serving"
  /\ UNCHANGED <<client, input>>

\* The server closes the connection without having given it a child.
Drop ==
  /\ child = "none"
  /\ client # "away"
  /\ child' = "ended"
  /\ UNCHANGED <<client, input>>

\* A command sent to a connection that nobody reads is lost.
Ask ==
  /\ client = "connected"
  /\ client' = "waiting"
  /\ input' = "request" \/ (Over /\ UNCHANGED input)
  /\ UNCHANGED child

ReadRequest ==
  /\ child = "serving"
  /\ input = "request"
  /\ input' = "none"
  /\ UNCHANGED <<client, child>>

\* The client goes on only once its request was read, or the other end is
\* closed.
Answered ==
  /\ client = "waiting"
  /\ input = "none" \/ Over
  /\ client' = "answered"
  /\ UNCHANGED <<child, input>>

SayQuit ==
  /\ client = "answered"
  /\ input' = "QUIT"
  /\ UNCHANGED <<client, child>>

\* The client closes its end; what the server has not read may be lost, and
\* a QUIT may be the last thing it says.
Leave ==
  /\ client # "away"
  /\ client' = "gone"
  /\ input' \in {input, "none"} \/ (client = "answered" /\ input' = "QUIT")
  /\ UNCHANGED child

\* The child serves until its client says QUIT or has gone.
EndService ==
  /\ child = "serving"
  /\ input = "QUIT" \/ client = "gone"
  /\ child' = "ended"
  /\ input' \in {input, "none"}
  /\ UNCHANGED client

Kill ==
  /\ child = "serving"
  /\ child' = "killed"
  /\ UNCHANGED <<client, input>>

Next ==
  \/ Connect \/ Refuse \/ StartChild \/ Drop \/ Ask \/ ReadRequest
  \/ Answered \/ SayQuit \/ Leave \/ EndService \/ Kill

Spec == Init /\ [][Next]_vars

=============================================================================
