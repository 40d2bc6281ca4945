------------------------------ MODULE FileCopy ------------------------------
(***************************************************************************)
(* What the user of the FileTransfer_Proyecto client is promised of a GET: *)
(* after an answer that accepts it, the local file receives the bytes of   *)
(* the remote one, each once and in their order, and the copy ends as      *)
(* complete only when it has at least as many as were announced, never     *)
(* more than the remote file ever had; unless one of the disks fails.  A   *)
(* byte stands for its offset, and offsets are counted in units as in      *)
(* FileSession.                                                            *)
(***************************************************************************)
EXTENDS Naturals, Sequences

CONSTANT MaxLen  \* bound on the length of the remote file

VARIABLES
  status,  \* what the user sees of the copy
  want,    \* the length announced
  extent,  \* the greatest length the remote file has had since then
  local    \* the local file

vars == <<status, want, extent, local>>

FirstUnits(n) == [i \in 1..n |-> i]

Init ==
  /\ status = "waiting"
  /\ want = 0
  /\ extent \in 0..MaxLen
  /\ local = <<>>

\* The remote file grows.
Extend(n) ==
  /\ n > extent
  /\ extent' = n
  /\ UNCHANGED <<status, want, local>>

\* The request is accepted and the local file created.
Accept(n) ==
  /\ status = "waiting"
  /\ n <= extent
  /\ status' = "receiving"
  /\ want' = n
  /\ local' = <<>>
  /\ UNCHANGED extent

\* Some of the bytes arrive: the next ones.
Receive(n) ==
  /\ status = "receiving"
  /\ Len(local) < want
  /\ n > Len(local)
  /\ n <= extent
  /\ local' = FirstUnits(n)
  /\ UNCHANGED <<status, want, extent>>

Complete ==
  /\ status = "receiving"
  /\ Len(local) >= want
  /\ status' = "complete"
  /\ UNCHANGED <<want, extent, local>>

\* The request is refused, or the copy is given up before its end.
GiveUp ==
  /\ status \in {"waiting", "receiving"}
  /\ status' = "failed"
  /\ want' = 0
  /\ UNCHANGED <<extent, local>>

\* The local disk refuses data, or the remote one does and something else is
\* sent in its place: what has been received stays, what follows it may be
\* anything.
DiskFault ==
  /\ status \in {"receiving", "broken"}
  /\ status' = "broken"
  /\ Len(local') >= Len(local)
  /\ \A i \in 1..Len(local) : local'[i] = local[i]
  /\ UNCHANGED <<want, extent>>

Next ==
  \/ \E n \in 0..MaxLen : Extend(n) \/ Accept(n) \/ Receive(n)
  \/ Complete
  \/ GiveUp
  \/ DiskFault

Spec == Init /\ [][Next]_vars

=============================================================================
