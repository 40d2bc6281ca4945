--------------------------- MODULE MCUdpTransfer ----------------------------
(***************************************************************************)
(* Instances of UdpTransfer for TLC: a file may take more datagrams than   *)
(* the queue of a socket holds, its last one shorter than the others; its  *)
(* length may be one that no int holds, or one (5) that a client that      *)
(* counts in full buffers (2, 4, 6) gets past the greatest int with.  Of   *)
(* the ints that are never assigned at most one is not 0.                  *)
(***************************************************************************)
EXTENDS UdpTransfer

\* Nothing, less than a buffer, one, one and a half, two and a half, and one
\* unit more than an int holds.
Lengths == {0, 1, 2, 3, 5, 6}

OneLeftover ==
  /\ totalSendBytes # 0 => \A c \in Clients : writeBytes[c] = 0
  /\ \A c, d \in Clients : writeBytes[c] # 0 /\ writeBytes[d] # 0 => c = d

MCInit == Init /\ flen \in Lengths /\ OneLeftover

MCSpec == MCInit /\ [][Next]_vars /\ Fairness

=============================================================================
