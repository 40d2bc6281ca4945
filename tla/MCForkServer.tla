---------------------------- MODULE MCForkServer ----------------------------
(***************************************************************************)
(* Instances of ForkServer for TLC.  Clients are interchangeable, and so   *)
(* are the slots other than Root.  TLC's symmetry sets are not sound for   *)
(* liveness: there the clients are made to connect in one order, and       *)
(* fork() to take the first free slot, which loses no behaviour but the    *)
(* renamings of others.                                                    *)
(***************************************************************************)
EXTENDS ForkServer, SequencesExt

Symmetry == Permutations(Clients) \union Permutations(Procs \ {Root})

ClientTurns == SetToSeq(Clients)

\* No client has left the idle state before those ahead of it.
ConnectInTurn ==
  \A i, j \in 1..Len(ClientTurns) :
    i < j /\ cstate[ClientTurns[j]] # "idle" => cstate[ClientTurns[i]] # "idle"

SlotTurns == SetToSeq(Procs)

\* A slot is taken only when those before it are.
ForkInTurn ==
  \A i, j \in 1..Len(SlotTurns) :
    i < j /\ pstate[SlotTurns[j]] = "none" /\ pstate'[SlotTurns[j]] # "none" =>
      pstate[SlotTurns[i]] # "none"

LiveSpec ==
  /\ Init
  /\ [][Next /\ ConnectInTurn' /\ ForkInTurn]_vars
  /\ Fairness

=============================================================================
