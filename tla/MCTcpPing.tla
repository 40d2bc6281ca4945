----------------------------- MODULE MCTcpPing ------------------------------
(***************************************************************************)
(* Instances of TcpPing for TLC.                                           *)
(***************************************************************************)
EXTENDS TcpPing

=============================================================================
