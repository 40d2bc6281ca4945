------------------------- MODULE MCOneShotTransfer --------------------------
(***************************************************************************)
(* Instances of OneShotTransfer for TLC: files of up to two portions, one  *)
(* more unit than the socket buffers take.                                 *)
(***************************************************************************)
EXTENDS OneShotTransfer

=============================================================================
