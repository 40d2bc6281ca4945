--------------------------- MODULE MCSimpleSocket ---------------------------
(***************************************************************************)
(* Instance of SimpleSocket for TLC.                                       *)
(***************************************************************************)
EXTENDS SimpleSocket

=============================================================================
