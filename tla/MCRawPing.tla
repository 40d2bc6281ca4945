----------------------------- MODULE MCRawPing -----------------------------
(***************************************************************************)
(* Instance of RawPing for TLC.                                            *)
(***************************************************************************)
EXTENDS RawPing

=============================================================================
