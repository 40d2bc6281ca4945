--------------------------- MODULE MCFileSession ---------------------------
(***************************************************************************)
(* Instances of FileSession for TLC.  SizeMod is small enough for a file   *)
(* whose length a u_int cannot say, Capacity for a child that has to wait  *)
(* for the client in the middle of a portion, and Heap for one that comes  *)
(* to the end of its memory before the end of the largest portion.         *)
(***************************************************************************)
EXTENDS FileSession

=============================================================================
