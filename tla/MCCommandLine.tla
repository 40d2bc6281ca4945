-------------------------- MODULE MCCommandLine -----------------------------
(***************************************************************************)
(* Instances of CommandLine for TLC.  With ports from 2 to 5 and a u_int   *)
(* of 8 values the numbers are: none, a port, one too great, one that is   *)
(* a port after it is cut to a u_int, and a negative one.                  *)
(***************************************************************************)
EXTENDS CommandLine

MCNumbers == {0, 3, 7, 11, -1}

=============================================================================
