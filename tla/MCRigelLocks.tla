---------------------------- MODULE MCRigelLocks ----------------------------
(***************************************************************************)
(* RigelLocks for TLC, with threads numbered as on the machine.            *)
(***************************************************************************)
EXTENDS RigelLocks

CONSTANT Threads   \* number of threads

MCThread == 0 .. Threads - 1
=============================================================================
