---------------------------- MODULE MCTicketLock ----------------------------
(***************************************************************************)
(* TicketLock for TLC: three threads and no more tickets than threads.     *)
(***************************************************************************)
EXTENDS TicketLock
=============================================================================
