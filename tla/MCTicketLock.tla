---------------------------- MODULE MCTicketLock ----------------------------
(* Instances of TicketLock for TLC.                                         *)
EXTENDS TicketLock
=============================================================================
