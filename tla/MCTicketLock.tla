---------------------------- MODULE MCTicketLock ----------------------------
(* Instance of TicketLock for TLC. *)
EXTENDS TicketLock
=============================================================================
