--------------------------- MODULE MCTicketRunner ---------------------------
(***************************************************************************)
(* TicketRunner on small instances.                                        *)
(***************************************************************************)
EXTENDS TicketRunner
=============================================================================
