-------------------------- MODULE MCPublishJournal --------------------------
(* Two slots for one key and one for another, for TLC. *)
EXTENDS PublishJournal

CONSTANTS o1, o2, o3, k1, k2

MCKeyOf == [o \in Ops |-> IF o = o3 THEN k2 ELSE k1]
=============================================================================
