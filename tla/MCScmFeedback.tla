--------------------------- MODULE MCScmFeedback ---------------------------
(* Two operations for the batch and one notice, for TLC. *)
EXTENDS ScmFeedback

CONSTANTS t1, t2, n1, batch_key, notice_key

MCKeyOf == [o \in Ops |-> IF o = n1 THEN notice_key ELSE batch_key]
=============================================================================
