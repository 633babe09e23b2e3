----------------------------- MODULE MCPmaQueue -----------------------------
(* Two keys and two workers, for TLC. *)
EXTENDS PmaQueue

CONSTANTS k1, k2, w1, w2

MCKeys == {k1, k2}
MCWorkers == {w1, w2}
=============================================================================
