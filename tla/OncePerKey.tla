----------------------------- MODULE OncePerKey -----------------------------
(***************************************************************************)
(* What the publish journal promises of an operation key: while a request  *)
(* for the key is open no other is opened, a request may be given up, and  *)
(* the work behind the key is completed once, after which the key is       *)
(* closed for good.                                                        *)
(***************************************************************************)
CONSTANTS
  Keys,
  Works       \* the ways the work of a key may be completed

VARIABLES
  stage,      \* of each key: "free", "open" or "closed"
  completed   \* of each key: how its work was completed

vars == <<stage, completed>>

Init ==
  /\ stage = [k \in Keys |-> "free"]
  /\ completed = [k \in Keys |-> {}]

Request(k) ==
  /\ stage[k] = "free"
  /\ stage' = [stage EXCEPT ![k] = "open"]
  /\ UNCHANGED completed

GiveUp(k) ==
  /\ stage[k] = "open"
  /\ stage' = [stage EXCEPT ![k] = "free"]
  /\ UNCHANGED completed

Complete(k, w) ==
  /\ stage[k] = "open"
  /\ stage' = [stage EXCEPT ![k] = "closed"]
  /\ completed' = [completed EXCEPT ![k] = {w}]

Next ==
  \E k \in Keys : Request(k) \/ GiveUp(k) \/ \E w \in Works : Complete(k, w)

Spec == Init /\ [][Next]_vars
=============================================================================
