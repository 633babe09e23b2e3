------------------------- MODULE MCThreadDelivery -------------------------
(* The finite instance of ThreadDelivery for TLC: the bounds are in the cfgs. *)
EXTENDS ThreadDelivery
===========================================================================
