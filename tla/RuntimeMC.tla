------------------------------ MODULE RuntimeMC ------------------------------
(* Small instances of Runtime. *)
EXTENDS Runtime

CONSTANTS c1, c2, p1, p2
=============================================================================
