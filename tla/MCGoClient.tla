----------------------------- MODULE MCGoClient -----------------------------
(* Instance of GoClient for TLC. *)
EXTENDS GoClient

CONSTANTS t1, t2, p1, w1, c1, c2
=============================================================================
