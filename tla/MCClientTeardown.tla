-------------------------- MODULE MCClientTeardown --------------------------
(* Instance of ClientTeardown for TLC. *)
EXTENDS ClientTeardown

CONSTANTS t1, t2, p1, w1, c1, c2
=============================================================================
