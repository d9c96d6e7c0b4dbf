-------------------------- MODULE MCJavaDispatcher --------------------------
(* Instance of JavaDispatcher for TLC. *)
EXTENDS JavaDispatcher

CONSTANTS t1, t2, t3, t4, w1, c1
=============================================================================
