---------------------------- MODULE MCRustClient ----------------------------
(* Instance of RustClient for TLC. *)
EXTENDS RustClient

CONSTANTS t1, t2, p1, w1, w2, c1
=============================================================================
