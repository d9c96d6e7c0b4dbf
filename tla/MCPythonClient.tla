--------------------------- MODULE MCPythonClient ---------------------------
(* Instance of PythonClient for TLC. *)
EXTENDS PythonClient

CONSTANTS t1, t2, p1, w1, c1, c2
=============================================================================
