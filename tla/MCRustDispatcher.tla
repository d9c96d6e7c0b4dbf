-------------------------- MODULE MCRustDispatcher --------------------------
(* Instances of RustDispatcher for TLC. *)
EXTENDS RustDispatcher, TLC

CONSTANTS t1, t2, t3, t4, w1, w2, c1, c2

\* The threads of a kind are interchangeable; so are the tasks that panic, and
\* the tasks that do not.
Symmetry == Permutations(Tasks \ Panicking) \cup Permutations(Panicking)
               \cup Permutations(Workers) \cup Permutations(Closers)
=============================================================================
