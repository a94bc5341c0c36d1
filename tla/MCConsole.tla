------------------------------ MODULE MCConsole ------------------------------
(* A small instance of Console for TLC: see console.cfg. *)
EXTENDS Console, TLC

CONSTANTS t1, t2, c1, tb1, b1

\* The slots for requests are interchangeable.
Symmetry == Permutations(Tasks)
=============================================================================
