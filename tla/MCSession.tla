------------------------------ MODULE MCSession ------------------------------
(* Small instances of DQSession for TLC: see the .cfg files named in README. *)
EXTENDS DQSession, TLC

CONSTANTS t1, t2, g1, g2, c1, tb1, tb2

\* The slots for requests are interchangeable.
Symmetry == Permutations(Tasks)
=============================================================================
