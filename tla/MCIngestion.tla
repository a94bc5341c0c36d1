----------------------------- MODULE MCIngestion -----------------------------
(* Small instances of Ingestion for TLC: see the .cfg files named in README. *)
EXTENDS Ingestion, TLC

CONSTANTS s1, s2

\* No failing rows, a warning, a critical failure next to a warning.
MCVerdicts == {Nothing, [Nothing EXCEPT !.warn = 1], [Nothing EXCEPT !.fail = 1, !.warn = 1]}
=============================================================================
