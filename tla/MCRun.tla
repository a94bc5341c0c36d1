------------------------------- MODULE MCRun -------------------------------
(* Small instances of RunExecution for TLC: see the .cfg files named in README. *)
EXTENDS RunExecution, TLC

CONSTANTS x1, x2
=============================================================================
