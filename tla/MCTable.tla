------------------------------ MODULE MCTable ------------------------------
(* Small instances of TableRules for TLC: see the .cfg files named in README. *)
EXTENDS TableRules, TLC

CONSTANTS good, bad, id, extra

MCSchemas == {{id}, {id, extra}}
=============================================================================
