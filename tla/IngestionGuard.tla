--------------------------- MODULE IngestionGuard ---------------------------
(***************************************************************************)
(* What the validation of a table promises about the ingestion of that     *)
(* table: it is paused only while the validation run that came last has    *)
(* found a critical failure, and only people let it go on.                 *)
(***************************************************************************)
VARIABLES alarm,  \* the latest validation run has found a critical failure
          paused  \* the ingestion DAG is paused

vars == <<alarm, paused>>

Init == alarm = FALSE /\ paused = FALSE

Validate == alarm' = FALSE /\ UNCHANGED paused
Find     == alarm' = TRUE /\ UNCHANGED paused
Pause    == alarm /\ paused' = TRUE /\ UNCHANGED alarm
Release  == paused' = FALSE /\ UNCHANGED alarm

Next == Validate \/ Find \/ Pause \/ Release

Spec == Init /\ [][Next]_vars
=============================================================================
