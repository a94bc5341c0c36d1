---------------------------- MODULE ApprovalGates ----------------------------
(***************************************************************************)
(* What the two human checkpoints of ADR-005 promise about one session, in *)
(* terms of what can be seen from outside: which checkpoints have been     *)
(* granted so far, which rules the procedure in BigQuery evaluates, and    *)
(* whether the session was signed off.  A grant is never taken back, a     *)
(* deployed procedure is replaced but never dropped, and a sign-off is     *)
(* final.                                                                  *)
(***************************************************************************)
CONSTANT Rules

VARIABLES granted, deployed, signedOff

vars == <<granted, deployed, signedOff>>

Init ==
    /\ granted = {}
    /\ deployed = {}
    /\ signedOff = FALSE

Grant(checkpoint) ==
    /\ granted' = granted \cup {checkpoint}
    /\ UNCHANGED <<deployed, signedOff>>

\* The first gate is open: a procedure with at least one rule is deployed.
Deploy(content) ==
    /\ 1 \in granted
    /\ content # {}
    /\ deployed' = content
    /\ UNCHANGED <<granted, signedOff>>

\* The second gate is open.
Finish ==
    /\ 2 \in granted
    /\ signedOff' = TRUE
    /\ UNCHANGED <<granted, deployed>>

Next ==
    \/ \E checkpoint \in {1, 2} : Grant(checkpoint)
    \/ \E content \in SUBSET Rules : Deploy(content)
    \/ Finish

Spec == Init /\ [][Next]_vars
=============================================================================
