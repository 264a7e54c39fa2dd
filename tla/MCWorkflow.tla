----------------------------- MODULE MCWorkflow -----------------------------
(***************************************************************************)
(* Instances of Workflow for TLC.                                          *)
(***************************************************************************)
EXTENDS Workflow

\* The runs LimitNeedsReplan is about.  Both flags only grow, so the states cut off
\* and all that follow them satisfy it.
Straight == state.replans = 0 /\ ~state.error
=============================================================================
