--------------------------- MODULE MCTaskLifecycle ---------------------------
(***************************************************************************)
(* Instances of TaskLifecycle for TLC.  Task ids are interchangeable, so   *)
(* runs without liveness properties use their symmetry.                    *)
(***************************************************************************)
EXTENDS TaskLifecycle, TLC

TaskSymmetry == Permutations(Tasks)
=============================================================================
