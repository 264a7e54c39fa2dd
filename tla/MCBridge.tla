------------------------------ MODULE MCBridge ------------------------------
(* The requests are model values given in the configuration; they are not   *)
(* interchangeable for the liveness property, so no symmetry is used.       *)
EXTENDS Bridge
=============================================================================
