-------------------------- MODULE MCKnowledgeBase --------------------------
(***************************************************************************)
(* Instances of KnowledgeBase for TLC.                                     *)
(***************************************************************************)
EXTENDS KnowledgeBase, TLC

Symmetry == Permutations(Docs)
=============================================================================
