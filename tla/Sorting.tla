------------------------------ MODULE Sorting -------------------------------
(***************************************************************************)
(* Python's sorted(range(n), key=..., reverse=True), which the fusion of   *)
(* two result lists (storage/vector/vector_store.py) and the shares of the *)
(* prompt (agent/brain/synthesis.py) rest on.                              *)
(***************************************************************************)
EXTENDS Integers, Sequences, FiniteSets

\* The largest key first, equals as they were.
Precedes(key, i, j) == key[i] > key[j] \/ (key[i] = key[j] /\ i < j)
Place(key, j) == 1 + Cardinality({i \in DOMAIN key : Precedes(key, i, j)})
Descending(key) == [p \in DOMAIN key |-> CHOOSE j \in DOMAIN key : Place(key, j) = p]
=============================================================================
