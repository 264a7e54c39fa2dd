--------------------------- MODULE MCVectorSearch ---------------------------
(***************************************************************************)
(* Instances of VectorSearch for TLC.                                      *)
(***************************************************************************)
EXTENDS VectorSearch

\* Leaves aside that the collection is emptied between its count and its reading, which
\* is another way to the same end.
ReadsChunks == \A u \in Updaters : up[u].pc = "ids" => up[u].seen # <<>>
=============================================================================
