---------------------------- MODULE MCSynthesis -----------------------------
EXTENDS Synthesis

CONSTANT Longest \* bound: the length of a result

\* Up to three results of a length of 0..Longest each.
MCResults == UNION {[1..n -> 0..Longest] : n \in 0..3}
=============================================================================
