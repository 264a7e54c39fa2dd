----------------------------- MODULE MCSessions -----------------------------
EXTENDS Sessions

CONSTANTS q1, q2

\* q2 asks again what q1 has asked.
MCText == [q \in Questions |-> q1]
=============================================================================
