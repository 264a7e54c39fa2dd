---------------------------- MODULE MCRetrieval -----------------------------
EXTENDS Retrieval

CONSTANTS a1, a2, a3, b1, \* chunks: three of document A, one of B
          p1, p2

MCDoc == [c \in Chunks |-> IF c = b1 THEN "B" ELSE "A"]
\* a1 and a2 are parts of one paragraph; a3 is of another section.
MCSection == [c \in Chunks |-> IF c = a3 THEN 2 ELSE 1]
MCParent == [c \in Chunks |-> CASE c \in {a1, a2} -> p1 [] c = a3 -> p2 [] OTHER -> NoParent]
=============================================================================
