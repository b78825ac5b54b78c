------------------------------ MODULE MCNodeTree ------------------------------
(* TLC instances of NodeTree.                                               *)
EXTENDS NodeTree, TLC

CONSTANTS a, b, A  \* names; A is a in capitals

\* Lowercase: of names that have no capitals, and of those that may.
NoCapitals == [n \in Names |-> n]
Capital    == [n \in Names |-> IF n = A THEN a ELSE n]

\* Without capitals names are interchangeable; ids are not, lists are ordered by id.
Symmetric == Permutations(Names)
=============================================================================
