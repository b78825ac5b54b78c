------------------------------ MODULE MCShareLink ------------------------------
(* TLC instances of ShareLink.                                              *)
EXTENDS ShareLink, TLC

\* Links, visitors and nodes are interchangeable.
Symmetric == Permutations(Links) \cup Permutations(Visitors) \cup Permutations(Nodes)

\* A protected link with a budget that expires at once, an open one with a budget that
\* stays, and a protected one to look at.
SomeSettings ==
    { [download |-> TRUE, expires |-> 0, max |-> 1, password |-> "p"],
      [download |-> TRUE, expires |-> Never, max |-> 1, password |-> None],
      [download |-> FALSE, expires |-> Never, max |-> 1, password |-> "q"] }
=============================================================================
