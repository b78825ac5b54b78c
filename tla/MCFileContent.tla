---------------------------- MODULE MCFileContent ----------------------------
(* TLC instances of FileContent.                                            *)
EXTENDS FileContent, TLC

\* Nodes, keys and requests are interchangeable: every action quantifies over them.
Symmetric == Permutations(Nodes) \cup Permutations(Keys) \cup Permutations(Requests)
=============================================================================
