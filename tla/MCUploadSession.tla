--------------------------- MODULE MCUploadSession ---------------------------
(* TLC instances of UploadSession.                                          *)
EXTENDS UploadSession, TLC

\* Requests and keys are interchangeable: every action quantifies over them.
Symmetric == Permutations(Requests) \cup Permutations(Keys)
=============================================================================
