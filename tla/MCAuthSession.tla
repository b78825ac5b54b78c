----------------------------- MODULE MCAuthSession -----------------------------
(* TLC instances of AuthSession.                                            *)
EXTENDS AuthSession, TLC

\* Sessions and requests are interchangeable.
Symmetric == Permutations(Sessions) \cup Permutations(Calls)
=============================================================================
