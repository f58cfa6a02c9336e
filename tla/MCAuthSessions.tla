--------------------------- MODULE MCAuthSessions ---------------------------
(* AuthSessions on a few interchangeable requests and accounts.            *)
EXTENDS AuthSessions, TLC

Symmetry == Permutations(Request) \cup Permutations(User)
=============================================================================
