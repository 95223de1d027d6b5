--------------------------- MODULE MCAuthSessions ---------------------------
(* AuthSessions on small instances for TLC. *)
EXTENDS AuthSessions, TLC

SessionSymmetry == Permutations(Workers) \cup Permutations(Sessions) \cup Permutations(Users)
=============================================================================
