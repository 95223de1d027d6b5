--------------------------- MODULE MCFileStorage ---------------------------
(* FileStorage on small instances for TLC. *)
EXTENDS FileStorage, TLC

RequestSymmetry ==
  Permutations(Workers) \cup Permutations(Users) \cup Permutations(Files)
=============================================================================
