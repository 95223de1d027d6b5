--------------------------- MODULE MCRegistration ---------------------------
(* Registration on small instances for TLC. *)
EXTENDS Registration, TLC

CONSTANTS e1, e2, y1, y2

(* Two accounts with one e-mail, and an e-mail without an account. *)
MCProfiles == {<<y1, e1>>, <<y2, e1>>}

RequestSymmetry ==
  Permutations(Workers) \cup Permutations(Users) \cup Permutations(States)
    \cup Permutations({y1, y2})
=============================================================================
