--------------------------- MODULE MCHolidayItems ---------------------------
(* HolidayItems on small instances for TLC. *)
EXTENDS HolidayItems, TLC

RequestSymmetry ==
  Permutations(Workers) \cup Permutations(Authors) \cup Permutations(Titles) \cup Permutations(Items)
=============================================================================
