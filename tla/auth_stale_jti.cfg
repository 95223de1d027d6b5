SPECIFICATION Spec
CONSTANTS
  Workers = {w1, w2}
  Users = {u1}
  Sessions = {s1, s2}
  ResetTokens = {}
  Ops = {"login", "refresh"}
  Faults = {}
  DebugReturnResetToken = TRUE
  None = None
SYMMETRY SessionSymmetry
INVARIANTS ClosedHasNoJti
