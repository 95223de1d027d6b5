SPECIFICATION Spec
CONSTANTS
  Workers = {w1, w2}
  Users = {u1}
  Sessions = {s1, s2}
  ResetTokens = {t1, t2}
  Ops = {"login", "forgot", "reset"}
  Faults = {"abort", "expiry"}
  DebugReturnResetToken = TRUE
  None = None
SYMMETRY SessionSymmetry
INVARIANTS ClosedSessionIsDead ClosedResetTokenIsDead
