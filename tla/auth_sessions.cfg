SPECIFICATION Spec
CONSTANTS
  Workers = {w1, w2}
  Users = {u1, u2}
  Sessions = {s1, s2, s3}
  ResetTokens = {}
  Ops = {"whoami", "logout", "logoutAll", "login", "refresh"}
  Faults = {"expiry"}
  DebugReturnResetToken = TRUE
  None = None
SYMMETRY SessionSymmetry
INVARIANTS TypeOK ClosedSessionIsDead UsableUntilEnded
