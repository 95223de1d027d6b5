SPECIFICATION Spec
CONSTANTS
  Workers = {w1, w2}
  Users = {u1, u2}
  Sessions = {s1, s2}
  ResetTokens = {}
  Ops = {"logout", "logoutAll", "login", "refresh"}
  Faults = {"redis", "abort", "expiry", "refreshExpiry"}
  DebugReturnResetToken = TRUE
  None = None
SYMMETRY SessionSymmetry
INVARIANTS ClosedSessionIsDead
PROPERTIES NoGrantAfterClose ImplementsLifecycle
