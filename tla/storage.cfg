SPECIFICATION Spec
CONSTANTS
  Workers = {w1, w2}
  Users = {u1, u2}
  Files = {f1}
  Faults = {"redis", "die"}
  None = None
  NoKey = NoKey
SYMMETRY RequestSymmetry
INVARIANTS TypeOK ObjectsMatchRecords DeletedIsGone DeletedIsNoAvatar OwnersOnly ProfileCacheCoherent
PROPERTY ImplementsFileLifecycle
