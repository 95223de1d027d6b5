SPECIFICATION Spec
CONSTANTS
  Workers = {w1, w2}
  Users = {u1, u2, u3}
  Emails = {e1, e2}
  YandexIds = {y1, y2}
  States = {t1, t2}
  Profiles <- MCProfiles
  Faults = {"redis", "raise", "crash", "slow", "index", "startup"}
  None = None
  Orphan = Orphan
  e1 = e1
  e2 = e2
  y1 = y1
  y2 = y2
SYMMETRY RequestSymmetry
INVARIANTS TypeOK OneUserPerEmail OneUserPerYandexId SignedInByProfile
PROPERTIES NoForeignRelease ImplementsDirectory
