SPECIFICATION Spec
CONSTANTS
  Workers = {w1, w2}
  Users = {u1, u2}
  Titles = {t1}
  Authors = {u1}
  Items = {i1, i2}
  Times = {1, 2}
  Limit = 1
  Pages = {2}
  Faults = {"redis", "die"}
  None = None
  Null = Null
  NoKey = NoKey
SYMMETRY RequestSymmetry
INVARIANTS TypeOK TitlesUnique ListsCoherent EntitiesCoherent CachesPrivate
