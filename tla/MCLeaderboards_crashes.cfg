SPECIFICATION Spec
CONSTANTS
  Players = {p1, p2}
  Categories = {lap}
  Nothing = Nothing
  Partial = Partial
  Friends <- NoFriends
  Scores = {1, 2}
  OrderBys = {"ascending"}
  UpdateModes = {"normal", "overwrite"}
  UniqueIDs = {ghost}
  Blobs = {b1}
  SaveMayFail = TRUE
  MaxTime = 0
  Lengths = {}
SYMMETRY PlayerSymmetry
INVARIANT
  TypeOK
PROPERTY
  ImplementsDurableStore
