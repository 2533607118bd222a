SPECIFICATION Spec
CONSTANTS
  Players = {p1, p2}
  Categories = {lap}
  Nothing = Nothing
  Partial = Partial
  Friends <- NoFriends
  Scores = {1, 2}
  OrderBys = {"ascending"}
  UpdateModes = {"normal"}
  UniqueIDs = {}
  Blobs = {}
  SaveMayFail = TRUE
  MaxTime = 0
  Lengths = {}
INVARIANT
  AcknowledgedScoresAreKept
