SPECIFICATION Spec
CONSTANTS
  Players = {p1, p2, p3}
  Categories = {lap}
  Nothing = Nothing
  Partial = Partial
  Friends <- NoFriends
  Scores = {1, 2}
  OrderBys = {"ascending"}
  UpdateModes = {"normal", "overwrite"}
  UniqueIDs = {}
  Blobs = {}
  SaveMayFail = FALSE
  MaxTime = 1
  Lengths = {0, 1, 2, 3}
SYMMETRY PlayerSymmetry
INVARIANTS
  PagesContinueTheRanking
  NearbyShowsTheCaller
  AcknowledgedScoresAreKept
PROPERTY
  ProjectionIsTheRank
