SPECIFICATION Spec
CONSTANTS
  a1 = a1
  a2 = a2
  p1 = p1
  Players = {p1}
  Addresses = {a1, a2}
  MayUse <- OwnAddresses
  HandlersFinish = FALSE
  MaxConnections = 2
  MaxStrays = 1
INVARIANT
  SeatsAreWatched
