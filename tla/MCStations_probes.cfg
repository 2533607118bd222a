\* Two players who may use either of two addresses, two connections one after the
\* other or at a time.
CONSTANTS
  p1 = p1
  p2 = p2
  a1 = a1
  a2 = a2
  home = home
  Players = {p1, p2}
  Addresses = {a1, a2}
  MayUse <- MCMayUse
  OtherAddresses = {home}
  Claims <- MCClaims
  Replacements <- MCReplacements
  MaxConnections = 2
  MaxStations = 2
SPECIFICATION Spec
INVARIANTS TypeOK AnswersAreThePlayers ProbesReachTheirPlayer
CONSTRAINT MCTwoStations
SYMMETRY MCSymmetry
CHECK_DEADLOCK FALSE
