SPECIFICATION Spec
CONSTANTS
  p1 = p1
  p2 = p2
  p3 = p3
  race = race
  battle = battle
  NoURL = NoURL
  Players = {p1, p2, p3}
  Friends <- Strangers
  AllowPublic = TRUE
  Descriptions = {race}
  Requests <- StoreRequests
  PartySizes = {0, 2}
  CriteriaLists = {}
  MaxGatherings = 2
CONSTRAINT NoSessionURLs
SYMMETRY Symmetry123
INVARIANTS
  TypeOK
  OwnerAndHostTakePart
  IDsAreIssued
  ParticipationCountAgrees
  PartiesAreWhole
PROPERTIES
  ImplementsLobbyRegistry
  IDsAreNotReused
  NeverOverfilled
