SPECIFICATION Spec
CONSTANTS
  p1 = p1
  p2 = p2
  p3 = p3
  race = race
  battle = battle
  NoURL = NoURL
  Players = {p1, p2, p3}
  Friends <- MCFriends
  AllowPublic = TRUE
  Descriptions = {race, battle}
  Requests <- AdmissionRequests
  PartySizes = {1}
  CriteriaLists <- WideningSearch
  MaxGatherings = 2
CONSTRAINT NoSessionURLs
SYMMETRY Symmetry12
PROPERTIES
  AdmissionIsControlled
  MatchmakingSeatsOnce
