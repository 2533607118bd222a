\* Three consoles, two gatherings with all notices, reconnections at any time, two
\* announcements under way at once.
CONSTANTS
  p1 = p1
  p2 = p2
  p3 = p3
  a1 = a1
  a2 = a2
  a3 = a3
  Players = {p1, p2, p3}
  Addresses = {a1, a2, a3}
  MayUse <- MCMayUse
  NoOne = NoOne
  NotifyFlags = {"owner", "replay"}
  OneConnectionEach = TRUE
  MaxGatherings = 2
SPECIFICATION Spec
INVARIANTS TypeOK ListsAreRight EndsAreKnown OwnersAreKnown
CONSTRAINTS MCFlags MCAnnouncements
SYMMETRY MCSymmetry
CHECK_DEADLOCK FALSE
