SPECIFICATION Spec
CONSTANTS
  Consoles = {c1, c2, c3}
  Modes = {"on", "auto"}
  LoginsWait = TRUE
  Starter = Starter
  NoOne = NoOne
  Absent = Absent
INVARIANTS
  TypeOK
  ServersAgree
PROPERTY
  DecisionIsFinal
