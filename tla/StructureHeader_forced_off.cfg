SPECIFICATION Spec
CONSTANTS
  Consoles = {c1, c2, c3}
  Modes = {"off"}
  LoginsWait = TRUE
  Starter = Starter
  NoOne = NoOne
  Absent = Absent
INVARIANTS
  ServersAgree
