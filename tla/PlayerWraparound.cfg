CONSTANTS
  Files = {f1}
  MaxFiles = 1
  UserModes = {}
  GraphMayFail = FALSE
  MaxPending = 1
  MaxBacklog = 2
  NoFile = NoFile
SPECIFICATION Spec
INVARIANTS
  StopsOnWraparound
