CONSTANTS
  Files = {f1}
  MaxFiles = 1
  UserModes = {"repeat_all"}
  GraphMayFail = TRUE
  MaxPending = 2
  MaxBacklog = 6
  NoFile = NoFile
SPECIFICATION FairSpec
INVARIANTS
  TypeOK
  InStep
  TopmostWhileShowing
  NamedWhileLoaded
  SenderIsServed
PROPERTIES
  WindowReturns
