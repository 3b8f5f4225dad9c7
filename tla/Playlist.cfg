CONSTANTS
  Files = {f1, f2}
  MaxFiles = 3
SPECIFICATION PlaylistSpec
INVARIANTS
  PlaylistTypeOK
  NextPreviousInverse
  TransitionsPlayAllInOrder
PROPERTIES
  CursorSurvivesAdd
