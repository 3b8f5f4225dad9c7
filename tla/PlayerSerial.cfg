CONSTANTS
  Files = {f1, f2}
  MaxFiles = 2
  UserModes = {"normal", "repeat_all", "repeat_single"}
  GraphMayFail = FALSE
  MaxPending = 1
  MaxBacklog = 6
  NoFile = NoFile
SPECIFICATION HFairSpec
INVARIANTS
  NowPlayingAgrees
  NoSharedPlaylistAccess
PROPERTIES
  ImplementsPlayer
  Settles
