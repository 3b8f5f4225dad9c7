CONSTANTS
    VideoSizes <- MCVideoSizes
    FixedRatios <- MCFixedRatios
    Drags <- MCDrags
    FirstSize <- MCFirstSize
    Screen <- MCScreen
    Work <- MCWork
    Icon <- MCIcon
    UserModes = {"free", "50%", "100%", "200%"}
    Largest = 12
    MaxMoves = 6
SPECIFICATION Spec
INVARIANTS ResizeEnds PolicyHolds SceneCovers CursorComesBack
