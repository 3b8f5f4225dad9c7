CONSTANTS
    Handles = {0, 1, 2, 3}
    Minimum = 1
    MaxFrames = 2
    MaxLoads = 2
    MaxRebuilds = 1
    MaxFailures = 1
SPECIFICATION Spec
INVARIANTS TypeOK OnePlace ShownIsStill MetadataFound NothingLost QueueIsOfThisFile StampedOncePublished
PROPERTY FramesInOrder
CHECK_DEADLOCK FALSE
