CONSTANTS
    MaxFrames = 3
    MaxLoads = 2
    MaxErrors = 2
    MaxLate = 1
SPECIFICATION Spec
INVARIANTS TypeOK WokenForFrames
PROPERTIES NeverSleepsForever StopReturns
CHECK_DEADLOCK FALSE
