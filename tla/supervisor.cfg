SPECIFICATION Spec
CONSTANTS
    BreakerFailures = 3
    MinBackoff = 1
    MaxBackoff = 4
CHECK_DEADLOCK FALSE
INVARIANTS TypeOK OneSidecar StopIsFinal BreakerMeansDown
PROPERTIES KeepsTrying StopEnds
