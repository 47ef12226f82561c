SPECIFICATION Spec
CONSTANTS
    Versions = 2
    Size <- MCSize
    MaxAttempts = 2
    MaxCrashes = 0
CHECK_DEADLOCK FALSE
CONSTRAINT Unraced
INVARIANTS DoneIsWhole
