SPECIFICATION Spec
CONSTANTS
    Versions = 2
    Size <- MCSize
    MaxAttempts = 3
    MaxCrashes = 1
CHECK_DEADLOCK FALSE
CONSTRAINT Unraced
INVARIANTS PartOfValidator
