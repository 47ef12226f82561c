SPECIFICATION Spec
CONSTANTS
    Calls = {c1, c2}
    MaxFrames = 2

INVARIANTS TypeOK HandoverNeverBlocks PlainMeansUnsent NothingLeftPending
CHECK_DEADLOCK FALSE
PROPERTIES CallsEnd
