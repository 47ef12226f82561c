SPECIFICATION Spec
CONSTANTS
    Sessions = {s1}
    Devices = {d1}
    Paths = {p1}
    Chunks = {c1, c2}
    Sizes = {1}
    Reqs = {r1, r2}
    MaxHostSessions = 1
    MaxHostBytes = 1
    MaxDeviceSessions = 1
    MaxDeviceBytes = 1
    HardLinks = TRUE
SYMMETRY ReqSymmetry
INVARIANTS TypeOK IInv PublishedIntact CompletionExclusive LeaseKeepsSession RecordedIsWritten OutcomeHonest
PROPERTIES NoReplace
