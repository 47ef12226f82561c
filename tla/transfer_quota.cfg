SPECIFICATION Spec
CONSTANTS
    Sessions = {s1, s2, s3}
    Devices = {d1, d2}
    Paths = {p1}
    Chunks = {c1}
    Sizes = {1, 2, 3}
    Reqs = {}
    MaxHostSessions = 2
    MaxHostBytes = 3
    MaxDeviceSessions = 1
    MaxDeviceBytes = 2
    HardLinks = TRUE
INVARIANTS QuotaHolds
