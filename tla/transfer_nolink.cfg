SPECIFICATION Spec
CONSTANTS
    Sessions = {s1}
    Devices = {d1}
    Paths = {p1}
    Chunks = {c1}
    Sizes = {1}
    Reqs = {r1}
    MaxHostSessions = 1
    MaxHostBytes = 1
    MaxDeviceSessions = 1
    MaxDeviceBytes = 1
    HardLinks = FALSE
PROPERTIES NoReplace
