SPECIFICATION Spec
CONSTANTS
    k1 = k1
    k2 = k2
    f1 = f1
    f2 = f2
    None = None
    Callers = {c1, c2}
    Keys = {k1, k2}
    Files = {f1, f2}
    FileOf <- MCFileOf
    Renders = {r1, r2}
    Slots = 1
    CrashLogCap = 1

INVARIANTS CanceledWhenAlone SharedOnce  CrashLogConsistent
PROPERTIES CanceledEnds
CHECK_DEADLOCK FALSE
