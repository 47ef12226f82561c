SPECIFICATION LiveSpec
CONSTANTS
    u1 = u1
    u2 = u2
    u3 = u3
    u4 = u4
    Users <- MCUsers
    Need <- MCNeed
    Limit = 3
INVARIANTS TypeOK NoLostWakeup
PROPERTIES  AcquireReturns
