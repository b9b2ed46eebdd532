CONSTANTS
    u1 = u1
    u2 = u2
    k1 = k1
    k2 = k2
    k3 = k3
    k4 = k4
    c1 = c1
    c2 = c2
    Users <- MCUsers
    Keys <- MCKeys
    Calls <- MCCalls
    Requests <- MCRequests
    MaxTxs = 4
    MaxSerializationRetries = 2
SPECIFICATION Spec
SYMMETRY MCSymmetry
INVARIANT RefundedAtMostOnce
