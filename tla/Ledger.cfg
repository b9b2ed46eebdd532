CONSTANTS
    u1 = u1
    u2 = u2
    k1 = k1
    k2 = k2
    k3 = k3
    Users <- MCUsers
    Keys <- MCKeys
    Requests <- MCRequests
    MaxTxs = 5
SPECIFICATION Spec
SYMMETRY MCSymmetry
INVARIANTS
    TypeOK
    ZeroSum
    NoOverdraft
    BalanceIsHistory
    KeyRemembersItsTransaction
    RefundedOnce
PROPERTIES
    AppendOnly
