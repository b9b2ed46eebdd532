CONSTANTS
    u1 = u1
    u2 = u2
    k1 = k1
    k2 = k2
    r1 = r1
    r2 = r2
    a1 = a1
    Users <- MCUsers
    Keys <- MCKeys
    Requests <- MCRequests
    Admins <- MCAdmins
    Creators <- MCCreators
    Fan = u2
    GiftCoins = 30
    MinimumWithdrawal = 14
    PayoutKeys = {k1, k2}
    Ask <- MCAsk
    MaxGifts = 1
    MaxPayouts = 2
    MaxCuts = 1
SPECIFICATION Spec
SYMMETRY MCSymmetry
INVARIANTS
    NoneBeforeTheHold
    ReversedIffReturned
PROPERTIES
    AlongTheStateMachine
CHECK_DEADLOCK FALSE
