CONSTANTS
    u1 = u1
    u2 = u2
    q1 = q1
    Users <- MCUsers
    Keys <- MCKeys
    ClientKeys <- MCClientKeys
    MaxRunners = 2
    Asks <- MCAsks
    Opening = 15
    MaxMinutes = 2
    MaxSessions = 2
    MaxMoves = 1
    MaxFailures = 0
SPECIFICATION Spec
INVARIANTS
    DeclinedIsFree
CHECK_DEADLOCK FALSE
