CONSTANTS
    u1 = u1
    u2 = u2
    q1 = q1
    Users <- MCUsers
    Keys <- MCKeys
    ClientKeys <- MCClientKeys
    MaxRunners = 2
    Asks <- MCAsks
    Opening = 15
    MaxMinutes = 2
    MaxSessions = 2
    MaxMoves = 1
    MaxFailures = 1
SPECIFICATION Spec
INVARIANTS
    HeldBeforeRing
    HoldReleasedFirst
    OnlyTakenCallsAreBilled
PROPERTIES
    CallsCanBeHungUp
CHECK_DEADLOCK FALSE
