SPECIFICATION Spec
CONSTANTS
    MaxAttempts = 3
    MaxBreaks = 1
INVARIANTS
    NoForgottenSocket
    RoomHasItsSession
PROPERTIES
    FailureStands
    JoinIsSettled
    AbandonedSeatsAreFreed
CHECK_DEADLOCK FALSE
