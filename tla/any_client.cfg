SPECIFICATION Spec
CONSTANTS
    Socket = {s1, s2, s3, s4}
    Room = {r1, r2}
    Token = {t1, t2, t3}
    MaxParticipants = 4
    NoSocket = NoSocket
    NoRoom = NoRoom
    NoToken = NoToken
    MaxTimers = 1
    OneJoinPerSocket = FALSE
SYMMETRY Symmetry
INVARIANTS
    SessionsMatchEndpoints
    SessionsAreLive
    TimersForReconnecting
    TokensHoldLiveSeats
    OldestOwnsRoom
PROPERTIES
    DisconnectSparesOthers
CHECK_DEADLOCK FALSE
