SPECIFICATION LiveSpec
CONSTANTS
    Socket = {s1, s2, s3}
    Room = {r1, r2}
    Token = {t1, t2}
    MaxParticipants = 3
    NoSocket = NoSocket
    NoRoom = NoRoom
    NoToken = NoToken
    MaxTimers = 1
    OneJoinPerSocket = FALSE
PROPERTIES
    ReconnectingResolves
    KeepsRoster
CHECK_DEADLOCK FALSE
