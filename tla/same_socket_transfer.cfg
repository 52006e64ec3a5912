SPECIFICATION Spec
CONSTANTS
    Socket = {s1, s2}
    Room = {r1, r2}
    Token = {t1}
    MaxParticipants = 3
    NoSocket = NoSocket
    NoRoom = NoRoom
    NoToken = NoToken
    MaxTimers = 1
    OneJoinPerSocket = FALSE
SYMMETRY Symmetry
INVARIANTS
    BroadcastsFollowSession
CHECK_DEADLOCK FALSE
