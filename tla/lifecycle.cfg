SPECIFICATION Spec
CONSTANTS
    Socket = {s1, s2, s3, s4, s5}
    Room = {r1, r2}
    Token = {t1, t2}
    MaxParticipants = 4
    NoSocket = NoSocket
    NoRoom = NoRoom
    NoToken = NoToken
    MaxTimers = 1
    OneJoinPerSocket = TRUE
SYMMETRY Symmetry
INVARIANTS
    TypeOK
    NoGhosts
    BroadcastsFollowSession
    TimersBounded
    EveryMemberHasToken
PROPERTIES
    IdentityStaysWithBrowser
CHECK_DEADLOCK FALSE
