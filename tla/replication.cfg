SPECIFICATION LiveSpec
CONSTANTS
    Socket = {}
    Room = {r1}
    Token = {b1, b2}
    MaxParticipants = 2
    NoSocket = NoSocket
    NoRoom = NoRoom
    NoToken = NoToken
    Media = {screen}
    MaxInbox = 2
    MaxAsked = 1
    MaxBehind = 0
INVARIANTS
    TypeOK
    NobodySharesForbidden
    ReplicasCatchUp
PROPERTIES
    EnforcementArrives
CHECK_DEADLOCK FALSE
