SPECIFICATION Spec
CONSTANTS
    Socket = {}
    Room = {r1}
    Token = {b1, b2}
    MaxParticipants = 3
    NoSocket = NoSocket
    NoRoom = NoRoom
    NoToken = NoToken
    Media = {}
    MaxInbox = 2
    MaxAsked = 2
    MaxBehind = 2
SYMMETRY Symmetry
INVARIANTS
    ReplicasCatchUp
CHECK_DEADLOCK FALSE
