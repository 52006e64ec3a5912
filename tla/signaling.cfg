SPECIFICATION Spec
CONSTANTS
    Socket = {s1, s2, s3}
    Room = {r1, r2}
    Token = {}
    MaxParticipants = 2
    NoSocket = NoSocket
    NoRoom = NoRoom
    NoToken = NoToken
    Event = {"signal", "chat"}
    MaxInFlight = 2
    WindowMs = 1
    MaxEvents = 1
    Sender = {s1}
    MaxJobs = 3
    MaxTime = 2
SYMMETRY Symmetry
INVARIANTS
    RateBound
    InFlightIsExact
    SignalsReachTheirTarget
CHECK_DEADLOCK FALSE
