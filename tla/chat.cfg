SPECIFICATION Spec
CONSTANTS
    Browser = {b1, b2}
    MaxItems = 2
    MaxMessages = 4
    MaxInbox = 3
    MaxTyped = 1
SYMMETRY Browsers
INVARIANTS
    RecentHistory
    ConnectedPagesMissNothing
    NothingTwice
    SilentWhileMuted
CHECK_DEADLOCK FALSE
