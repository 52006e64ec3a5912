SPECIFICATION Spec
CONSTANTS
    Camera = camera
    Screens = {s1, s2}
    NoStream = NoStream
    MaxWire = 2
    MaxChanges = 5
SYMMETRY Symmetry
INVARIANTS
    StreamInOneBucket
    ExpectedIsTrue
PROPERTIES
    KeptUnlessUnannounced
CHECK_DEADLOCK FALSE
