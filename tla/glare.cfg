SPECIFICATION Spec
CONSTANTS
    MaxChanges = 1
    MaxRestarts = 0
INVARIANTS
    ChangesArePublished
CHECK_DEADLOCK FALSE
