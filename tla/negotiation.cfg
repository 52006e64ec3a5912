SPECIFICATION Spec
CONSTANTS
    MaxChanges = 2
    MaxRestarts = 2
INVARIANTS
    AgreedUnlessRollbackRefused
    AnswersFit
PROPERTIES
    ImpoliteOfferStands
CHECK_DEADLOCK FALSE
