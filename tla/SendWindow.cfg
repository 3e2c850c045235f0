SPECIFICATION Spec
CONSTANTS
    SendAfter = 540
    SendBefore = 1260
    Shifts <- MCShifts
INVARIANTS
    TypeOK
PROPERTIES
    SentByDay
    NoNeedlessWait
