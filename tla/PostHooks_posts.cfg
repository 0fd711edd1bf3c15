SPECIFICATION Spec
CONSTANTS
    Settings <- MCSettings
    Messages <- Message
    Nil = Nil
    MaxChanges = 1
    MaxEdits = 1
CHECK_DEADLOCK FALSE
INVARIANTS StampIsWhole TheMessageComesFirst CardTellsTheTruth
PROPERTY StampIsFinal
