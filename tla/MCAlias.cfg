SPECIFICATION Spec
CONSTANTS
    Word <- MCWord
    Upper <- MCUpper
    Commands <- MCCommands
    MaxReplacement = 2
    MaxLine = 2
    Hole = Hole
INVARIANTS
    ArrayExact
    AnsweredAsRewritten
PROPERTY
    CommandAnswered
CHECK_DEADLOCK FALSE
